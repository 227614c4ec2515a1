-------------------------- MODULE EchoServersProofs --------------------------
(***************************************************************************)
(* What EchoServers promises, for any finite sets of clients and workers   *)
(* and any number of lines.  Each server has an inductive invariant of its *)
(* own, which says nothing of the others.                                  *)
(***************************************************************************)
EXTENDS EchoServers, FiniteSetTheorems, SequenceTheorems, TLAPS

-----------------------------------------------------------------------------
(* A step of a server is one of the module that models it.                 *)

LEMMA SameProgram == ASSUME [Next]_vars PROVE program' = program
BY DEF Next, Client, ServerStep, LoopStep, WorkerStep, Failure, Frame, vars

LEMMA HalfSyncSteps ==
  ASSUME program = "halfSync", [Next]_vars
  PROVE  [HalfSync!Next]_(HalfSync!vars)
<1>1. CASE UNCHANGED vars
  BY <1>1 DEF vars, serverVars, netVars, HalfSync!vars, HalfSync!serverVars, HalfSync!netVars
<1>2. ASSUME NEW c \in Clients, Client(c) PROVE HalfSync!Next
  <2>1. HalfSync!ClientStep(c) /\ UNCHANGED HalfSync!serverVars
    BY <1>2 DEF Client, ClientStep, Connect, Send, HangUp, HalfSync!ClientStep, HalfSync!Connect,
      HalfSync!Send, HalfSync!HangUp, serverVars, HalfSync!serverVars
  <2>2. QED
    BY <2>1 DEF HalfSync!Next
<1>3. QED
  BY <1>1, <1>2 DEF Next, ServerStep, Failure, LoopStep, WorkerStep, HalfSync!Next

LEMMA ReactorSteps ==
  ASSUME program = "reactor", [Next]_vars
  PROVE  [Reactor!Next]_(Reactor!vars)
<1>1. CASE UNCHANGED vars
  BY <1>1 DEF vars, serverVars, netVars, Reactor!vars, Reactor!serverVars, Reactor!netVars
<1>2. ASSUME NEW c \in Clients, Client(c) PROVE Reactor!Next
  BY <1>2 DEF Client, serverVars, Reactor!serverVars, Reactor!Next
<1>3. QED
  BY <1>1, <1>2 DEF Next, ServerStep, Failure, LoopStep, WorkerStep, Reactor!Next

LEMMA PoolSteps ==
  ASSUME program = "pool", [Next]_vars
  PROVE  [Pool!Next]_(Pool!vars)
<1>1. CASE UNCHANGED vars
  BY <1>1 DEF vars, serverVars, netVars, Pool!vars, Pool!serverVars, Pool!netVars
<1>2. ASSUME NEW c \in Clients, Client(c) PROVE Pool!Next
  <2>1. Pool!ClientStep(c) /\ UNCHANGED Pool!serverVars
    BY <1>2 DEF Client, ClientStep, Connect, Send, HangUp, Pool!ClientStep, Pool!Connect,
      Pool!Send, Pool!HangUp, serverVars, Pool!serverVars
  <2>2. QED
    BY <2>1 DEF Pool!Next
<1>3. QED
  BY <1>1, <1>2 DEF Next, ServerStep, Failure, LoopStep, WorkerStep, Pool!Next

LEMMA QueuesSteps ==
  ASSUME program = "queues", [Next]_vars
  PROVE  [Queues!Next]_(Queues!vars)
<1>1. CASE UNCHANGED vars
  BY <1>1 DEF vars, serverVars, netVars, Queues!vars, Queues!serverVars, Queues!netVars
<1>2. ASSUME NEW c \in Clients, Client(c) PROVE Queues!Next
  <2>1. Queues!ClientStep(c) /\ UNCHANGED Queues!serverVars
    BY <1>2 DEF Client, ClientStep, Connect, Send, HangUp, Queues!ClientStep, Queues!Connect,
      Queues!Send, Queues!HangUp, serverVars, Queues!serverVars
  <2>2. QED
    BY <2>1 DEF Queues!Next
<1>3. QED
  BY <1>1, <1>2 DEF Next, ServerStep, Failure, LoopStep, WorkerStep, Queues!Next

LEMMA BoundedSteps ==
  ASSUME program = "bounded", [Next]_vars
  PROVE  [Bounded!Next]_(Bounded!vars)
<1>1. CASE UNCHANGED vars
  BY <1>1 DEF vars, serverVars, netVars, Bounded!vars, Bounded!serverVars, Bounded!netVars
<1>2. ASSUME NEW c \in Clients, Client(c) PROVE Bounded!Next
  <2>1. Bounded!ClientStep(c) /\ UNCHANGED Bounded!serverVars
    BY <1>2 DEF Client, ClientStep, Connect, Send, HangUp, Bounded!ClientStep, Bounded!Connect,
      Bounded!Send, Bounded!HangUp, serverVars, Bounded!serverVars
  <2>2. QED
    BY <2>1 DEF Bounded!Next
<1>3. QED
  BY <1>1, <1>2 DEF Next, ServerStep, Failure, LoopStep, WorkerStep, Bounded!Next

LEMMA ListensSteps ==
  ASSUME program = "listens", [Next]_vars
  PROVE  [Listens!Next]_(Listens!vars)
<1>1. CASE UNCHANGED vars
  BY <1>1 DEF vars, serverVars, netVars, Listens!vars, Listens!serverVars, Listens!netVars
<1>2. ASSUME NEW c \in Clients, Client(c) PROVE Listens!Next
  <2>1. Listens!ClientStep(c) /\ UNCHANGED Listens!serverVars
    BY <1>2 DEF Client, ClientStep, Connect, Send, HangUp, Listens!ClientStep, Listens!Connect,
      Listens!Send, Listens!HangUp, serverVars, Listens!serverVars
  <2>2. QED
    BY <2>1 DEF Listens!Next
<1>3. QED
  BY <1>1, <1>2 DEF Next, ServerStep, Failure, LoopStep, WorkerStep, Listens!Next

LEMMA FilesSteps ==
  ASSUME program = "files", [Next]_vars
  PROVE  [Files!Next]_(Files!vars)
<1>1. CASE UNCHANGED vars
  BY <1>1 DEF vars, serverVars, netVars, Files!vars, Files!serverVars, Files!netVars
<1>2. ASSUME NEW c \in Clients, Client(c) PROVE Files!Next
  <2>1. Files!ClientStep(c) /\ UNCHANGED Files!serverVars
    BY <1>2 DEF Client, ClientStep, Connect, Send, HangUp, Files!ClientStep, Files!Connect,
      Files!Send, Files!HangUp, serverVars, Files!serverVars
  <2>2. QED
    BY <2>1 DEF Files!Next
<1>3. QED
  BY <1>1, <1>2 DEF Next, ServerStep, Failure, LoopStep, WorkerStep, Files!Next

LEMMA SimpleSteps ==
  ASSUME program = "simple", [Next]_vars
  PROVE  [Simple!Next]_(Simple!vars)
<1>1. CASE UNCHANGED vars
  BY <1>1 DEF vars, serverVars, netVars, Simple!vars, Simple!serverVars, Simple!netVars
<1>2. ASSUME NEW c \in Clients, Client(c) PROVE Simple!Next
  <2>1. Simple!ClientStep(c) /\ UNCHANGED Simple!serverVars
    BY <1>2 DEF Client, ClientStep, Connect, Send, HangUp, Simple!ClientStep, Simple!Connect,
      Simple!Send, Simple!HangUp, serverVars, Simple!serverVars
  <2>2. QED
    BY <2>1 DEF Simple!Next
<1>3. QED
  BY <1>1, <1>2 DEF Next, ServerStep, Failure, LoopStep, WorkerStep, Simple!Next

LEMMA ClosingSteps ==
  ASSUME program = "closing", [Next]_vars
  PROVE  [Closing!Next]_(Closing!vars)
<1>1. CASE UNCHANGED vars
  BY <1>1 DEF vars, serverVars, netVars, Closing!vars, Closing!serverVars, Closing!netVars
<1>2. ASSUME NEW c \in Clients, Client(c) PROVE Closing!Next
  <2>1. Closing!ClientStep(c) /\ UNCHANGED Closing!serverVars
    BY <1>2 DEF Client, ClientStep, Connect, Send, HangUp, Closing!ClientStep, Closing!Connect,
      Closing!Send, Closing!HangUp, serverVars, Closing!serverVars
  <2>2. QED
    BY <2>1 DEF Closing!Next
<1>3. QED
  BY <1>1, <1>2 DEF Next, ServerStep, Failure, LoopStep, WorkerStep, Closing!Next

-----------------------------------------------------------------------------
(* Half-sync/half-async and JavaPA4: a line is with the reactor, in the    *)
(* queue, with a worker, or at its client.  a and q are the tasks of the   *)
(* reactor and of the queue, h[w] that of worker w, e[c] the lines that c  *)
(* has got back, r[c] how many have been read, g the clients that are gone. *)

Tasks == [client : Clients, line : 1..Lines]

Busy(h) == {w \in Workers : h[w].client \in Clients}

TasksTyped(a, q, h, e, r, g) ==
  /\ a \in Seq(Tasks) /\ q \in Seq(Tasks)
  /\ DOMAIN h = Workers /\ \A w \in Busy(h) : h[w] \in Tasks
  /\ e \in [Clients -> Seq(1..Lines)]
  /\ r \in [Clients -> 0..Lines]
  /\ g \subseteq Clients

\* The task t is in the kth of the four places.
Somewhere(t, a, q, h, e) == \/ \E i \in 1..Len(a) : a[i] = t
                            \/ \E j \in 1..Len(q) : q[j] = t
                            \/ \E w \in Busy(h) : h[w] = t
                            \/ \E k \in 1..Len(e[t.client]) : e[t.client][k] = t.line

\* No task is twice in the same place,
OnceEach(a, q, h, e) ==
  /\ \A i, j \in 1..Len(a) : a[i] = a[j] => i = j
  /\ \A i, j \in 1..Len(q) : q[i] = q[j] => i = j
  /\ \A v, w \in Busy(h) : h[v] = h[w] => v = w
  /\ \A c \in Clients : \A i, j \in 1..Len(e[c]) : e[c][i] = e[c][j] => i = j

\* nor in two of them.
Apart(a, q, h, e) ==
  /\ \A i \in 1..Len(a), j \in 1..Len(q) : a[i] # q[j]
  /\ \A i \in 1..Len(a), w \in Busy(h) : a[i] # h[w]
  /\ \A j \in 1..Len(q), w \in Busy(h) : q[j] # h[w]
  /\ \A i \in 1..Len(a) : \A k \in 1..Len(e[a[i].client]) : e[a[i].client][k] # a[i].line
  /\ \A j \in 1..Len(q) : \A k \in 1..Len(e[q[j].client]) : e[q[j].client][k] # q[j].line
  /\ \A w \in Busy(h) : \A k \in 1..Len(e[h[w].client]) : e[h[w].client][k] # h[w].line

\* Only what has been read is anywhere, and all of it is, but for who hangs up.
Accounted(a, q, h, e, r, g) ==
  /\ TasksTyped(a, q, h, e, r, g)
  /\ OnceEach(a, q, h, e)
  /\ Apart(a, q, h, e)
  /\ \A t \in Tasks : Somewhere(t, a, q, h, e) => t.line <= r[t.client]
  /\ \A t \in Tasks : t.line <= r[t.client] => Somewhere(t, a, q, h, e) \/ t.client \in g

\* A function from 1..n is a sequence of length n.
LEMMA FunctionIsSequence ==
  ASSUME NEW S, NEW n \in Nat, NEW s \in [1..n -> S]
  PROVE  s \in Seq(S) /\ Len(s) = n
<1>1. s \in Seq(S)
  BY SeqDef
<1>2. QED
  BY <1>1, LenProperties

\* pop() leaves q2 of the stack q.
Popped(q, q2) == q2 = SubSeq(q, 1, Len(q) - 1)

LEMMA PoppedSeq ==
  ASSUME NEW S, NEW q \in Seq(S), q # <<>>, NEW q2, Popped(q, q2)
  PROVE  /\ q2 \in Seq(S) /\ Len(q2) = Len(q) - 1
         /\ \A j \in 1..Len(q2) : j < Len(q) /\ q2[j] = q[j]
         /\ Len(q) \in 1..Len(q)
<1>1. PICK n \in Nat : Len(q) = n /\ n >= 1
  <2>1. Len(q) \in Nat /\ Len(q) # 0
    OBVIOUS
  <2>2. QED
    BY <2>1
<1>2. SubSeq(q, 1, n - 1) \in Seq(S)
  BY <1>1
<1>3. Len(SubSeq(q, 1, n - 1)) = n - 1
  BY <1>1
<1>4. \A j \in 1..(n - 1) : SubSeq(q, 1, n - 1)[j] = q[j]
  BY <1>1
<1>5. q2 = SubSeq(q, 1, n - 1)
  BY <1>1 DEF Popped
<1>6. QED
  BY <1>1, <1>2, <1>3, <1>4, <1>5

\* The reactor puts its next task into the queue.
LEMMA TaskQueued ==
  ASSUME NEW a, NEW q, NEW h, NEW e, NEW r, NEW g, Accounted(a, q, h, e, r, g),
         a # <<>>, NEW a2, a2 = Tail(a), NEW q2, q2 = Append(q, Head(a))
  PROVE  Accounted(a2, q2, h, e, r, g)
<1>t. TasksTyped(a, q, h, e, r, g) /\ OnceEach(a, q, h, e) /\ Apart(a, q, h, e)
  BY DEF Accounted
<1>1. /\ a2 \in Seq(Tasks) /\ Len(a2) = Len(a) - 1
      /\ \A i \in 1..Len(a2) : i + 1 \in 1..Len(a) /\ a2[i] = a[i + 1]
      /\ \A i \in 1..Len(a) : i # 1 => i - 1 \in 1..Len(a2) /\ a[i] = a2[i - 1]
      /\ 1 \in 1..Len(a) /\ Head(a) = a[1] /\ a[1] \in Tasks
  BY <1>t DEF TasksTyped
<1>2. /\ q2 \in Seq(Tasks) /\ Len(q2) = Len(q) + 1
      /\ \A j \in 1..Len(q2) : (j \in 1..Len(q) /\ q2[j] = q[j]) \/ (j = Len(q2) /\ q2[j] = a[1])
      /\ \A j \in 1..Len(q) : j \in 1..Len(q2) /\ q2[j] = q[j]
      /\ Len(q2) \in 1..Len(q2) /\ q2[Len(q2)] = a[1]
  BY <1>1, <1>t DEF TasksTyped
<1>3. OnceEach(a2, q2, h, e)
  <2>1. \A i, j \in 1..Len(a2) : a2[i] = a2[j] => i = j
    BY <1>t, <1>1 DEF OnceEach
  <2>2. \A i, j \in 1..Len(q2) : q2[i] = q2[j] => i = j
    <3>1. ASSUME NEW i \in 1..Len(q2), NEW j \in 1..Len(q2), q2[i] = q2[j] PROVE i = j
      <4>1. \A l \in 1..Len(q) : q[l] # a[1]
        BY <1>t, <1>1 DEF Apart
      <4>2. CASE i \in 1..Len(q) /\ j \in 1..Len(q)
        BY <1>t, <1>2, <3>1, <4>2 DEF OnceEach
      <4>3. CASE i \in 1..Len(q) /\ j = Len(q2) /\ q2[j] = a[1]
        BY <1>2, <3>1, <4>1, <4>3
      <4>4. CASE i = Len(q2) /\ q2[i] = a[1]
        BY <1>2, <3>1, <4>1, <4>4
      <4>5. QED
        BY <1>2, <4>2, <4>3, <4>4
    <3>2. QED
      BY <3>1
  <2>3. QED
    BY <1>t, <2>1, <2>2 DEF OnceEach
<1>4. Apart(a2, q2, h, e)
  <2>1. \A i \in 1..Len(a2) : a2[i] # a[1]
    BY <1>t, <1>1 DEF OnceEach
  <2>2. ASSUME NEW i \in 1..Len(a2)
        PROVE  /\ \A j \in 1..Len(q2) : a2[i] # q2[j]
               /\ \A w \in Busy(h) : a2[i] # h[w]
               /\ \A k \in 1..Len(e[a2[i].client]) : e[a2[i].client][k] # a2[i].line
    BY <1>t, <1>1, <1>2, <2>1 DEF Apart
  <2>3. ASSUME NEW j \in 1..Len(q2)
        PROVE  /\ \A w \in Busy(h) : q2[j] # h[w]
               /\ \A k \in 1..Len(e[q2[j].client]) : e[q2[j].client][k] # q2[j].line
    BY <1>t, <1>1, <1>2 DEF Apart
  <2>4. QED
    BY <1>t, <2>2, <2>3 DEF Apart
<1>5. \A t \in Tasks : Somewhere(t, a2, q2, h, e) <=> Somewhere(t, a, q, h, e)
  <2> SUFFICES ASSUME NEW t \in Tasks
               PROVE  Somewhere(t, a2, q2, h, e) <=> Somewhere(t, a, q, h, e)
    OBVIOUS
  <2>1. ASSUME Somewhere(t, a2, q2, h, e) PROVE Somewhere(t, a, q, h, e)
    BY <1>1, <1>2, <2>1 DEF Somewhere
  <2>2. ASSUME Somewhere(t, a, q, h, e) PROVE Somewhere(t, a2, q2, h, e)
    <3>1. ASSUME NEW i \in 1..Len(a), a[i] = t PROVE Somewhere(t, a2, q2, h, e)
      BY <1>1, <1>2, <3>1 DEF Somewhere
    <3>2. ASSUME NEW j \in 1..Len(q), q[j] = t PROVE Somewhere(t, a2, q2, h, e)
      BY <1>2, <3>2 DEF Somewhere
    <3>3. QED
      BY <2>2, <3>1, <3>2 DEF Somewhere
  <2>3. QED
    BY <2>1, <2>2
<1>6. TasksTyped(a2, q2, h, e, r, g)
  BY <1>t, <1>1, <1>2 DEF TasksTyped
<1>7. QED
  BY <1>3, <1>4, <1>5, <1>6 DEF Accounted

\* q2 is q without its kth element.
Without(q, k, q2) == /\ Len(q2) = Len(q) - 1
                     /\ \A j \in 1..Len(q2) : q2[j] = q[IF j < k THEN j ELSE j + 1]

\* A worker that has nothing to do takes a task out of the queue.
LEMMA TaskTaken ==
  ASSUME NEW a, NEW q, NEW h, NEW e, NEW r, NEW g, Accounted(a, q, h, e, r, g),
         NEW k \in 1..Len(q), NEW q2 \in Seq(Tasks), Without(q, k, q2),
         NEW w \in Workers \ Busy(h), NEW h2, h2 = [h EXCEPT ![w] = q[k]]
  PROVE  Accounted(a, q2, h2, e, r, g)
<1>t. TasksTyped(a, q, h, e, r, g) /\ OnceEach(a, q, h, e) /\ Apart(a, q, h, e)
  BY DEF Accounted
<1>0. q[k] \in Tasks /\ q[k].client \in Clients
  <2>1. q[k] \in Tasks
    BY <1>t, ElementOfSeq DEF TasksTyped
  <2>2. QED
    BY <2>1 DEF Tasks
<1>1. /\ Len(q2) = Len(q) - 1
      /\ \A j \in 1..Len(q2) : j < k => j \in 1..Len(q) /\ q2[j] = q[j]
      /\ \A j \in 1..Len(q2) : j >= k => j + 1 \in 1..Len(q) /\ q2[j] = q[j + 1]
      /\ \A j \in 1..Len(q) : j < k => j \in 1..Len(q2) /\ q2[j] = q[j]
      /\ \A j \in 1..Len(q) : j > k => j - 1 \in 1..Len(q2) /\ q2[j - 1] = q[j]
  <2>1. Len(q) \in Nat /\ Len(q2) \in Nat /\ Len(q2) = Len(q) - 1
    BY <1>t DEF TasksTyped, Without
  <2>2. \A j \in 1..Len(q2) : j < k => q2[j] = q[j]
    BY DEF Without
  <2>3. \A j \in 1..Len(q2) : j >= k => q2[j] = q[j + 1]
    BY <2>1 DEF Without
  <2>4. \A j \in 1..Len(q) : j > k => j - 1 \in 1..Len(q2) /\ j - 1 >= k /\ (j - 1) + 1 = j
    BY <2>1
  <2>5. \A j \in 1..Len(q) : j > k => q2[j - 1] = q[j]
    BY <2>3, <2>4
  <2>6. QED
    BY <2>1, <2>2, <2>3, <2>4, <2>5
<1>2. /\ Busy(h2) = Busy(h) \cup {w} /\ w \notin Busy(h)
      /\ DOMAIN h2 = Workers /\ h2[w] = q[k]
      /\ \A v \in Busy(h) : h2[v] = h[v]
      /\ \A v \in Busy(h2) : v = w \/ (v \in Busy(h) /\ h2[v] = h[v])
  BY <1>t, <1>0 DEF TasksTyped, Busy
<1>3. \A j \in 1..Len(q2) : q2[j] # q[k] /\ \E i \in 1..Len(q) : q2[j] = q[i]
  <2> SUFFICES ASSUME NEW j \in 1..Len(q2)
               PROVE  q2[j] # q[k] /\ \E i \in 1..Len(q) : q2[j] = q[i]
    OBVIOUS
  <2>1. CASE j < k
    BY <1>t, <1>1, <2>1 DEF OnceEach
  <2>2. CASE j >= k
    BY <1>t, <1>1, <2>2 DEF OnceEach
  <2>3. QED
    BY <1>1, <2>1, <2>2
<1>4. OnceEach(a, q2, h2, e)
  <2>1. ASSUME NEW i \in 1..Len(q2), NEW j \in 1..Len(q2), q2[i] = q2[j] PROVE i = j
    <3>1. CASE i < k /\ j < k
      BY <1>t, <1>1, <2>1, <3>1 DEF OnceEach
    <3>2. CASE i >= k /\ j >= k
      <4>1. i + 1 = j + 1
        BY <1>t, <1>1, <2>1, <3>2 DEF OnceEach
      <4>2. QED
        BY <4>1
    <3>3. CASE i < k /\ j >= k
      <4>1. i = j + 1
        BY <1>t, <1>1, <2>1, <3>3 DEF OnceEach
      <4>2. QED
        BY <3>3, <4>1
    <3>4. CASE i >= k /\ j < k
      <4>1. i + 1 = j
        BY <1>t, <1>1, <2>1, <3>4 DEF OnceEach
      <4>2. QED
        BY <3>4, <4>1
    <3>5. QED
      BY <1>1, <3>1, <3>2, <3>3, <3>4
  <2>2. \A u, v \in Busy(h2) : h2[u] = h2[v] => u = v
    BY <1>t, <1>2 DEF OnceEach, Apart
  <2>3. QED
    BY <1>t, <2>1, <2>2 DEF OnceEach
<1>5. Apart(a, q2, h2, e)
  <2>1. ASSUME NEW i \in 1..Len(a), NEW j \in 1..Len(q2) PROVE a[i] # q2[j]
    BY <1>t, <1>3 DEF Apart
  <2>2. ASSUME NEW i \in 1..Len(a), NEW v \in Busy(h2) PROVE a[i] # h2[v]
    <3>1. CASE v = w
      BY <1>t, <1>2, <3>1 DEF Apart
    <3>2. CASE v \in Busy(h)
      BY <1>t, <1>2, <3>2 DEF Apart
    <3>3. QED
      BY <1>2, <3>1, <3>2
  <2>3. ASSUME NEW j \in 1..Len(q2), NEW v \in Busy(h2) PROVE q2[j] # h2[v]
    <3>1. CASE v = w
      BY <1>2, <1>3, <3>1
    <3>2. CASE v \in Busy(h)
      BY <1>t, <1>2, <1>3, <3>2 DEF Apart
    <3>3. QED
      BY <1>2, <3>1, <3>2
  <2>4. ASSUME NEW j \in 1..Len(q2), NEW i \in 1..Len(e[q2[j].client])
        PROVE  e[q2[j].client][i] # q2[j].line
    BY <1>t, <1>3 DEF Apart
  <2>5. ASSUME NEW v \in Busy(h2), NEW i \in 1..Len(e[h2[v].client])
        PROVE  e[h2[v].client][i] # h2[v].line
    <3>1. CASE v = w
      BY <1>t, <1>2, <3>1 DEF Apart
    <3>2. CASE v \in Busy(h)
      BY <1>t, <1>2, <3>2 DEF Apart
    <3>3. QED
      BY <1>2, <3>1, <3>2
  <2>6. QED
    BY <1>t, <2>1, <2>2, <2>3, <2>4, <2>5 DEF Apart
<1>6. \A t \in Tasks : Somewhere(t, a, q2, h2, e) <=> Somewhere(t, a, q, h, e)
  <2> SUFFICES ASSUME NEW t \in Tasks
               PROVE  Somewhere(t, a, q2, h2, e) <=> Somewhere(t, a, q, h, e)
    OBVIOUS
  <2>1. ASSUME Somewhere(t, a, q2, h2, e) PROVE Somewhere(t, a, q, h, e)
    <3>1. ASSUME NEW j \in 1..Len(q2), q2[j] = t PROVE Somewhere(t, a, q, h, e)
      BY <1>3, <3>1 DEF Somewhere
    <3>2. ASSUME NEW v \in Busy(h2), h2[v] = t PROVE Somewhere(t, a, q, h, e)
      BY <1>2, <3>2 DEF Somewhere
    <3>3. QED
      BY <2>1, <3>1, <3>2 DEF Somewhere
  <2>2. ASSUME NEW j \in 1..Len(q), q[j] = t PROVE Somewhere(t, a, q2, h2, e)
    <3>1. CASE j = k
      BY <1>2, <2>2, <3>1 DEF Somewhere
    <3>2. CASE j < k
      BY <1>1, <2>2, <3>2 DEF Somewhere
    <3>3. CASE j > k
      BY <1>1, <2>2, <3>3 DEF Somewhere
    <3>4. QED
      BY <3>1, <3>2, <3>3
  <2>3. ASSUME NEW v \in Busy(h), h[v] = t PROVE Somewhere(t, a, q2, h2, e)
    BY <1>2, <2>3 DEF Somewhere
  <2>4. QED
    BY <2>1, <2>2, <2>3 DEF Somewhere
<1>7. TasksTyped(a, q2, h2, e, r, g)
  BY <1>t, <1>0, <1>2 DEF TasksTyped
<1>8. QED
  BY <1>4, <1>5, <1>6, <1>7 DEF Accounted

\* A worker has written its task's line, or it drops the task, whose client is gone.
LEMMA TaskDone ==
  ASSUME NEW a, NEW q, NEW h, NEW e, NEW r, NEW g, Accounted(a, q, h, e, r, g),
         NEW w \in Busy(h), NEW z, z.client \notin Clients, NEW h2, h2 = [h EXCEPT ![w] = z],
         NEW e2, \/ e2 = [e EXCEPT ![h[w].client] = Append(@, h[w].line)]
                 \/ e2 = e /\ h[w].client \in g
  PROVE  Accounted(a, q, h2, e2, r, g)
<1>t. TasksTyped(a, q, h, e, r, g) /\ OnceEach(a, q, h, e) /\ Apart(a, q, h, e)
  BY DEF Accounted
<1>0. h[w] \in Tasks /\ h[w].client \in Clients /\ h[w].line \in 1..Lines
  <2>1. h[w] \in Tasks
    BY <1>t DEF TasksTyped
  <2>2. QED
    BY <2>1 DEF Tasks
<1> DEFINE d == h[w].client
<1>1. /\ Busy(h2) = Busy(h) \ {w} /\ DOMAIN h2 = Workers
      /\ \A v \in Busy(h2) : v \in Busy(h) /\ v # w /\ h2[v] = h[v] /\ h[v] # h[w]
      /\ \A v \in Busy(h) : v # w => v \in Busy(h2)
  BY <1>t DEF TasksTyped, Busy, OnceEach
<1>2. e2 \in [Clients -> Seq(1..Lines)]
  <2>1. e[d] \in Seq(1..Lines) /\ Append(e[d], h[w].line) \in Seq(1..Lines)
    BY <1>t, <1>0, AppendProperties DEF TasksTyped
  <2>2. QED
    BY <1>t, <2>1 DEF TasksTyped
<1>3. ASSUME NEW c \in Clients
      PROVE  /\ \A k \in 1..Len(e[c]) : k \in 1..Len(e2[c]) /\ e2[c][k] = e[c][k]
             /\ \A k \in 1..Len(e2[c]) :
                  \/ k \in 1..Len(e[c]) /\ e2[c][k] = e[c][k]
                  \/ k \notin 1..Len(e[c]) /\ k = Len(e2[c]) /\ c = d /\ e2[c][k] = h[w].line
  <2>1. Len(e[c]) \in Nat /\ e[c] \in Seq(1..Lines)
    BY <1>t DEF TasksTyped
  <2>2. CASE e2[c] = e[c]
    BY <2>1, <2>2
  <2>3. CASE c = d /\ e2[c] = Append(e[c], h[w].line)
    BY <2>1, <2>3, <1>0
  <2>4. QED
    BY <1>t, <2>2, <2>3 DEF TasksTyped
<1>4. h[w].client \notin g => \E k \in 1..Len(e2[d]) : e2[d][k] = h[w].line
  <2>1. SUFFICES ASSUME e2 = [e EXCEPT ![d] = Append(@, h[w].line)]
                 PROVE  \E k \in 1..Len(e2[d]) : e2[d][k] = h[w].line
    OBVIOUS
  <2>2. e[d] \in Seq(1..Lines) /\ Len(e[d]) \in Nat /\ e2[d] = Append(e[d], h[w].line)
    BY <1>t, <1>0, <2>1 DEF TasksTyped
  <2>3. Len(e2[d]) = Len(e[d]) + 1 /\ e2[d][Len(e[d]) + 1] = h[w].line
    BY <2>2
  <2>4. QED
    BY <2>2, <2>3
<1> HIDE DEF d
<1>5. OnceEach(a, q, h2, e2)
  <2>1. ASSUME NEW c \in Clients, NEW i \in 1..Len(e2[c]), NEW j \in 1..Len(e2[c]),
               e2[c][i] = e2[c][j]
        PROVE  i = j
    <3>1. \A k \in 1..Len(e[d]) : e[d][k] # h[w].line
      BY <1>t DEF Apart, d
    <3>2. QED
      BY <1>t, <1>3, <2>1, <3>1 DEF OnceEach
  <2>2. \A u, v \in Busy(h2) : h2[u] = h2[v] => u = v
    BY <1>t, <1>1 DEF OnceEach
  <2>3. QED
    BY <1>t, <2>1, <2>2 DEF OnceEach
<1>6. ASSUME NEW t \in Tasks, t # h[w], \A k \in 1..Len(e[t.client]) : e[t.client][k] # t.line
      PROVE  \A k \in 1..Len(e2[t.client]) : e2[t.client][k] # t.line
  <2>1. t.client \in Clients /\ ~(t.client = h[w].client /\ t.line = h[w].line)
    BY <1>0, <1>6 DEF Tasks
  <2>2. QED
    BY <1>3, <1>6, <2>1 DEF d
<1>7. Apart(a, q, h2, e2)
  <2>1. ASSUME NEW i \in 1..Len(a)
        PROVE  \A k \in 1..Len(e2[a[i].client]) : e2[a[i].client][k] # a[i].line
    <3>1. a[i] \in Tasks /\ a[i] # h[w]
      BY <1>t DEF TasksTyped, Apart
    <3>2. QED
      BY <1>t, <1>6, <3>1 DEF Apart
  <2>2. ASSUME NEW j \in 1..Len(q)
        PROVE  \A k \in 1..Len(e2[q[j].client]) : e2[q[j].client][k] # q[j].line
    <3>1. q[j] \in Tasks /\ q[j] # h[w]
      BY <1>t DEF TasksTyped, Apart
    <3>2. QED
      BY <1>t, <1>6, <3>1 DEF Apart
  <2>3. ASSUME NEW v \in Busy(h2)
        PROVE  \A k \in 1..Len(e2[h2[v].client]) : e2[h2[v].client][k] # h2[v].line
    <3>1. h[v] \in Tasks /\ h[v] # h[w] /\ h2[v] = h[v] /\ v \in Busy(h)
      BY <1>t, <1>1 DEF TasksTyped
    <3>2. \A i \in 1..Len(e[h[v].client]) : e[h[v].client][i] # h[v].line
      BY <1>t, <3>1 DEF Apart
    <3>3. \A i \in 1..Len(e2[h[v].client]) : e2[h[v].client][i] # h[v].line
      BY <1>6, <3>1, <3>2
    <3>4. QED
      BY <3>1, <3>3
  <2>4. ASSUME NEW v \in Busy(h2)
        PROVE  /\ \A i \in 1..Len(a) : a[i] # h2[v]
               /\ \A j \in 1..Len(q) : q[j] # h2[v]
    <3>1. v \in Busy(h) /\ h2[v] = h[v]
      BY <1>1
    <3>2. QED
      BY <1>t, <3>1 DEF Apart
  <2>5. \A i \in 1..Len(a), j \in 1..Len(q) : a[i] # q[j]
    BY <1>t DEF Apart
  <2>6. QED
    BY <2>1, <2>2, <2>3, <2>4, <2>5 DEF Apart
<1>8. ASSUME NEW t \in Tasks PROVE Somewhere(t, a, q, h2, e2) => Somewhere(t, a, q, h, e)
  <2>1. t.client \in Clients
    BY DEF Tasks
  <2>2. ASSUME NEW k \in 1..Len(e2[t.client]), e2[t.client][k] = t.line
        PROVE  Somewhere(t, a, q, h, e)
    <3>1. CASE k \in 1..Len(e[t.client]) /\ e2[t.client][k] = e[t.client][k]
      BY <2>2, <3>1 DEF Somewhere
    <3>2. CASE t.client = d /\ t.line = h[w].line
      <4>1. t = h[w]
        BY <1>0, <3>2 DEF Tasks, d
      <4>2. QED
        BY <4>1 DEF Somewhere
    <3>3. QED
      BY <1>3, <2>1, <2>2, <3>1, <3>2
  <2>3. QED
    BY <1>1, <2>2 DEF Somewhere
<1>9. ASSUME NEW t \in Tasks, Somewhere(t, a, q, h, e), t.client \notin g
      PROVE  Somewhere(t, a, q, h2, e2)
  <2>1. t.client \in Clients
    BY DEF Tasks
  <2>2. ASSUME NEW v \in Busy(h), h[v] = t PROVE Somewhere(t, a, q, h2, e2)
    <3>1. CASE v = w
      BY <1>4, <1>9, <2>2, <3>1 DEF Somewhere, d
    <3>2. CASE v # w
      BY <1>1, <2>2, <3>2 DEF Somewhere
    <3>3. QED
      BY <3>1, <3>2
  <2>3. ASSUME NEW k \in 1..Len(e[t.client]), e[t.client][k] = t.line
        PROVE  Somewhere(t, a, q, h2, e2)
    BY <1>3, <2>1, <2>3 DEF Somewhere
  <2>4. QED
    BY <1>9, <2>2, <2>3 DEF Somewhere
<1>10. TasksTyped(a, q, h2, e2, r, g)
  BY <1>t, <1>1, <1>2 DEF TasksTyped
<1>11. QED
  BY <1>5, <1>7, <1>8, <1>9, <1>10 DEF Accounted

\* The tasks for the lines of client c after the mth and up to the nth.
NewTasks(c, m, n) == [i \in 1..(n - m) |-> [client |-> c, line |-> m + i]]

\* The reactor, which has no task, has read up to line n of client c.
LEMMA TasksRead ==
  ASSUME NEW a, NEW q, NEW h, NEW e, NEW r, NEW g, Accounted(a, q, h, e, r, g), a = <<>>,
         NEW c \in Clients, NEW n \in (r[c] + 1)..Lines, NEW r2, r2 = [r EXCEPT ![c] = n],
         NEW a2, a2 = NewTasks(c, r[c], n)
  PROVE  Accounted(a2, q, h, e, r2, g)
<1>t. TasksTyped(a, q, h, e, r, g) /\ OnceEach(a, q, h, e) /\ Apart(a, q, h, e)
  BY DEF Accounted
<1>b. \A t \in Tasks : Somewhere(t, a, q, h, e) => t.line <= r[t.client]
  BY DEF Accounted
<1>0. Lines \in Nat /\ r[c] \in 0..Lines /\ n \in 1..Lines /\ n > r[c]
  <2>1. Lines \in Nat /\ r[c] \in 0..Lines
    BY <1>t, ServersAssumption DEF TasksTyped
  <2>2. QED
    BY <2>1
<1>1. /\ r2 \in [Clients -> 0..Lines] /\ r2[c] = n
      /\ \A d \in Clients : d # c => r2[d] = r[d]
  BY <1>t, <1>0 DEF TasksTyped
<1>2. ASSUME NEW i \in 1..(n - r[c])
      PROVE  a2[i] \in Tasks /\ a2[i].client = c /\ a2[i].line = r[c] + i
  BY <1>0 DEF Tasks, NewTasks
<1>3. a2 \in Seq(Tasks) /\ Len(a2) = n - r[c]
  <2>1. n - r[c] \in Nat
    BY <1>0
  <2>2. a2 \in [1..(n - r[c]) -> Tasks]
    BY <1>2 DEF NewTasks
  <2>3. QED
    BY <2>1, <2>2, FunctionIsSequence
<1>4. \A t \in Tasks : t.client \in Clients /\ t.line \in 1..Lines
  BY DEF Tasks
<1>5. ASSUME NEW t \in Tasks, Somewhere(t, a, q, h, e) PROVE \A i \in 1..Len(a2) : a2[i] # t
  <2>1. t.line <= r[t.client] /\ t.line \in 1..Lines
    BY <1>b, <1>4, <1>5
  <2>2. ASSUME NEW i \in 1..Len(a2), a2[i] = t PROVE FALSE
    <3>1. t.client = c /\ t.line = r[c] + i
      BY <1>2, <1>3, <2>2
    <3>2. QED
      BY <1>0, <1>3, <2>1, <3>1
  <2>3. QED
    BY <2>2
<1>6. OnceEach(a2, q, h, e)
  <2>1. ASSUME NEW i \in 1..Len(a2), NEW j \in 1..Len(a2), a2[i] = a2[j] PROVE i = j
    <3>1. r[c] + i = r[c] + j
      BY <1>2, <1>3, <2>1
    <3>2. QED
      BY <1>0, <1>3, <3>1
  <2>2. QED
    BY <1>t, <2>1 DEF OnceEach
<1>7. Apart(a2, q, h, e)
  <2>1. ASSUME NEW j \in 1..Len(q) PROVE \A i \in 1..Len(a2) : a2[i] # q[j]
    <3>1. q[j] \in Tasks
      BY <1>t, ElementOfSeq DEF TasksTyped
    <3>2. QED
      BY <1>5, <3>1 DEF Somewhere
  <2>2. ASSUME NEW w \in Busy(h) PROVE \A i \in 1..Len(a2) : a2[i] # h[w]
    <3>1. h[w] \in Tasks
      BY <1>t DEF TasksTyped
    <3>2. QED
      BY <1>5, <3>1 DEF Somewhere
  <2>3. ASSUME NEW i \in 1..Len(a2)
        PROVE  \A k \in 1..Len(e[a2[i].client]) : e[a2[i].client][k] # a2[i].line
    <3>1. a2[i] \in Tasks /\ ~Somewhere(a2[i], a, q, h, e)
      BY <1>2, <1>3, <1>5
    <3>2. QED
      BY <3>1 DEF Somewhere
  <2>4. QED
    BY <1>t, <2>1, <2>2, <2>3 DEF Apart
<1>8. ASSUME NEW t \in Tasks
      PROVE  Somewhere(t, a2, q, h, e)
               <=> Somewhere(t, a, q, h, e) \/ \E i \in 1..Len(a2) : a2[i] = t
  BY DEF Somewhere
<1>9. ASSUME NEW t \in Tasks, Somewhere(t, a2, q, h, e) PROVE t.line <= r2[t.client]
  <2>1. CASE Somewhere(t, a, q, h, e)
    <3>1. t.line <= r[t.client] /\ t.line \in 1..Lines /\ r[t.client] <= r2[t.client]
          /\ r[t.client] \in 0..Lines /\ r2[t.client] \in 0..Lines
      BY <1>b, <1>t, <1>0, <1>1, <1>4, <2>1 DEF TasksTyped
    <3>2. QED
      BY <1>0, <3>1
  <2>2. ASSUME NEW i \in 1..Len(a2), a2[i] = t PROVE t.line <= r2[t.client]
    <3>1. t.client = c /\ t.line = r[c] + i
      BY <1>2, <1>3, <2>2
    <3>2. QED
      BY <1>0, <1>1, <1>3, <3>1
  <2>3. QED
    BY <1>8, <1>9, <2>1, <2>2
<1>10. ASSUME NEW t \in Tasks, t.line <= r2[t.client]
       PROVE  Somewhere(t, a2, q, h, e) \/ t.client \in g
  <2>1. CASE t.line <= r[t.client]
    BY <1>8, <2>1 DEF Accounted
  <2>2. CASE ~(t.line <= r[t.client])
    <3>1. t.client = c
      BY <1>1, <1>4, <1>10, <2>2
    <3>2. t.line \in (r[c] + 1)..n /\ t.line - r[c] \in 1..Len(a2) /\ t.line = r[c] + (t.line - r[c])
      BY <1>0, <1>1, <1>3, <1>4, <1>10, <2>2, <3>1
    <3>3. a2[t.line - r[c]].client = c /\ a2[t.line - r[c]].line = t.line
          /\ a2[t.line - r[c]] \in Tasks
      BY <1>2, <1>3, <3>2
    <3>4. a2[t.line - r[c]] = t
      BY <3>1, <3>3 DEF Tasks
    <3>5. QED
      BY <1>8, <3>2, <3>4
  <2>3. QED
    BY <2>1, <2>2
<1>11. TasksTyped(a2, q, h, e, r2, g)
  BY <1>t, <1>1, <1>3 DEF TasksTyped
<1>12. QED
  BY <1>6, <1>7, <1>9, <1>10, <1>11 DEF Accounted

\* A client hangs up,
LEMMA StillAccounted ==
  ASSUME NEW a, NEW q, NEW h, NEW e, NEW r, NEW g, Accounted(a, q, h, e, r, g),
         NEW g2 \in SUBSET Clients, g \subseteq g2
  PROVE  Accounted(a, q, h, e, r, g2)
BY DEF Accounted, TasksTyped

\* or a worker with nothing to do goes on to something else.
LEMMA IdleAccounted ==
  ASSUME NEW a, NEW q, NEW h, NEW e, NEW r, NEW g, Accounted(a, q, h, e, r, g),
         NEW w \in Workers \ Busy(h), NEW z, z.client \notin Clients,
         NEW h2, h2 = [h EXCEPT ![w] = z]
  PROVE  Accounted(a, q, h2, e, r, g)
<1>1. DOMAIN h2 = Workers /\ Busy(h2) = Busy(h) /\ \A v \in Busy(h) : h2[v] = h[v]
  <2>1. DOMAIN h = Workers
    BY DEF Accounted, TasksTyped
  <2>2. DOMAIN h2 = Workers /\ h2[w] = z /\ \A v \in Workers : v # w => h2[v] = h[v]
    BY <2>1
  <2>3. w \notin Busy(h) /\ w \notin Busy(h2)
    BY <2>2 DEF Busy
  <2>4. QED
    BY <2>2, <2>3 DEF Busy
<1>2. TasksTyped(a, q, h2, e, r, g)
  BY <1>1 DEF Accounted, TasksTyped
<1>3. OnceEach(a, q, h2, e)
  BY <1>1 DEF Accounted, OnceEach
<1>4. Apart(a, q, h2, e)
  <2>1. Apart(a, q, h, e)
    BY DEF Accounted
  <2>2. ASSUME NEW v \in Busy(h2)
        PROVE  /\ \A i \in 1..Len(a) : a[i] # h2[v]
               /\ \A j \in 1..Len(q) : q[j] # h2[v]
               /\ \A k \in 1..Len(e[h2[v].client]) : e[h2[v].client][k] # h2[v].line
    <3>1. v \in Busy(h) /\ h2[v] = h[v]
      BY <1>1
    <3>2. QED
      BY <2>1, <3>1 DEF Apart
  <2>3. QED
    BY <2>1, <2>2 DEF Apart
<1>5. ASSUME NEW t \in Tasks PROVE Somewhere(t, a, q, h2, e) <=> Somewhere(t, a, q, h, e)
  BY <1>1 DEF Somewhere
<1>6. QED
  BY <1>2, <1>3, <1>4, <1>5 DEF Accounted

-----------------------------------------------------------------------------
(* The clients.                                                            *)

\* Nothing is read from a connection that has not been accepted.
NotYetRead == \A c \in Clients : conn[c] \in {"none", "pending"} => taken[c] = 0

\* Only the connection of a client that has gone is closed.
ClosedAtEnd == \A c \in Clients : conn[c] = "closed" => c \in hungUp

LEMMA ClientSteps ==
  ASSUME NetTypeOK, NEW c \in Clients, ClientStep(c)
  PROVE  /\ NetTypeOK' /\ hungUp \subseteq hungUp' /\ taken' = taken
         /\ \A d \in Clients : conn'[d] = conn[d] \/ (conn[d] = "none" /\ conn'[d] = "pending")
         /\ NotYetRead => NotYetRead'
         /\ ClosedAtEnd => ClosedAtEnd'
<1>0. Lines \in Nat
  BY ServersAssumption
<1>1. CASE Connect(c)
  BY <1>1 DEF Connect, NetTypeOK, NotYetRead, ClosedAtEnd
<1>2. CASE Send(c)
  BY <1>0, <1>2 DEF Send, NetTypeOK, NotYetRead, ClosedAtEnd
<1>3. CASE HangUp(c)
  BY <1>3 DEF HangUp, NetTypeOK, NotYetRead, ClosedAtEnd
<1>4. QED
  BY <1>1, <1>2, <1>3 DEF ClientStep

-----------------------------------------------------------------------------
(* HalfSyncHalfAsync.java.                                                 *)

HalfSyncTyped == HalfSync!TypeOK /\ NetTypeOK /\ NotYetRead /\ ClosedAtEnd

HalfSyncInv == HalfSyncTyped /\ Accounted(stage, tasks, inHand, echoed, taken, hungUp)

\* Whoever has a task has been heard, and its connection is open until it goes.
LEMMA HalfSyncHeard ==
  ASSUME HalfSyncInv, NEW w \in Busy(inHand), conn[inHand[w].client] # "open"
  PROVE  inHand[w].client \in hungUp
<1>1. inHand[w] \in Tasks
  BY DEF HalfSyncInv, Accounted, TasksTyped
<1>2. inHand[w].client \in Clients /\ inHand[w].line \in 1..Lines
  BY <1>1 DEF Tasks
<1>3. inHand[w].line <= taken[inHand[w].client]
  BY <1>1 DEF HalfSyncInv, Accounted, Somewhere
<1>4. conn[inHand[w].client] = "closed"
  BY <1>2, <1>3 DEF HalfSyncInv, HalfSyncTyped, NotYetRead, NetTypeOK
<1>5. QED
  BY <1>2, <1>4 DEF HalfSyncInv, HalfSyncTyped, ClosedAtEnd

LEMMA HalfSyncAccounts ==
  ASSUME HalfSyncInv, HalfSync!Next
  PROVE  Accounted(stage', tasks', inHand', echoed', taken', hungUp')
<1> DEFINE Goal == Accounted(stage', tasks', inHand', echoed', taken', hungUp')
<1>t. /\ Accounted(stage, tasks, inHand, echoed, taken, hungUp)
      /\ HalfSync!TypeOK
  BY DEF HalfSyncInv, HalfSyncTyped
<1>s. TasksTyped(stage, tasks, inHand, echoed, taken, hungUp)
  BY <1>t DEF Accounted
<1>1. ASSUME NEW c \in Clients, HalfSync!ClientStep(c), UNCHANGED HalfSync!serverVars
      PROVE  Goal
  <2>1. ClientStep(c) /\ NetTypeOK
    BY <1>1 DEF HalfSync!ClientStep, HalfSync!Connect, HalfSync!Send, HalfSync!HangUp,
      ClientStep, Connect, Send, HangUp, HalfSyncInv, HalfSyncTyped
  <2>2. hungUp \subseteq hungUp' /\ hungUp' \in SUBSET Clients /\ taken' = taken
    BY <2>1, ClientSteps DEF NetTypeOK
  <2>3. Accounted(stage, tasks, inHand, echoed, taken, hungUp')
    BY <1>t, <2>2, StillAccounted
  <2>4. QED
    BY <1>1, <2>2, <2>3 DEF HalfSync!serverVars
<1>2. ASSUME UNCHANGED <<taken, hungUp, stage, tasks, inHand, echoed>> PROVE Goal
  BY <1>t, <1>2
<1>3. ASSUME NEW c \in Clients, HalfSync!Read(c) PROVE Goal
  <2>1. ASSUME NEW n \in HalfSync!Unread(c), stage' = HalfSync!Split(c, n),
               taken' = [taken EXCEPT ![c] = n]
        PROVE  Goal
    <3>1. n \in (taken[c] + 1)..Lines
      BY ServersAssumption DEF HalfSync!Unread, HalfSyncInv, HalfSyncTyped, NetTypeOK
    <3>2. stage = <<>> /\ UNCHANGED <<hungUp, tasks, inHand, echoed>>
      BY <1>3 DEF HalfSync!Read, HalfSync!Selecting
    <3>3. stage' = NewTasks(c, taken[c], n)
      BY <2>1 DEF HalfSync!Split, HalfSync!Task, NewTasks
    <3>4. Accounted(stage', tasks, inHand, echoed, taken', hungUp)
      BY <1>t, <2>1, <3>1, <3>2, <3>3, TasksRead
    <3>5. QED
      BY <3>2, <3>4
  <2>2. QED
    BY <1>2, <1>3, <2>1 DEF HalfSync!Read
<1>4. CASE HalfSync!AddTask
  <2>1. stage # <<>> /\ stage' = Tail(stage) /\ tasks' = Append(tasks, Head(stage))
        /\ UNCHANGED <<inHand, echoed, taken, hungUp>>
    BY <1>4 DEF HalfSync!AddTask, HalfSync!netVars
  <2>2. Accounted(stage', tasks', inHand, echoed, taken, hungUp)
    BY <1>t, <2>1, TaskQueued
  <2>3. QED
    BY <2>1, <2>2
<1>5. ASSUME NEW w \in Workers, HalfSync!Pop(w) PROVE Goal
  <2>1. /\ w \in Workers \ Busy(inHand)
        /\ tasks # <<>> /\ tasks' = SubSeq(tasks, 1, Len(tasks) - 1)
        /\ inHand' = [inHand EXCEPT ![w] = tasks[Len(tasks)]]
        /\ UNCHANGED <<taken, hungUp, stage, echoed>>
    BY <1>5, ServersAssumption
      DEF HalfSync!Pop, HalfSync!netVars, HalfSync!NoTask, HalfSync!Rest, Busy
  <2>2. /\ tasks' \in Seq(Tasks) /\ Len(tasks') = Len(tasks) - 1
        /\ \A j \in 1..Len(tasks') : j < Len(tasks) /\ tasks'[j] = tasks[j]
        /\ Len(tasks) \in 1..Len(tasks)
    <3>1. tasks \in Seq(Tasks)
      BY <1>s DEF TasksTyped
    <3>2. QED
      BY <2>1, <3>1, PoppedSeq DEF Popped
  <2>3. Without(tasks, Len(tasks), tasks')
    BY <2>2 DEF Without
  <2>4. Accounted(stage, tasks', inHand', echoed, taken, hungUp)
    BY <1>t, <2>1, <2>2, <2>3, TaskTaken
  <2>5. QED
    BY <2>1, <2>4
<1>6. ASSUME NEW w \in Workers, HalfSync!Execute(w) \/ HalfSync!WriteFails(w) PROVE Goal
  <2>1. inHand[w] # HalfSync!NoTask /\ inHand \in [Workers -> HalfSync!Tasks \cup {HalfSync!NoTask}]
    BY <1>6, <1>t DEF HalfSync!Execute, HalfSync!WriteFails, HalfSync!TypeOK
  <2>2. w \in Busy(inHand)
    BY <2>1 DEF HalfSync!Tasks, Busy
  <2>3. /\ inHand' = [inHand EXCEPT ![w] = HalfSync!NoTask]
        /\ UNCHANGED <<taken, hungUp, stage, tasks>>
    BY <1>6 DEF HalfSync!Execute, HalfSync!WriteFails, HalfSync!netVars
  <2>4. HalfSync!NoTask.client \notin Clients
    BY ServersAssumption DEF HalfSync!NoTask
  <2>5. \/ echoed' = [echoed EXCEPT ![inHand[w].client] = Append(@, inHand[w].line)]
        \/ echoed' = echoed /\ inHand[w].client \in hungUp
    BY <1>6, <2>2, HalfSyncHeard DEF HalfSync!Execute, HalfSync!WriteFails, HalfSync!Recipient
  <2>6. Accounted(stage, tasks, inHand', echoed', taken, hungUp)
    BY <1>t, <2>2, <2>3, <2>4, <2>5, TaskDone
  <2>7. QED
    BY <2>3, <2>6
<1>7. QED
  BY <1>1, <1>2, <1>3, <1>4, <1>5, <1>6 DEF HalfSync!Next, HalfSync!ServerStep, HalfSync!Failure,
    HalfSync!WorkerStep, HalfSync!Accept, HalfSync!AcceptFails, HalfSync!ReadFails, HalfSync!Leave,
    HalfSync!netVars, HalfSync!serverVars

LEMMA HalfSyncTypes ==
  ASSUME HalfSyncInv, HalfSync!Next,
         TasksTyped(stage', tasks', inHand', echoed', taken', hungUp')
  PROVE  HalfSyncTyped'
<1> USE DEF HalfSyncInv, HalfSyncTyped
<1>0. Lines \in Nat /\ Tasks = HalfSync!Tasks
  BY ServersAssumption DEF Tasks, HalfSync!Tasks
<1>1. NetTypeOK' /\ NotYetRead' /\ ClosedAtEnd'
  <2>1. ASSUME NEW c \in Clients, HalfSync!ClientStep(c)
        PROVE  NetTypeOK' /\ NotYetRead' /\ ClosedAtEnd'
    <3>1. ClientStep(c)
      BY <2>1 DEF HalfSync!ClientStep, HalfSync!Connect, HalfSync!Send, HalfSync!HangUp,
        ClientStep, Connect, Send, HangUp
    <3>2. QED
      BY <3>1, ClientSteps
  <2> USE DEF NetTypeOK, NotYetRead, ClosedAtEnd
  <2>2. ASSUME UNCHANGED <<conn, sent, taken, hungUp>>
        PROVE  NetTypeOK' /\ NotYetRead' /\ ClosedAtEnd'
    BY <2>2
  <2>3. ASSUME NEW c \in Clients, HalfSync!Accept(c) \/ HalfSync!ReadFails(c)
        PROVE  NetTypeOK' /\ NotYetRead' /\ ClosedAtEnd'
    BY <2>3 DEF HalfSync!Accept, HalfSync!ReadFails
  <2>4. ASSUME NEW c \in Clients, HalfSync!Read(c)
        PROVE  NetTypeOK' /\ NotYetRead' /\ ClosedAtEnd'
    <3>1. CASE \E n \in HalfSync!Unread(c) : taken' = [taken EXCEPT ![c] = n] /\ UNCHANGED conn
      <4>1. PICK n \in HalfSync!Unread(c) : taken' = [taken EXCEPT ![c] = n]
        BY <3>1
      <4>2. n \in 0..sent[c] /\ UNCHANGED <<conn, sent, hungUp>> /\ conn[c] = "open"
        BY <1>0, <2>4, <3>1 DEF HalfSync!Unread, HalfSync!Read, HalfSync!Readable
      <4>3. taken \in [Clients -> 0..Lines]
        BY DEF Accounted, TasksTyped
      <4>4. QED
        BY <4>1, <4>2, <4>3
    <3>2. CASE UNCHANGED taken /\ conn' = [conn EXCEPT ![c] = "closed"]
      BY <2>4, <3>2 DEF HalfSync!Read, HalfSync!Readable, HalfSync!AtEnd
    <3>3. QED
      BY <2>4, <3>1, <3>2 DEF HalfSync!Read
  <2>5. QED
    BY <2>1, <2>2, <2>3, <2>4 DEF HalfSync!Next, HalfSync!ServerStep, HalfSync!Failure,
      HalfSync!WorkerStep, HalfSync!AcceptFails, HalfSync!AddTask, HalfSync!Pop, HalfSync!Execute,
      HalfSync!WriteFails, HalfSync!Leave, HalfSync!netVars
<1>2. inHand' \in [Workers -> HalfSync!Tasks \cup {HalfSync!NoTask}]
  <2>1. inHand \in [Workers -> HalfSync!Tasks \cup {HalfSync!NoTask}]
    BY DEF HalfSync!TypeOK
  <2>2. ASSUME NEW w \in Workers, HalfSync!Pop(w)
        PROVE  inHand' \in [Workers -> HalfSync!Tasks \cup {HalfSync!NoTask}]
    <3>1. tasks \in Seq(HalfSync!Tasks) /\ tasks # <<>>
      BY <2>2 DEF HalfSync!Pop, HalfSync!TypeOK
    <3>2. tasks[Len(tasks)] \in HalfSync!Tasks
      BY <3>1
    <3>3. QED
      BY <2>1, <2>2, <3>2 DEF HalfSync!Pop
  <2>3. ASSUME NEW w \in Workers, HalfSync!Execute(w) \/ HalfSync!WriteFails(w)
        PROVE  inHand' \in [Workers -> HalfSync!Tasks \cup {HalfSync!NoTask}]
    BY <2>1, <2>3 DEF HalfSync!Execute, HalfSync!WriteFails
  <2>4. QED
    BY <2>1, <2>2, <2>3 DEF HalfSync!Next, HalfSync!ServerStep, HalfSync!Failure,
      HalfSync!WorkerStep, HalfSync!AcceptFails, HalfSync!AddTask, HalfSync!Accept, HalfSync!Read,
      HalfSync!ReadFails, HalfSync!Leave, HalfSync!serverVars
<1>3. dead' \subseteq Workers /\ running' \in BOOLEAN /\ poolRuns' \in BOOLEAN
  BY DEF HalfSync!TypeOK, HalfSync!Next, HalfSync!ServerStep, HalfSync!Failure,
    HalfSync!WorkerStep, HalfSync!AcceptFails, HalfSync!AddTask, HalfSync!Accept, HalfSync!Read,
    HalfSync!ReadFails, HalfSync!Pop, HalfSync!Execute, HalfSync!WriteFails, HalfSync!Leave,
    HalfSync!serverVars, HalfSync!Stopped
<1>4. QED
  BY <1>0, <1>1, <1>2, <1>3 DEF TasksTyped, HalfSync!TypeOK, HalfSync!NetTypeOK, NetTypeOK

LEMMA HalfSyncStarts == ASSUME HalfSync!Init PROVE HalfSyncInv
<1> USE ServersAssumption DEF HalfSync!Init, HalfSync!NetInit
<1>1. HalfSyncTyped
  BY DEF HalfSyncTyped, HalfSync!TypeOK, HalfSync!NetTypeOK, NetTypeOK, NotYetRead, ClosedAtEnd
<1>2. Busy(inHand) = {}
  BY DEF Busy, HalfSync!NoTask
<1>3. TasksTyped(stage, tasks, inHand, echoed, taken, hungUp)
  <2>1. Lines \in Nat /\ <<>> \in Seq(Tasks) /\ <<>> \in Seq(1..Lines)
    OBVIOUS
  <2>2. QED
    BY <1>2, <2>1 DEF TasksTyped
<1>4. \A t \in Tasks : t.client \in Clients /\ t.line \in 1..Lines
  BY DEF Tasks
<1>5. OnceEach(stage, tasks, inHand, echoed) /\ Apart(stage, tasks, inHand, echoed)
  BY <1>2 DEF OnceEach, Apart
<1>6. ASSUME NEW t \in Tasks
      PROVE  ~Somewhere(t, stage, tasks, inHand, echoed) /\ ~(t.line <= taken[t.client])
  BY <1>2, <1>4 DEF Somewhere
<1>7. QED
  BY <1>1, <1>3, <1>5, <1>6 DEF HalfSyncInv, Accounted

\* HalfSyncHalfAsync: what split() made of the lines read is with the reactor, on the stack,
\* with a worker or at the client that sent it, each task once and in one of these places.
THEOREM HalfSyncInvariance == Spec => [](program = "halfSync" => HalfSyncInv)
<1>1. Init => (program = "halfSync" => HalfSyncInv)
  BY HalfSyncStarts DEF Init
<1>2. (program = "halfSync" => HalfSyncInv) /\ [Next]_vars
      => (program = "halfSync" => HalfSyncInv)'
  <2> SUFFICES ASSUME HalfSyncInv, program = "halfSync", [Next]_vars PROVE HalfSyncInv'
    BY SameProgram
  <2>1. CASE HalfSync!Next
    BY <2>1, HalfSyncAccounts, HalfSyncTypes DEF HalfSyncInv, Accounted
  <2>2. CASE UNCHANGED HalfSync!vars
    BY <2>2 DEF HalfSync!vars, HalfSync!netVars, HalfSync!serverVars, HalfSyncInv, HalfSyncTyped,
      HalfSync!TypeOK, HalfSync!NetTypeOK, NetTypeOK, NotYetRead, ClosedAtEnd
  <2>3. QED
    BY <2>1, <2>2, HalfSyncSteps
<1>3. QED
  BY <1>1, <1>2, PTL DEF Spec

LEMMA HalfSyncPlaces == ASSUME HalfSyncInv PROVE HalfSync!LineInOnePlace
<1> SUFFICES ASSUME NEW c \in Clients, NEW l \in 1..taken[c]
             PROVE  \/ HalfSync!Cardinality(HalfSync!Places(c, l)) = 1
                    \/ HalfSync!Places(c, l) = {} /\ c \in hungUp
  BY DEF HalfSync!LineInOnePlace
<1> DEFINE t == HalfSync!Task(c, l)
           P == HalfSync!Places(c, l)
<1>t. /\ TasksTyped(stage, tasks, inHand, echoed, taken, hungUp)
      /\ OnceEach(stage, tasks, inHand, echoed) /\ Apart(stage, tasks, inHand, echoed)
  BY DEF HalfSyncInv, Accounted
<1>1. t \in Tasks /\ t.client = c /\ t.line = l /\ l <= taken[c]
  <2>1. l \in 1..Lines /\ l <= taken[c]
    BY <1>t, ServersAssumption DEF TasksTyped
  <2>2. QED
    BY <2>1 DEF Tasks, HalfSync!Task
<1>2. /\ \A p \in P : \/ \E i \in 1..Len(stage) : stage[i] = t /\ p = <<"toAdd", i>>
                      \/ \E j \in 1..Len(tasks) : tasks[j] = t /\ p = <<"tasks", j>>
                      \/ \E w \in Busy(inHand) : inHand[w] = t /\ p = <<"worker", w>>
                      \/ \E k \in 1..Len(echoed[c]) : echoed[c][k] = l /\ p = <<"echoed", k>>
      /\ Somewhere(t, stage, tasks, inHand, echoed) => P # {}
  <2>1. /\ DOMAIN stage = 1..Len(stage) /\ DOMAIN tasks = 1..Len(tasks)
        /\ DOMAIN echoed[c] = 1..Len(echoed[c])
    BY <1>t DEF TasksTyped
  <2>2. \A w \in Workers : inHand[w] = t => w \in Busy(inHand)
    BY <1>1 DEF Busy
  <2>3. \A w \in Busy(inHand) : w \in Workers
    BY DEF Busy
  <2>4. P = {<<"toAdd", i>> : i \in {j \in 1..Len(stage) : stage[j] = t}}
            \cup {<<"tasks", i>> : i \in {j \in 1..Len(tasks) : tasks[j] = t}}
            \cup {<<"worker", w>> : w \in {v \in Workers : inHand[v] = t}}
            \cup {<<"echoed", i>> : i \in {j \in 1..Len(echoed[c]) : echoed[c][j] = l}}
    BY <2>1 DEF HalfSync!Places
  <2> HIDE DEF t, P
  <2>5. \A p \in P : \/ \E i \in 1..Len(stage) : stage[i] = t /\ p = <<"toAdd", i>>
                     \/ \E j \in 1..Len(tasks) : tasks[j] = t /\ p = <<"tasks", j>>
                     \/ \E w \in Busy(inHand) : inHand[w] = t /\ p = <<"worker", w>>
                     \/ \E k \in 1..Len(echoed[c]) : echoed[c][k] = l /\ p = <<"echoed", k>>
    BY <2>2, <2>4
  <2>6. ASSUME Somewhere(t, stage, tasks, inHand, echoed) PROVE \E p : p \in P
    <3>1. ASSUME NEW i \in 1..Len(stage), stage[i] = t PROVE <<"toAdd", i>> \in P
      BY <2>4, <3>1
    <3>2. ASSUME NEW j \in 1..Len(tasks), tasks[j] = t PROVE <<"tasks", j>> \in P
      BY <2>4, <3>2
    <3>3. ASSUME NEW w \in Busy(inHand), inHand[w] = t PROVE <<"worker", w>> \in P
      BY <2>3, <2>4, <3>3
    <3>4. ASSUME NEW k \in 1..Len(echoed[c]), echoed[c][k] = l PROVE <<"echoed", k>> \in P
      BY <2>4, <3>4
    <3>5. QED
      BY <1>1, <2>6, <3>1, <3>2, <3>3, <3>4, Zenon DEF Somewhere
  <2>7. QED
    BY <2>5, <2>6
<1> HIDE DEF t, P
<1>3. ASSUME NEW p \in P, NEW q \in P PROVE p = q
  <2>1. ASSUME NEW i \in 1..Len(stage), stage[i] = t PROVE p = <<"toAdd", i>>
    BY <1>t, <1>1, <1>2, <2>1 DEF OnceEach, Apart
  <2>2. ASSUME NEW j \in 1..Len(tasks), tasks[j] = t PROVE p = <<"tasks", j>>
    BY <1>t, <1>1, <1>2, <2>2 DEF OnceEach, Apart
  <2>3. ASSUME NEW w \in Busy(inHand), inHand[w] = t PROVE p = <<"worker", w>>
    BY <1>t, <1>1, <1>2, <2>3 DEF OnceEach, Apart
  <2>4. ASSUME NEW k \in 1..Len(echoed[c]), echoed[c][k] = l PROVE p = <<"echoed", k>>
    <3>1. /\ \A i \in 1..Len(stage) : stage[i] # t
          /\ \A j \in 1..Len(tasks) : tasks[j] # t
          /\ \A w \in Busy(inHand) : inHand[w] # t
      BY <1>t, <1>1, <2>4 DEF Apart
    <3>2. \A j \in 1..Len(echoed[c]) : echoed[c][j] = l => j = k
      BY <1>t, <2>4 DEF OnceEach
    <3>3. QED
      BY <1>2, <3>1, <3>2
  <2>5. QED
    BY <1>2, <2>1, <2>2, <2>3, <2>4
<1>4. P # {} => Cardinality(P) = 1
  <2>1. SUFFICES ASSUME NEW p \in P PROVE Cardinality(P) = 1
    OBVIOUS
  <2>2. P = {p}
    BY <1>3
  <2>3. QED
    BY <2>2, FS_Singleton
<1>5. P = {} => c \in hungUp
  BY <1>1, <1>2 DEF HalfSyncInv, Accounted
<1>6. QED
  BY <1>4, <1>5 DEF P, HalfSync!Cardinality, Cardinality

-----------------------------------------------------------------------------
(* JavaPA4.java.                                                           *)

\* The tasks of the lines that the reactor has still to put.
ToPut(s) == [i \in 1..Len(s.lines) |-> [client |-> s.client, line |-> s.lines[i]]]

BoundedTyped ==
  /\ NetTypeOK
  /\ stage = Bounded!Nothing \/ stage \in [client : Clients, lines : Seq(1..Lines) \ {<<>>}]
  /\ outQueue = [c \in Clients |-> taken[c] + 1]
  /\ Len(queue) <= Capacity
  /\ inHand \in [Workers -> Tasks \cup {Bounded!Idle, Bounded!InGet}]

BoundedInv == BoundedTyped /\ Accounted(ToPut(stage), queue, inHand, echoed, taken, hungUp)

LEMMA BoundedBusy ==
  ASSUME BoundedTyped
  PROVE  /\ Bounded!Idle.client \notin Clients /\ Bounded!InGet.client \notin Clients
         /\ Busy(inHand) = {w \in Workers : Bounded!Writing(w)}
BY ServersAssumption DEF BoundedTyped, Busy, Tasks, Bounded!Writing, Bounded!Idle, Bounded!InGet,
  Bounded!Job

LEMMA NothingToPut == ToPut(Bounded!Nothing) = <<>>
BY DEF ToPut, Bounded!Nothing

\* The lines that the reactor has joined are those that have been sent.
LEMMA BoundedReads ==
  ASSUME BoundedInv, NEW c \in Clients, Bounded!Read(c)
  PROVE  \E n \in (taken[c] + 1)..sent[c] :
           /\ stage' = [client |-> c, lines |-> [i \in 1..(n - taken[c]) |-> taken[c] + i]]
           /\ taken' = [taken EXCEPT ![c] = n]
           /\ outQueue' = [outQueue EXCEPT ![c] = n + 1]
<1>1. PICK n \in Bounded!Unread(c) :
        /\ stage' = [client |-> c,
                     lines |-> [i \in 1..(n - taken[c]) |->
                       Bounded!Joined(IF i = 1 THEN outQueue[c] ELSE Bounded!KeptFor(taken[c] + i - 1),
                                      taken[c] + i)]]
        /\ taken' = [taken EXCEPT ![c] = n]
        /\ outQueue' = [outQueue EXCEPT ![c] = n + 1]
  BY DEF Bounded!Read, Bounded!KeptFor
<1>2. taken[c] \in Nat /\ outQueue[c] = taken[c] + 1
  BY DEF BoundedInv, BoundedTyped, Accounted, TasksTyped
<1>3. ASSUME NEW i \in 1..(n - taken[c])
      PROVE  Bounded!Joined(IF i = 1 THEN outQueue[c] ELSE Bounded!KeptFor(taken[c] + i - 1),
                            taken[c] + i) = taken[c] + i
  <2>1. i \in Nat /\ taken[c] + i - 1 + 1 = taken[c] + i
    BY <1>2
  <2>2. QED
    BY <1>2, <2>1 DEF Bounded!Joined, Bounded!KeptFor
<1>4. QED
  BY <1>1, <1>3 DEF Bounded!Unread

LEMMA BoundedAccounts ==
  ASSUME BoundedInv, Bounded!Next
  PROVE  Accounted(ToPut(stage'), queue', inHand', echoed', taken', hungUp')
<1> DEFINE Goal == Accounted(ToPut(stage'), queue', inHand', echoed', taken', hungUp')
<1>t. BoundedTyped /\ Accounted(ToPut(stage), queue, inHand, echoed, taken, hungUp)
  BY DEF BoundedInv
<1>s. TasksTyped(ToPut(stage), queue, inHand, echoed, taken, hungUp)
  BY <1>t DEF Accounted
<1>1. ASSUME NEW c \in Clients, Bounded!ClientStep(c), UNCHANGED Bounded!serverVars
      PROVE  Goal
  <2>1. ClientStep(c) /\ NetTypeOK
    BY <1>1, <1>t DEF Bounded!ClientStep, Bounded!Connect, Bounded!Send, Bounded!HangUp,
      ClientStep, Connect, Send, HangUp, BoundedTyped
  <2>2. hungUp \subseteq hungUp' /\ hungUp' \in SUBSET Clients /\ taken' = taken
    BY <2>1, ClientSteps DEF NetTypeOK
  <2>3. Accounted(ToPut(stage), queue, inHand, echoed, taken, hungUp')
    BY <1>t, <2>2, StillAccounted
  <2>4. QED
    BY <1>1, <2>2, <2>3 DEF Bounded!serverVars
<1>2. ASSUME NEW c \in Clients, Bounded!Accept(c) PROVE Goal
  BY <1>t, <1>2 DEF Bounded!Accept, Bounded!serverVars
<1>3. ASSUME NEW c \in Clients, Bounded!Read(c) PROVE Goal
  <2>1. PICK n \in (taken[c] + 1)..sent[c] :
          /\ stage' = [client |-> c, lines |-> [i \in 1..(n - taken[c]) |-> taken[c] + i]]
          /\ taken' = [taken EXCEPT ![c] = n]
    BY <1>3, BoundedReads
  <2>2. n \in (taken[c] + 1)..Lines /\ taken[c] \in 0..Lines /\ n - taken[c] \in Nat
    BY <1>t, <1>s, ServersAssumption DEF BoundedTyped, NetTypeOK, TasksTyped
  <2>3. stage'.client = c /\ stage'.lines = [i \in 1..(n - taken[c]) |-> taken[c] + i]
    BY <2>1
  <2>4. stage'.lines \in [1..(n - taken[c]) -> Nat]
    BY <2>2, <2>3
  <2>5. Len(stage'.lines) = n - taken[c]
    BY <2>2, <2>4, FunctionIsSequence
  <2>6. ToPut(stage') = NewTasks(c, taken[c], n)
    BY <2>3, <2>5 DEF ToPut, NewTasks
  <2>7. ToPut(stage) = <<>> /\ UNCHANGED <<hungUp, queue, inHand, echoed>>
    BY <1>3, NothingToPut DEF Bounded!Read
  <2>8. Accounted(ToPut(stage'), queue, inHand, echoed, taken', hungUp)
    BY <1>t, <2>1, <2>2, <2>6, <2>7, TasksRead
  <2>9. QED
    BY <2>7, <2>8
<1>4. CASE Bounded!Put
  <2>1. stage \in [client : Clients, lines : Seq(1..Lines) \ {<<>>}] /\ stage # Bounded!Nothing
    BY <1>t, <1>4 DEF Bounded!Put, BoundedTyped
  <2> DEFINE s == stage.lines
             m == Len(stage.lines)
             a == ToPut(stage)
  <2>a. s \in Seq(1..Lines) /\ m \in Nat \ {0} /\ Head(s) = s[1]
    BY <2>1
  <2>b. a \in Seq(Tasks) /\ Len(a) = m /\ \A i \in 1..m : a[i] = Bounded!Job(stage.client, s[i])
    BY <1>s, <2>a, FunctionIsSequence DEF TasksTyped, ToPut, Bounded!Job
  <2>2. ToPut(stage) # <<>> /\ Head(ToPut(stage)) = Bounded!Job(stage.client, Head(stage.lines))
    BY <2>a, <2>b
  <2>3. ToPut(stage') = Tail(ToPut(stage))
    <3>1. CASE m = 1
      <4>1. stage' = Bounded!Nothing
        BY <1>4, <3>1 DEF Bounded!Put
      <4>2. Tail(a) = <<>>
        <5>1. Tail(a) \in Seq(Tasks) /\ Len(Tail(a)) = 0
          BY <2>a, <2>b, <3>1
        <5>2. QED
          BY <5>1, EmptySeq
      <4>3. QED
        BY <4>1, <4>2, NothingToPut
    <3>2. CASE m # 1
      <4>1. stage' = [stage EXCEPT !.lines = Tail(s)]
        BY <1>4, <3>2 DEF Bounded!Put
      <4>2. stage'.client = stage.client /\ stage'.lines = Tail(s)
        BY <2>1, <4>1
      <4>3. Len(Tail(s)) = m - 1 /\ \A i \in 1..(m - 1) : Tail(s)[i] = s[i + 1]
        BY <2>a
      <4>4. Tail(a) = [i \in 1..(m - 1) |-> a[i + 1]]
        <5>1. a # <<>>
          BY <2>a, <2>b
        <5>2. Len(Tail(a)) = m - 1 /\ \A i \in 1..(m - 1) : Tail(a)[i] = a[i + 1]
          BY <2>a, <2>b, <5>1
        <5>3. Tail(a) \in [1..(m - 1) -> Tasks]
          BY <2>b, <5>1, <5>2, LenProperties, HeadTailProperties
        <5>4. QED
          BY <5>2, <5>3
      <4>5. \A i \in 1..(m - 1) : a[i + 1] = [client |-> stage.client, line |-> s[i + 1]]
        <5>1. ASSUME NEW i \in 1..(m - 1)
              PROVE  a[i + 1] = [client |-> stage.client, line |-> s[i + 1]]
          <6>1. i + 1 \in 1..m
            BY <2>a
          <6>2. QED
            BY <2>b, <6>1 DEF Bounded!Job
        <5>2. QED
          BY <5>1
      <4>6. QED
        BY <4>2, <4>3, <4>4, <4>5 DEF ToPut
    <3>3. QED
      BY <3>1, <3>2
  <2>4. queue' = Append(queue, Head(ToPut(stage))) /\ UNCHANGED <<inHand, echoed, taken, hungUp>>
    BY <1>4, <2>2 DEF Bounded!Put, Bounded!netVars
  <2>5. Accounted(ToPut(stage'), queue', inHand, echoed, taken, hungUp)
    BY <1>t, <2>2, <2>3, <2>4, TaskQueued
  <2>6. QED
    BY <2>4, <2>5
<1>5. ASSUME NEW w \in Workers, Bounded!EnterGet(w) PROVE Goal
  <2>1. /\ w \in Workers \ Busy(inHand)
        /\ inHand' = [inHand EXCEPT ![w] = Bounded!InGet]
        /\ UNCHANGED <<taken, hungUp, stage, queue, echoed>>
    BY <1>5, <1>t, BoundedBusy DEF Bounded!EnterGet, Bounded!netVars, Bounded!Writing
  <2>2. Accounted(ToPut(stage), queue, inHand', echoed, taken, hungUp)
    BY <1>t, <2>1, BoundedBusy, IdleAccounted
  <2>3. QED
    BY <2>1, <2>2
<1>6. ASSUME NEW w \in Workers, Bounded!Take(w) PROVE Goal
  <2>1. /\ w \in Workers \ Busy(inHand)
        /\ queue # <<>> /\ queue' = Tail(queue) /\ inHand' = [inHand EXCEPT ![w] = queue[1]]
        /\ UNCHANGED <<taken, hungUp, stage, echoed>>
    BY <1>6, <1>t, BoundedBusy DEF Bounded!Take, Bounded!netVars, Bounded!Writing
  <2>2. /\ queue' \in Seq(Tasks) /\ 1 \in 1..Len(queue) /\ Len(queue') = Len(queue) - 1
        /\ \A j \in 1..Len(queue') : ~(j < 1) /\ queue'[j] = queue[j + 1]
    BY <1>s, <2>1 DEF TasksTyped
  <2>3. Without(queue, 1, queue')
    BY <2>2 DEF Without
  <2>4. Accounted(ToPut(stage), queue', inHand', echoed, taken, hungUp)
    BY <1>t, <2>1, <2>2, <2>3, TaskTaken
  <2>5. QED
    BY <2>1, <2>4
<1>7. ASSUME NEW w \in Workers,
             \/ Bounded!Write(w)
             \/ /\ Bounded!Writing(w) /\ inHand[w].client \in hungUp
                /\ inHand' = [inHand EXCEPT ![w] = Bounded!Idle]
                /\ UNCHANGED <<conn, sent, taken, hungUp, stage, outQueue, queue, echoed>>
      PROVE  Goal
  <2>1. /\ w \in Busy(inHand)
        /\ inHand' = [inHand EXCEPT ![w] = Bounded!Idle]
        /\ \/ echoed' = [echoed EXCEPT ![inHand[w].client] = Append(@, inHand[w].line)]
           \/ echoed' = echoed /\ inHand[w].client \in hungUp
        /\ UNCHANGED <<taken, hungUp, stage, queue>>
    BY <1>7, <1>t, BoundedBusy DEF Bounded!Write, Bounded!netVars
  <2>2. Accounted(ToPut(stage), queue, inHand', echoed', taken, hungUp)
    BY <1>t, <2>1, BoundedBusy, TaskDone
  <2>3. QED
    BY <2>1, <2>2
<1>8. ASSUME NEW c \in Clients, Bounded!WriteFails(c) PROVE Goal
  BY <1>7, <1>8 DEF Bounded!WriteFails, Bounded!netVars
<1>9. QED
  BY <1>1, <1>2, <1>3, <1>4, <1>5, <1>6, <1>7, <1>8 DEF Bounded!Next, Bounded!ServerStep,
    Bounded!WorkerStep

LEMMA BoundedTypes ==
  ASSUME BoundedInv, Bounded!Next,
         TasksTyped(ToPut(stage'), queue', inHand', echoed', taken', hungUp')
  PROVE  BoundedTyped'
<1> USE DEF BoundedInv, BoundedTyped
<1>s. TasksTyped(ToPut(stage), queue, inHand, echoed, taken, hungUp)
  BY DEF Accounted
<1>0. Lines \in Nat /\ taken \in [Clients -> 0..Lines]
  BY <1>s, ServersAssumption DEF TasksTyped
<1>1. ASSUME NEW c \in Clients, Bounded!ClientStep(c), UNCHANGED Bounded!serverVars
      PROVE  BoundedTyped'
  <2>1. ClientStep(c)
    BY <1>1 DEF Bounded!ClientStep, Bounded!Connect, Bounded!Send, Bounded!HangUp,
      ClientStep, Connect, Send, HangUp
  <2>2. NetTypeOK' /\ taken' = taken
    BY <2>1, ClientSteps
  <2>3. QED
    BY <1>1, <2>2 DEF Bounded!serverVars
<1>2. ASSUME NEW c \in Clients, Bounded!Accept(c) PROVE BoundedTyped'
  BY <1>2 DEF Bounded!Accept, Bounded!serverVars, NetTypeOK
<1>3. ASSUME NEW c \in Clients, Bounded!Read(c) PROVE BoundedTyped'
  <2>1. PICK n \in (taken[c] + 1)..sent[c] :
          /\ stage' = [client |-> c, lines |-> [i \in 1..(n - taken[c]) |-> taken[c] + i]]
          /\ taken' = [taken EXCEPT ![c] = n]
          /\ outQueue' = [outQueue EXCEPT ![c] = n + 1]
    BY <1>3, BoundedReads
  <2>2. n - taken[c] \in Nat \ {0} /\ n \in 0..sent[c] /\ sent[c] \in 0..Lines /\ taken[c] \in Nat
    BY <1>0 DEF NetTypeOK
  <2>3. NetTypeOK'
    BY <1>0, <1>3, <2>1, <2>2 DEF NetTypeOK, Bounded!Read
  <2>4. outQueue' = [d \in Clients |-> taken'[d] + 1]
    BY <1>0, <2>1
  <2>5. stage' \in [client : Clients, lines : Seq(1..Lines) \ {<<>>}]
    <3> DEFINE s == [i \in 1..(n - taken[c]) |-> taken[c] + i]
    <3>1. s \in [1..(n - taken[c]) -> 1..Lines] /\ n - taken[c] \in Nat
      BY <1>0, <2>2
    <3> HIDE DEF s
    <3>2. s \in Seq(1..Lines) /\ Len(s) = n - taken[c]
      BY <3>1, FunctionIsSequence
    <3>3. s # <<>>
      BY <2>2, <3>2
    <3>4. QED
      BY <2>1, <3>2, <3>3 DEF s
  <2>6. QED
    BY <1>3, <2>3, <2>4, <2>5 DEF Bounded!Read
<1>4. CASE Bounded!Put
  <2>1. stage \in [client : Clients, lines : Seq(1..Lines) \ {<<>>}]
    BY <1>4 DEF Bounded!Put
  <2>2. stage' = Bounded!Nothing \/ stage' \in [client : Clients, lines : Seq(1..Lines) \ {<<>>}]
    <3>1. stage.lines \in Seq(1..Lines) /\ stage.lines # <<>>
      BY <2>1
    <3>2. CASE Len(stage.lines) # 1
      <4>1. Tail(stage.lines) \in Seq(1..Lines) /\ Len(Tail(stage.lines)) # 0
        <5>1. Len(stage.lines) \in Nat
          BY <3>1, LenProperties, Zenon
        <5>2. Len(stage.lines) # 0
          BY <3>1, EmptySeq, Zenon
        <5>3. Tail(stage.lines) \in Seq(1..Lines) /\ Len(Tail(stage.lines)) = Len(stage.lines) - 1
          BY <3>1, HeadTailProperties, Zenon
        <5>4. QED
          BY <3>2, <5>1, <5>2, <5>3
      <4>2. Tail(stage.lines) # <<>>
        BY <4>1, EmptySeq
      <4>3. stage' = [stage EXCEPT !.lines = Tail(stage.lines)]
        BY <1>4, <3>2 DEF Bounded!Put
      <4>4. QED
        BY <2>1, <4>1, <4>2, <4>3
    <3>3. QED
      BY <1>4, <3>2 DEF Bounded!Put
  <2>3. Len(queue') <= Capacity
    <3>1. Len(queue) \in Nat /\ Len(queue') = Len(queue) + 1 /\ Len(queue) < Capacity
      BY <1>4, <1>s DEF Bounded!Put, TasksTyped
    <3>2. QED
      BY <3>1, ServersAssumption
  <2>4. QED
    BY <1>4, <2>2, <2>3 DEF Bounded!Put, Bounded!netVars, NetTypeOK
<1>5. ASSUME NEW w \in Workers, Bounded!EnterGet(w) PROVE BoundedTyped'
  BY <1>5 DEF Bounded!EnterGet, Bounded!netVars, NetTypeOK
<1>6. ASSUME NEW w \in Workers, Bounded!Take(w) PROVE BoundedTyped'
  <2>1. queue \in Seq(Tasks) /\ queue # <<>> /\ Len(queue) \in Nat
    BY <1>6, <1>s DEF Bounded!Take, TasksTyped
  <2>2. Head(queue) \in Tasks /\ Len(Tail(queue)) = Len(queue) - 1
    BY <2>1, HeadTailProperties
  <2>3. Len(queue') <= Capacity
    BY <1>6, <2>1, <2>2, ServersAssumption DEF Bounded!Take
  <2>4. QED
    BY <1>6, <2>2, <2>3 DEF Bounded!Take, Bounded!netVars, NetTypeOK
<1>7. ASSUME NEW w \in Workers, Bounded!Write(w) PROVE BoundedTyped'
  BY <1>7 DEF Bounded!Write, Bounded!netVars, NetTypeOK
<1>8. ASSUME NEW c \in Clients, Bounded!WriteFails(c) PROVE BoundedTyped'
  BY <1>8 DEF Bounded!WriteFails, Bounded!netVars, NetTypeOK
<1>9. QED
  BY <1>1, <1>2, <1>3, <1>4, <1>5, <1>6, <1>7, <1>8 DEF Bounded!Next, Bounded!ServerStep,
    Bounded!WorkerStep

LEMMA BoundedStarts == ASSUME Bounded!Init PROVE BoundedInv
<1> USE ServersAssumption DEF Bounded!Init, Bounded!NetInit
<1>1. BoundedTyped
  BY DEF BoundedTyped, NetTypeOK
<1>2. Busy(inHand) = {}
  BY DEF Busy, Bounded!Idle, Bounded!Job
<1>3. TasksTyped(ToPut(stage), queue, inHand, echoed, taken, hungUp)
  <2>1. Lines \in Nat /\ <<>> \in Seq(Tasks) /\ <<>> \in Seq(1..Lines)
    OBVIOUS
  <2>2. QED
    BY <1>2, <2>1, NothingToPut DEF TasksTyped
<1>4. \A t \in Tasks : t.client \in Clients /\ t.line \in 1..Lines
  BY DEF Tasks
<1>5. OnceEach(ToPut(stage), queue, inHand, echoed) /\ Apart(ToPut(stage), queue, inHand, echoed)
  BY <1>2, NothingToPut DEF OnceEach, Apart
<1>6. ASSUME NEW t \in Tasks
      PROVE  ~Somewhere(t, ToPut(stage), queue, inHand, echoed) /\ ~(t.line <= taken[t.client])
  BY <1>2, <1>4, NothingToPut DEF Somewhere
<1>7. QED
  BY <1>1, <1>3, <1>5, <1>6 DEF BoundedInv, Accounted

\* JavaPA4: so is each line that its reactor has put together, in the lines still to be put,
\* the bounded queue, a worker's hands or at its client.
THEOREM BoundedInvariance == Spec => [](program = "bounded" => BoundedInv)
<1>1. Init => (program = "bounded" => BoundedInv)
  BY BoundedStarts DEF Init
<1>2. (program = "bounded" => BoundedInv) /\ [Next]_vars
      => (program = "bounded" => BoundedInv)'
  <2> SUFFICES ASSUME BoundedInv, program = "bounded", [Next]_vars PROVE BoundedInv'
    BY SameProgram
  <2>1. CASE Bounded!Next
    BY <2>1, BoundedAccounts, BoundedTypes DEF BoundedInv, Accounted
  <2>2. CASE UNCHANGED Bounded!vars
    BY <2>2 DEF Bounded!vars, Bounded!netVars, Bounded!serverVars, BoundedInv, BoundedTyped,
      NetTypeOK
  <2>3. QED
    BY <2>1, <2>2, BoundedSteps
<1>3. QED
  BY <1>1, <1>2, PTL DEF Spec

\* A set that has no two elements counts as one or none.
LEMMA CountsOnce ==
  ASSUME NEW S, \A p, q \in S : p = q
  PROVE  Cardinality(S) = IF S = {} THEN 0 ELSE 1
<1>1. CASE S = {}
  BY <1>1, FS_EmptySet
<1>2. ASSUME NEW p \in S PROVE Cardinality(S) = 1
  <2>1. S = {p}
    OBVIOUS
  <2>2. QED
    BY <2>1, FS_Singleton
<1>3. QED
  BY <1>1, <1>2

LEMMA BoundedPlaces == ASSUME BoundedInv PROVE Bounded!LineInOnePlace
<1>t. /\ BoundedTyped /\ TasksTyped(ToPut(stage), queue, inHand, echoed, taken, hungUp)
      /\ OnceEach(ToPut(stage), queue, inHand, echoed) /\ Apart(ToPut(stage), queue, inHand, echoed)
  BY DEF BoundedInv, Accounted
<1>c. \A S : Bounded!Cardinality(S) = Cardinality(S)
  BY DEF Bounded!Cardinality, Cardinality
<1> DEFINE A(c, l) == {i \in DOMAIN stage.lines : stage.client = c /\ stage.lines[i] = l}
           Q(c, l) == {i \in DOMAIN queue : queue[i] = Bounded!Job(c, l)}
           W(c, l) == {w \in Workers : Bounded!Writing(w) /\ inHand[w] = Bounded!Job(c, l)}
           E(c, l) == {i \in DOMAIN echoed[c] : echoed[c][i] = l}
           t(c, l) == [client |-> c, line |-> l]
<1>d. ASSUME NEW c \in Clients, NEW l
      PROVE  Bounded!Places(c, l) = Cardinality(A(c, l)) + Cardinality(Q(c, l))
                                    + Cardinality(W(c, l)) + Cardinality(E(c, l))
  BY <1>c DEF Bounded!Places
<1>1. ASSUME NEW c \in Clients, NEW l
      PROVE  /\ \A i \in A(c, l) : i \in 1..Len(ToPut(stage)) /\ ToPut(stage)[i] = t(c, l)
             /\ \A i \in 1..Len(ToPut(stage)) : ToPut(stage)[i] = t(c, l) => i \in A(c, l)
             /\ \A i \in Q(c, l) : i \in 1..Len(queue) /\ queue[i] = t(c, l)
             /\ \A i \in 1..Len(queue) : queue[i] = t(c, l) => i \in Q(c, l)
             /\ \A w \in W(c, l) : w \in Busy(inHand) /\ inHand[w] = t(c, l)
             /\ \A w \in Busy(inHand) : inHand[w] = t(c, l) => w \in W(c, l)
             /\ \A i \in E(c, l) : i \in 1..Len(echoed[c]) /\ echoed[c][i] = l
             /\ \A i \in 1..Len(echoed[c]) : echoed[c][i] = l => i \in E(c, l)
  <2>1. DOMAIN queue = 1..Len(queue) /\ DOMAIN echoed[c] = 1..Len(echoed[c])
    BY <1>t DEF TasksTyped
  <2>2. DOMAIN stage.lines = 1..Len(stage.lines) /\ Len(ToPut(stage)) = Len(stage.lines)
    <3>1. CASE stage = Bounded!Nothing
      <4>1. stage.lines = <<>> /\ ToPut(stage) = <<>>
        BY <3>1, NothingToPut DEF Bounded!Nothing
      <4>2. QED
        BY <4>1
    <3>2. CASE stage \in [client : Clients, lines : Seq(1..Lines) \ {<<>>}]
      <4>1. stage.lines \in Seq(1..Lines) /\ ToPut(stage) \in Seq(Tasks)
        BY <1>t, <3>2 DEF TasksTyped
      <4>2. DOMAIN stage.lines = 1..Len(stage.lines) /\ Len(stage.lines) \in Nat
        BY <4>1, LenProperties, Zenon
      <4>3. ToPut(stage) \in [1..Len(stage.lines) -> Tasks]
        BY <4>1 DEF ToPut
      <4>4. QED
        BY <4>2, <4>3, FunctionIsSequence
    <3>3. QED
      BY <1>t, <3>1, <3>2 DEF BoundedTyped
  <2>3. \A i \in 1..Len(stage.lines) :
          ToPut(stage)[i] = t(c, l) <=> stage.client = c /\ stage.lines[i] = l
    BY DEF ToPut
  <2>4. Bounded!Job(c, l) = t(c, l)
    BY DEF Bounded!Job
  <2>5. Busy(inHand) = {w \in Workers : Bounded!Writing(w)}
    BY <1>t, BoundedBusy
  <2>6. QED
    BY <2>1, <2>2, <2>3, <2>4, <2>5
<1> HIDE DEF A, Q, W, E, t
<1>2. ASSUME NEW c \in Clients PROVE Bounded!Places(c, 0) = 0
  <2>1. t(c, 0) \notin Tasks /\ 0 \notin 1..Lines
    BY DEF Tasks, t
  <2>2. /\ \A i \in 1..Len(ToPut(stage)) : ToPut(stage)[i] \in Tasks
        /\ \A i \in 1..Len(queue) : queue[i] \in Tasks
        /\ \A w \in Busy(inHand) : inHand[w] \in Tasks
        /\ \A i \in 1..Len(echoed[c]) : echoed[c][i] \in 1..Lines
    <3>1. ToPut(stage) \in Seq(Tasks) /\ queue \in Seq(Tasks) /\ echoed[c] \in Seq(1..Lines)
      BY <1>t DEF TasksTyped
    <3>2. \A i \in 1..Len(ToPut(stage)) : ToPut(stage)[i] \in Tasks
      BY <3>1, ElementOfSeq
    <3>3. \A i \in 1..Len(queue) : queue[i] \in Tasks
      BY <3>1, ElementOfSeq
    <3>4. \A i \in 1..Len(echoed[c]) : echoed[c][i] \in 1..Lines
      BY <3>1, ElementOfSeq
    <3>5. \A w \in Busy(inHand) : inHand[w] \in Tasks
      BY <1>t DEF TasksTyped
    <3>6. QED
      BY <3>2, <3>3, <3>4, <3>5
  <2>3. A(c, 0) = {} /\ Q(c, 0) = {} /\ W(c, 0) = {} /\ E(c, 0) = {}
    <3>1. /\ \A i \in A(c, 0) : i \in 1..Len(ToPut(stage)) /\ ToPut(stage)[i] = t(c, 0)
          /\ \A i \in Q(c, 0) : i \in 1..Len(queue) /\ queue[i] = t(c, 0)
          /\ \A w \in W(c, 0) : w \in Busy(inHand) /\ inHand[w] = t(c, 0)
          /\ \A i \in E(c, 0) : i \in 1..Len(echoed[c]) /\ echoed[c][i] = 0
      BY <1>1
    <3>2. QED
      BY <2>1, <2>2, <3>1
  <2>4. QED
    BY <1>d, <2>3, FS_EmptySet
<1>3. ASSUME NEW c \in Clients, NEW l \in 1..taken[c]
      PROVE  Bounded!Places(c, l) <= 1 /\ (c \notin hungUp => Bounded!Places(c, l) = 1)
  <2>1. t(c, l) \in Tasks /\ t(c, l).client = c /\ t(c, l).line = l /\ l <= taken[c]
    <3>1. l \in 1..Lines /\ l <= taken[c]
      <4>1. Lines \in Nat /\ taken[c] \in 0..Lines
        BY <1>t, ServersAssumption DEF TasksTyped
      <4>2. QED
        BY <4>1
    <3>2. QED
      BY <3>1 DEF Tasks, t
  <2>0. /\ \A w \in W(c, l) : w \in Busy(inHand) /\ inHand[w] = t(c, l)
        /\ \A j \in Q(c, l) : j \in 1..Len(queue) /\ queue[j] = t(c, l)
        /\ \A k \in E(c, l) : k \in 1..Len(echoed[c]) /\ echoed[c][k] = l
    BY <1>1
  <2>2. ASSUME NEW i \in A(c, l) PROVE Q(c, l) = {} /\ W(c, l) = {} /\ E(c, l) = {}
    <3>1. i \in 1..Len(ToPut(stage)) /\ ToPut(stage)[i] = t(c, l)
      BY <1>1
    <3>2. /\ \A j \in 1..Len(queue) : queue[j] # t(c, l)
          /\ \A w \in Busy(inHand) : inHand[w] # t(c, l)
          /\ \A k \in 1..Len(echoed[c]) : echoed[c][k] # l
      BY <1>t, <2>1, <3>1 DEF Apart
    <3>3. QED
      BY <2>0, <3>2
  <2>3. ASSUME NEW j \in Q(c, l) PROVE W(c, l) = {} /\ E(c, l) = {}
    <3>1. j \in 1..Len(queue) /\ queue[j] = t(c, l)
      BY <1>1
    <3>2. /\ \A w \in Busy(inHand) : inHand[w] # t(c, l)
          /\ \A k \in 1..Len(echoed[c]) : echoed[c][k] # l
      BY <1>t, <2>1, <3>1 DEF Apart
    <3>3. QED
      BY <2>0, <3>2
  <2>4. ASSUME NEW w \in W(c, l) PROVE E(c, l) = {}
    <3>1. w \in Busy(inHand) /\ inHand[w] = t(c, l)
      BY <1>1
    <3>2. \A k \in 1..Len(echoed[c]) : echoed[c][k] # l
      BY <1>t, <2>1, <3>1 DEF Apart
    <3>3. QED
      BY <2>0, <3>2
  <2>5. /\ \A p, q \in A(c, l) : p = q
        /\ \A p, q \in Q(c, l) : p = q
        /\ \A p, q \in W(c, l) : p = q
        /\ \A p, q \in E(c, l) : p = q
    <3>1. \A p, q \in A(c, l) : p = q
      BY <1>1, <1>t, <2>1 DEF OnceEach
    <3>2. \A p, q \in Q(c, l) : p = q
      BY <1>1, <1>t, <2>1 DEF OnceEach
    <3>3. \A p, q \in W(c, l) : p = q
      BY <1>1, <1>t, <2>1 DEF OnceEach
    <3>4. \A p, q \in E(c, l) : p = q
      BY <1>1, <1>t, <2>1 DEF OnceEach
    <3>5. QED
      BY <3>1, <3>2, <3>3, <3>4
  <2>6. /\ Cardinality(A(c, l)) = IF A(c, l) = {} THEN 0 ELSE 1
        /\ Cardinality(Q(c, l)) = IF Q(c, l) = {} THEN 0 ELSE 1
        /\ Cardinality(W(c, l)) = IF W(c, l) = {} THEN 0 ELSE 1
        /\ Cardinality(E(c, l)) = IF E(c, l) = {} THEN 0 ELSE 1
    BY <2>5, CountsOnce
  <2>7. A(c, l) # {} \/ Q(c, l) # {} \/ W(c, l) # {} \/ E(c, l) # {} \/ c \in hungUp
    <3>1. Somewhere(t(c, l), ToPut(stage), queue, inHand, echoed) \/ c \in hungUp
      BY <2>1 DEF BoundedInv, Accounted
    <3>2. QED
      BY <1>1, <2>1, <3>1 DEF Somewhere
  <2>8. QED
    BY <1>d, <2>2, <2>3, <2>4, <2>6, <2>7
<1>4. QED
  BY <1>2, <1>3 DEF Bounded!LineInOnePlace

\* A sequence over S is one over whatever contains S.
LEMMA SeqOfMore ==
  ASSUME NEW S, NEW T, S \subseteq T, NEW s \in Seq(S)
  PROVE  s \in Seq(T)
<1>1. Len(s) \in Nat /\ s \in [1..Len(s) -> S]
  BY LenProperties
<1>2. s \in [1..Len(s) -> T]
  BY <1>1
<1>3. QED
  BY <1>1, <1>2, FunctionIsSequence

LEMMA BoundedTypesOK == ASSUME BoundedInv PROVE Bounded!TypeOK
<1> DEFINE Jobs == [client : Clients, line : 0..Lines]
<1>t. BoundedTyped /\ TasksTyped(ToPut(stage), queue, inHand, echoed, taken, hungUp)
  BY DEF BoundedInv, Accounted
<1>0. Lines \in Nat /\ taken \in [Clients -> 0..Lines]
  BY <1>t, ServersAssumption DEF TasksTyped
<1>1. 1..Lines \subseteq 0..Lines /\ Tasks \subseteq Jobs
  <2>1. 1..Lines \subseteq 0..Lines
    BY <1>0
  <2>2. QED
    BY <2>1 DEF Tasks
<1>2. Bounded!NetTypeOK
  BY <1>t DEF BoundedTyped, NetTypeOK, Bounded!NetTypeOK
<1>3. stage \in [client : Clients, lines : Seq(0..Lines)] \cup {Bounded!Nothing}
  <2>1. CASE stage = Bounded!Nothing
    BY <2>1
  <2>2. CASE stage \in [client : Clients, lines : Seq(1..Lines) \ {<<>>}]
    <3>1. stage.lines \in Seq(1..Lines)
      BY <2>2
    <3>2. stage.lines \in Seq(0..Lines)
      BY <1>1, <3>1, SeqOfMore
    <3>3. QED
      BY <2>2, <3>2
  <2>3. QED
    BY <1>t, <2>1, <2>2 DEF BoundedTyped
<1>4. outQueue \in [Clients -> 0..Lines + 1]
  <2>1. \A c \in Clients : taken[c] + 1 \in 0..Lines + 1
    BY <1>0
  <2>2. QED
    BY <1>t, <2>1 DEF BoundedTyped
<1>5. queue \in Seq(Jobs)
  <2>1. queue \in Seq(Tasks)
    BY <1>t DEF TasksTyped
  <2>2. QED
    BY <1>1, <2>1, SeqOfMore
<1>6. inHand \in [Workers -> Jobs \cup {Bounded!Idle, Bounded!InGet}]
  BY <1>1, <1>t DEF BoundedTyped
<1>7. echoed \in [Clients -> Seq(0..Lines)]
  <2>1. \A c \in Clients : echoed[c] \in Seq(1..Lines)
    BY <1>t DEF TasksTyped
  <2>2. \A c \in Clients : echoed[c] \in Seq(0..Lines)
    BY <1>1, <2>1, SeqOfMore
  <2>3. QED
    BY <1>t, <2>2 DEF TasksTyped
<1>8. QED
  BY <1>2, <1>3, <1>4, <1>5, <1>6, <1>7, <1>t DEF Bounded!TypeOK, BoundedTyped

-----------------------------------------------------------------------------
(* EchoServerHSHA.java.                                                    *)

\* What is under way for a client that has got e back when t lines are read.
Due(e, t) == Queues!Buffer(Len(e) + 1, t)

\* The workers that hold a buffer of client c.
Holders(h, c) == {w \in Workers : h[w].client = c}

\* The way of one client's buffers: s is the state of its handler, q and o are its
\* queues, H the workers that hold its buffers.
Flow(s, q, o, e, t, H) ==
  /\ s \in {"read", "write"}
  /\ e \in Seq(1..Lines) /\ Len(e) <= t /\ \A i \in 1..Len(e) : e[i] = i
  /\ q \in {<<>>, <<Due(e, t)>>} /\ o \in {<<>>, <<Due(e, t)>>}
  /\ \A v, w \in H : v = w
  /\ q # <<>> => o = <<>> /\ H = {}
  /\ o # <<>> => H = {}
  /\ q # <<>> \/ o # <<>> \/ H # {} => s = "write" /\ Len(e) < t
  /\ s = "read" => Len(e) = t

\* There is one job for every buffer in an inQueue.
JobsMatch(j, q) == /\ j \in Seq(Clients)
                   /\ \A i, k \in 1..Len(j) : j[i] = j[k] => i = k
                   /\ \A c \in Clients : q[c] # <<>> <=> \E i \in 1..Len(j) : j[i] = c

HandsMatch(h, e, r) ==
  /\ DOMAIN h = Workers /\ h = [w \in Workers |-> h[w]]
  /\ \A w \in Workers : \/ h[w] = Queues!NoJob
                        \/ \E c \in Clients : h[w] = [client |-> c, buffer |-> Due(e[c], r[c])]

QueuesInv == /\ NetTypeOK
             /\ stage \in [Clients -> {"read", "write"}]
             /\ DOMAIN queue = Clients /\ DOMAIN outQueue = Clients
             /\ DOMAIN echoed = Clients /\ DOMAIN taken = Clients
             /\ JobsMatch(tasks, queue)
             /\ HandsMatch(inHand, echoed, taken)
             /\ \A c \in Clients : Flow(stage[c], queue[c], outQueue[c], echoed[c], taken[c],
                                        Holders(inHand, c))

LEMMA SingleBuffer ==
  ASSUME NEW b
  PROVE  /\ Append(<<>>, b) = <<b>> /\ Head(<<b>>) = b /\ Tail(<<b>>) = <<>> /\ <<b>> # <<>>
         /\ Len(<<b>>) = 1
OBVIOUS

\* A handler that reads has nothing under way; what it reads is due next.
LEMMA FlowRead ==
  ASSUME NEW q, NEW o, NEW e, NEW t \in Nat, NEW H, Flow("read", q, o, e, t, H), NEW n \in Nat, n > t
  PROVE  /\ q = <<>> /\ o = <<>> /\ H = {}
         /\ Flow("write", <<Queues!Buffer(t + 1, n)>>, o, e, n, H)
<1>1. q = <<>> /\ o = <<>> /\ H = {} /\ Len(e) = t
  BY DEF Flow
<1>2. Queues!Buffer(t + 1, n) = Due(e, n)
  BY <1>1 DEF Due
<1>3. Len(e) < n /\ Len(e) <= n
  BY <1>1
<1>4. <<Due(e, n)>> # <<>>
  BY SingleBuffer
<1>5. QED
  BY <1>1, <1>2, <1>3, <1>4 DEF Flow

\* A worker takes the buffer out of the inQueue,
LEMMA FlowPoll ==
  ASSUME NEW s, NEW q, NEW o, NEW e, NEW t, NEW H, Flow(s, q, o, e, t, H), q # <<>>, NEW w
  PROVE  /\ Head(q) = Due(e, t) /\ Tail(q) = <<>>
         /\ Flow(s, <<>>, o, e, t, {w})
<1>1. q = <<Due(e, t)>>
  BY DEF Flow
<1>2. QED
  BY <1>1, SingleBuffer DEF Flow

\* and adds it to the outQueue.
LEMMA FlowAdd ==
  ASSUME NEW s, NEW q, NEW o, NEW e, NEW t, NEW H, Flow(s, q, o, e, t, H), NEW w \in H
  PROVE  /\ q = <<>> /\ o = <<>> /\ H = {w}
         /\ Flow(s, q, <<Due(e, t)>>, e, t, {})
<1>1. q = <<>> /\ o = <<>> /\ H = {w}
  BY DEF Flow
<1>2. QED
  BY <1>1, SingleBuffer DEF Flow

\* The write may fail,
LEMMA FlowFails ==
  ASSUME NEW s, NEW q, NEW o, NEW e, NEW t, NEW H, Flow(s, q, o, e, t, H), o # <<>>
  PROVE  /\ Head(o) = Due(e, t) /\ Tail(o) = <<>> /\ q = <<>> /\ H = {} /\ s = "write"
         /\ Flow(s, q, <<>>, e, t, H)
<1>1. o = <<Due(e, t)>> /\ q = <<>> /\ H = {} /\ s = "write"
  BY DEF Flow
<1>2. QED
  BY <1>1, SingleBuffer DEF Flow

\* or it writes all that was due.
LEMMA FlowWrite ==
  ASSUME NEW q, NEW o, NEW e, NEW t \in 0..Lines, NEW H, Flow("write", q, o, e, t, H), o # <<>>
  PROVE  Flow("read", q, <<>>, e \o Due(e, t), t, H)
<1> DEFINE k == Len(e)
           b == Due(e, t)
<1>1. e \in Seq(1..Lines) /\ k \in Nat /\ t \in Nat /\ Lines \in Nat /\ k < t
  BY ServersAssumption DEF Flow
<1>2. b = [i \in 1..(t - k) |-> k + i]
  <2>1. t - (k + 1) + 1 = t - k /\ \A i \in 1..(t - k) : (k + 1) + i - 1 = k + i
    BY <1>1
  <2>2. QED
    BY <2>1 DEF Due, Queues!Buffer
<1>3. b \in Seq(1..Lines) /\ Len(b) = t - k
  <2>1. \A i \in 1..(t - k) : k + i \in 1..Lines
    BY <1>1
  <2>2. t - k \in Nat /\ b \in [1..(t - k) -> 1..Lines]
    BY <1>1, <1>2, <2>1
  <2>3. QED
    BY <2>2, FunctionIsSequence
<1> HIDE DEF b
<1>4. /\ e \o b \in Seq(1..Lines) /\ Len(e \o b) = t
      /\ \A i \in 1..t : (e \o b)[i] = IF i <= k THEN e[i] ELSE b[i - k]
  <2>1. /\ e \o b \in Seq(1..Lines) /\ Len(e \o b) = Len(e) + Len(b)
        /\ \A i \in 1..(Len(e) + Len(b)) :
             (e \o b)[i] = IF i <= Len(e) THEN e[i] ELSE b[i - Len(e)]
    BY <1>1, <1>3, ConcatProperties, Zenon
  <2>2. Len(e) = k /\ Len(b) = t - k /\ k + (t - k) = t
    BY <1>1, <1>3
  <2>3. QED
    BY <2>1, <2>2
<1>5. \A i \in 1..t : (e \o b)[i] = i
  <2>1. ASSUME NEW i \in 1..t, i <= k PROVE (e \o b)[i] = i
    BY <1>1, <1>4, <2>1 DEF Flow
  <2>2. ASSUME NEW i \in 1..t, ~(i <= k) PROVE (e \o b)[i] = i
    <3>1. i - k \in 1..(t - k) /\ k + (i - k) = i
      BY <1>1, <2>2
    <3>2. QED
      BY <1>2, <1>4, <2>2, <3>1 DEF b
  <2>3. QED
    BY <2>1, <2>2
<1>6. q = <<>> /\ H = {}
  BY DEF Flow
<1>7. QED
  BY <1>1, <1>4, <1>5, <1>6 DEF Flow, b

LEMMA QueuesStarts == ASSUME Queues!Init PROVE QueuesInv
<1> USE DEF Queues!Init, Queues!NetInit
<1>1. NetTypeOK
  BY ServersAssumption DEF NetTypeOK
<1>2. JobsMatch(tasks, queue)
  BY DEF JobsMatch
<1>3. HandsMatch(inHand, echoed, taken)
  BY DEF HandsMatch
<1>4. ASSUME NEW c \in Clients
      PROVE  Flow(stage[c], queue[c], outQueue[c], echoed[c], taken[c], Holders(inHand, c))
  <2>1. Holders(inHand, c) = {}
    BY ServersAssumption DEF Holders, Queues!NoJob
  <2>2. Len(<<>>) = 0 /\ <<>> \in Seq(1..Lines)
    OBVIOUS
  <2>3. QED
    BY <2>1, <2>2 DEF Flow
<1>5. QED
  BY <1>1, <1>2, <1>3, <1>4 DEF QueuesInv

LEMMA QueuesTake == ASSUME QueuesInv, NEW c \in Clients, Queues!Read(c) PROVE QueuesInv'
<1>0. /\ Flow("read", queue[c], outQueue[c], echoed[c], taken[c], Holders(inHand, c))
      /\ Lines \in Nat /\ taken[c] \in Nat /\ sent[c] \in 0..Lines
  BY ServersAssumption DEF QueuesInv, NetTypeOK, Queues!Read
<1>1. PICK n \in (taken[c] + 1)..sent[c] :
        /\ queue' = [queue EXCEPT ![c] = Append(@, Queues!Buffer(taken[c] + 1, n))]
        /\ taken' = [taken EXCEPT ![c] = n]
  BY DEF Queues!Read, Queues!Unread, Queues!Filled
<1>2. /\ tasks' = Append(tasks, c) /\ stage' = [stage EXCEPT ![c] = "write"]
      /\ UNCHANGED <<conn, sent, hungUp, inHand, outQueue, echoed>>
  BY DEF Queues!Read, Queues!AfterRead
<1>3. n \in Nat /\ n > taken[c] /\ n \in 0..sent[c]
  BY <1>0, <1>1
<1>4. /\ queue[c] = <<>> /\ Holders(inHand, c) = {}
      /\ Flow("write", <<Queues!Buffer(taken[c] + 1, n)>>, outQueue[c], echoed[c], n, Holders(inHand, c))
  BY <1>0, <1>3, FlowRead
<1>5. queue' = [queue EXCEPT ![c] = <<Queues!Buffer(taken[c] + 1, n)>>]
  BY <1>1, <1>4, SingleBuffer DEF QueuesInv
<1>6. NetTypeOK'
  BY <1>1, <1>2, <1>3 DEF QueuesInv, NetTypeOK
<1>7. JobsMatch(tasks', queue')
  <2>1. /\ tasks \in Seq(Clients) /\ Len(tasks) \in Nat
        /\ \A i, k \in 1..Len(tasks) : tasks[i] = tasks[k] => i = k
        /\ \A d \in Clients : queue[d] # <<>> <=> \E i \in 1..Len(tasks) : tasks[i] = d
    BY DEF QueuesInv, JobsMatch
  <2>2. tasks' \in Seq(Clients) /\ Len(tasks') = Len(tasks) + 1 /\ tasks'[Len(tasks) + 1] = c
        /\ \A i \in 1..Len(tasks) : tasks'[i] = tasks[i]
    BY <1>2, <2>1
  <2>3. \A i \in 1..Len(tasks) : tasks[i] # c
    BY <1>4, <2>1
  <2>4. 1..Len(tasks') = 1..Len(tasks) \cup {Len(tasks) + 1}
    BY <2>1, <2>2
  <2>5. \A i, k \in 1..Len(tasks') : tasks'[i] = tasks'[k] => i = k
    BY <2>1, <2>2, <2>3, <2>4
  <2>6. queue'[c] # <<>> /\ \A d \in Clients : d # c => queue'[d] = queue[d]
    BY <1>5, SingleBuffer DEF QueuesInv
  <2>7. \A d \in Clients : queue'[d] # <<>> <=> \E i \in 1..Len(tasks') : tasks'[i] = d
    BY <2>1, <2>2, <2>4, <2>6
  <2>8. QED
    BY <2>2, <2>5, <2>7 DEF JobsMatch
<1>8. HandsMatch(inHand, echoed, taken')
  <2>1. \A w \in Workers : inHand[w].client # c
    BY <1>4 DEF Holders
  <2>2. \A d \in Clients : d # c => taken'[d] = taken[d]
    BY <1>1 DEF QueuesInv
  <2>3. QED
    BY <2>1, <2>2 DEF QueuesInv, HandsMatch
<1>9. ASSUME NEW d \in Clients
      PROVE  Flow(stage'[d], queue'[d], outQueue[d], echoed[d], taken'[d], Holders(inHand, d))
  BY <1>1, <1>2, <1>4, <1>5 DEF QueuesInv
<1>10. QED
  BY <1>1, <1>2, <1>5, <1>6, <1>7, <1>8, <1>9 DEF QueuesInv

LEMMA QueuesPoll == ASSUME QueuesInv, NEW w \in Workers, Queues!Poll(w) PROVE QueuesInv'
<1> DEFINE c == Head(tasks)
<1>0. /\ tasks \in Seq(Clients) /\ tasks # <<>>
      /\ \A i, k \in 1..Len(tasks) : tasks[i] = tasks[k] => i = k
      /\ \A d \in Clients : queue[d] # <<>> <=> \E i \in 1..Len(tasks) : tasks[i] = d
  BY DEF QueuesInv, JobsMatch, Queues!Poll
<1>1. /\ c \in Clients /\ c = tasks[1] /\ Len(tasks) \in Nat \ {0} /\ tasks' = Tail(tasks)
      /\ tasks' \in Seq(Clients) /\ Len(tasks') = Len(tasks) - 1
      /\ \A i \in 1..Len(tasks') : tasks'[i] = tasks[i + 1]
  BY <1>0 DEF Queues!Poll
<1> HIDE DEF c
<1>2. queue[c] # <<>>
  BY <1>0, <1>1
<1>3. /\ inHand[w] = Queues!NoJob
      /\ inHand' = [inHand EXCEPT ![w] = [client |-> c, buffer |-> Head(queue[c])]]
      /\ queue' = [queue EXCEPT ![c] = Tail(queue[c])]
      /\ UNCHANGED <<netVars, stage, outQueue, echoed>>
  BY <1>2 DEF Queues!Poll, Queues!netVars, netVars, c
<1>4. Flow(stage[c], queue[c], outQueue[c], echoed[c], taken[c], Holders(inHand, c))
  BY <1>1 DEF QueuesInv
<1>5. /\ Head(queue[c]) = Due(echoed[c], taken[c]) /\ Tail(queue[c]) = <<>>
      /\ Flow(stage[c], <<>>, outQueue[c], echoed[c], taken[c], {w})
  BY <1>2, <1>4, FlowPoll
<1>6. /\ DOMAIN inHand' = Workers
      /\ inHand'[w] = [client |-> c, buffer |-> Due(echoed[c], taken[c])] /\ inHand'[w].client = c
      /\ \A v \in Workers : v # w => inHand'[v] = inHand[v]
      /\ \A d \in Clients : d # c => queue'[d] = queue[d]
      /\ queue'[c] = <<>>
  BY <1>1, <1>3, <1>5 DEF QueuesInv, HandsMatch
<1>7. Holders(inHand', c) = {w}
  <2>1. Holders(inHand, c) = {}
    BY <1>2, <1>4 DEF Flow
  <2>2. QED
    BY <1>6, <2>1 DEF Holders
<1>8. \A d \in Clients : d # c => Holders(inHand', d) = Holders(inHand, d)
  BY <1>3, <1>6, ServersAssumption DEF Holders, Queues!NoJob
<1>9. ASSUME NEW d \in Clients
      PROVE  Flow(stage[d], queue'[d], outQueue[d], echoed[d], taken[d], Holders(inHand', d))
  BY <1>5, <1>6, <1>7, <1>8 DEF QueuesInv
<1>10. HandsMatch(inHand', echoed, taken)
  <2>1. inHand = [v \in Workers |-> inHand[v]]
    BY DEF QueuesInv, HandsMatch
  <2>2. inHand' = [v \in Workers |-> inHand'[v]]
    BY <1>3, <2>1
  <2>3. \A v \in Workers : \/ inHand'[v] = Queues!NoJob
                         \/ \E d \in Clients : inHand'[v] = [client |-> d, buffer |-> Due(echoed[d], taken[d])]
    BY <1>1, <1>6 DEF QueuesInv, HandsMatch
  <2>4. QED
    BY <1>6, <2>2, <2>3 DEF HandsMatch
<1>11. JobsMatch(tasks', queue')
  <2>1. \A i \in 1..Len(tasks') : i + 1 \in 1..Len(tasks) /\ i + 1 # 1
    BY <1>1
  <2>2. \A i, k \in 1..Len(tasks') : tasks'[i] = tasks'[k] => i = k
    <3> SUFFICES ASSUME NEW i \in 1..Len(tasks'), NEW k \in 1..Len(tasks'), tasks'[i] = tasks'[k]
                 PROVE  i = k
      OBVIOUS
    <3>1. i + 1 = k + 1
      BY <1>0, <1>1, <2>1
    <3>2. QED
      BY <3>1
  <2>3. \A i \in 1..Len(tasks') : tasks'[i] # c
    BY <1>0, <1>1, <2>1
  <2>4. ASSUME NEW d \in Clients, d # c
        PROVE  (\E i \in 1..Len(tasks) : tasks[i] = d) <=> (\E i \in 1..Len(tasks') : tasks'[i] = d)
    <3>1. ASSUME NEW i \in 1..Len(tasks), tasks[i] = d PROVE \E k \in 1..Len(tasks') : tasks'[k] = d
      <4>1. i # 1 /\ i - 1 \in 1..Len(tasks') /\ (i - 1) + 1 = i
        BY <1>1, <2>4, <3>1
      <4>2. tasks'[i - 1] = d
        BY <1>1, <3>1, <4>1
      <4>3. QED
        BY <4>1, <4>2
    <3>2. QED
      BY <1>1, <2>1, <3>1
  <2>5. \A d \in Clients : queue'[d] # <<>> <=> \E i \in 1..Len(tasks') : tasks'[i] = d
    BY <1>0, <1>6, <2>3, <2>4
  <2>6. QED
    BY <1>1, <2>2, <2>5 DEF JobsMatch
<1>12. QED
  BY <1>3, <1>9, <1>10, <1>11 DEF QueuesInv, NetTypeOK, netVars

LEMMA QueuesAdd == ASSUME QueuesInv, NEW w \in Workers, Queues!Add(w) PROVE QueuesInv'
<1>1. PICK c \in Clients : inHand[w] = [client |-> c, buffer |-> Due(echoed[c], taken[c])]
  BY DEF QueuesInv, HandsMatch, Queues!Add
<1>2. /\ inHand[w].client = c /\ inHand[w].buffer = Due(echoed[c], taken[c])
      /\ w \in Holders(inHand, c) /\ DOMAIN inHand = Workers
  BY <1>1 DEF Holders, QueuesInv, HandsMatch
<1>3. /\ outQueue' = [outQueue EXCEPT ![c] = Append(outQueue[c], inHand[w].buffer)]
      /\ inHand' = [inHand EXCEPT ![w] = Queues!NoJob]
      /\ UNCHANGED <<netVars, stage, queue, tasks, echoed>>
  BY <1>2 DEF Queues!Add, Queues!netVars, netVars
<1>4. Flow(stage[c], queue[c], outQueue[c], echoed[c], taken[c], Holders(inHand, c))
  BY <1>1 DEF QueuesInv
<1>5. /\ outQueue[c] = <<>> /\ Holders(inHand, c) = {w}
      /\ Flow(stage[c], queue[c], <<Due(echoed[c], taken[c])>>, echoed[c], taken[c], {})
  <2>1. outQueue[c] = <<>> /\ Holders(inHand, c) = {w}
    BY <1>2, <1>4 DEF Flow
  <2>2. Flow(stage[c], queue[c], <<Due(echoed[c], taken[c])>>, echoed[c], taken[c], {})
    BY <1>2, <1>4, FlowAdd
  <2>3. QED
    BY <2>1, <2>2
<1>6. outQueue' = [outQueue EXCEPT ![c] = <<Due(echoed[c], taken[c])>>]
  BY <1>2, <1>3, <1>5, SingleBuffer
<1>7. /\ DOMAIN inHand' = Workers /\ inHand'[w] = Queues!NoJob
      /\ \A v \in Workers : v # w => inHand'[v] = inHand[v]
  BY <1>2, <1>3
<1>8. Queues!NoJob.client \notin Clients
  BY ServersAssumption DEF Queues!NoJob
<1>9. Holders(inHand', c) = {}
  <2>1. ASSUME NEW v \in Workers, inHand'[v].client = c PROVE FALSE
    <3>1. v # w
      BY <1>1, <1>7, <1>8, <2>1
    <3>2. v \in Holders(inHand, c)
      BY <1>7, <2>1, <3>1 DEF Holders
    <3>3. QED
      BY <1>5, <3>1, <3>2
  <2>2. QED
    BY <2>1 DEF Holders
<1>10. ASSUME NEW d \in Clients, d # c PROVE Holders(inHand', d) = Holders(inHand, d)
  BY <1>2, <1>7, <1>8, <1>10 DEF Holders
<1>11. ASSUME NEW d \in Clients
       PROVE  Flow(stage[d], queue[d], outQueue'[d], echoed[d], taken[d], Holders(inHand', d))
  BY <1>5, <1>6, <1>9, <1>10 DEF QueuesInv
<1>12. HandsMatch(inHand', echoed, taken)
  <2>1. inHand = [v \in Workers |-> inHand[v]]
    BY DEF QueuesInv, HandsMatch
  <2>2. inHand' = [v \in Workers |-> inHand'[v]]
    BY <1>3, <2>1
  <2>3. \A v \in Workers : \/ inHand'[v] = Queues!NoJob
                         \/ \E d \in Clients : inHand'[v] = [client |-> d, buffer |-> Due(echoed[d], taken[d])]
    BY <1>7 DEF QueuesInv, HandsMatch
  <2>4. QED
    BY <1>7, <2>2, <2>3 DEF HandsMatch
<1>13. QED
  BY <1>3, <1>6, <1>11, <1>12 DEF QueuesInv, NetTypeOK, netVars

LEMMA QueuesWriteFails ==
  ASSUME QueuesInv, NEW c \in Clients, Queues!WriteFails(c) PROVE QueuesInv'
<1>1. /\ outQueue[c] # <<>> /\ outQueue' = [outQueue EXCEPT ![c] = Tail(outQueue[c])]
      /\ UNCHANGED <<netVars, stage, queue, tasks, inHand, echoed>>
  BY DEF Queues!WriteFails, Queues!netVars, netVars
<1>2. Flow(stage[c], queue[c], outQueue[c], echoed[c], taken[c], Holders(inHand, c))
  BY DEF QueuesInv
<1>3. /\ Tail(outQueue[c]) = <<>>
      /\ Flow(stage[c], queue[c], <<>>, echoed[c], taken[c], Holders(inHand, c))
  BY <1>1, <1>2, FlowFails
<1>4. ASSUME NEW d \in Clients
      PROVE  Flow(stage[d], queue[d], outQueue'[d], echoed[d], taken[d], Holders(inHand, d))
  BY <1>1, <1>3 DEF QueuesInv
<1>5. QED
  BY <1>1, <1>4 DEF QueuesInv, NetTypeOK, netVars

LEMMA QueuesWrite == ASSUME QueuesInv, NEW c \in Clients, Queues!Write(c) PROVE QueuesInv'
<1>1. /\ stage[c] = "write" /\ outQueue[c] # <<>>
      /\ outQueue' = [outQueue EXCEPT ![c] = Tail(outQueue[c])]
      /\ echoed' = [echoed EXCEPT ![c] = echoed[c] \o Head(outQueue[c])]
      /\ stage' = [stage EXCEPT ![c] = "read"]
      /\ UNCHANGED <<netVars, queue, tasks, inHand>>
  BY DEF Queues!Write, Queues!AfterWrite, Queues!netVars, netVars
<1>2. Flow("write", queue[c], outQueue[c], echoed[c], taken[c], Holders(inHand, c))
  BY <1>1 DEF QueuesInv
<1>3. Tail(outQueue[c]) = <<>> /\ Head(outQueue[c]) = Due(echoed[c], taken[c])
      /\ Holders(inHand, c) = {}
  BY <1>1, <1>2, FlowFails
<1>4. taken[c] \in 0..Lines
  BY ServersAssumption DEF QueuesInv, NetTypeOK
<1>5. Flow("read", queue[c], <<>>, echoed[c] \o Due(echoed[c], taken[c]), taken[c],
           Holders(inHand, c))
  BY <1>1, <1>2, <1>4, FlowWrite
<1>6. /\ echoed'[c] = echoed[c] \o Due(echoed[c], taken[c]) /\ stage'[c] = "read"
      /\ outQueue'[c] = <<>> /\ DOMAIN echoed' = Clients
      /\ \A d \in Clients : d # c => /\ echoed'[d] = echoed[d] /\ outQueue'[d] = outQueue[d]
                                     /\ stage'[d] = stage[d]
  BY <1>1, <1>3 DEF QueuesInv
<1>7. ASSUME NEW d \in Clients
      PROVE  Flow(stage'[d], queue[d], outQueue'[d], echoed'[d], taken[d], Holders(inHand, d))
  <2>1. CASE d = c
    BY <1>5, <1>6, <2>1
  <2>2. CASE d # c
    BY <1>6, <2>2 DEF QueuesInv
  <2>3. QED
    BY <2>1, <2>2
<1>8. HandsMatch(inHand, echoed', taken)
  <2>1. \A w \in Workers : inHand[w].client # c
    BY <1>3 DEF Holders
  <2>2. QED
    BY <1>6, <2>1 DEF QueuesInv, HandsMatch
<1>9. QED
  BY <1>1, <1>6, <1>7, <1>8 DEF QueuesInv, NetTypeOK, netVars

\* EchoServerHSHA: a client has got back its first lines, in their order, and the others that
\* were read are one buffer, in its in queue with one job, with a worker or in its out queue.
THEOREM QueuesInvariance == Spec => [](program = "queues" => QueuesInv)
<1>1. Init => (program = "queues" => QueuesInv)
  BY QueuesStarts DEF Init
<1>2. (program = "queues" => QueuesInv) /\ [Next]_vars
      => (program = "queues" => QueuesInv)'
  <2> SUFFICES ASSUME QueuesInv, program = "queues", [Next]_vars PROVE QueuesInv'
    BY SameProgram
  <2>1. ASSUME NEW c \in Clients, Queues!ClientStep(c), UNCHANGED Queues!serverVars
        PROVE  QueuesInv'
    <3>1. ClientStep(c) /\ NetTypeOK
      BY <2>1 DEF Queues!ClientStep, Queues!Connect, Queues!Send, Queues!HangUp,
        ClientStep, Connect, Send, HangUp, QueuesInv
    <3>2. NetTypeOK' /\ taken' = taken
      BY <3>1, ClientSteps
    <3>3. QED
      BY <2>1, <3>2 DEF QueuesInv, Queues!serverVars
  <2>2. ASSUME NEW c \in Clients, Queues!Accept(c) \/ Queues!Detach(c) PROVE QueuesInv'
    BY <2>2 DEF Queues!Accept, Queues!Detach, QueuesInv, NetTypeOK, Queues!serverVars
  <2>3. CASE UNCHANGED Queues!vars
    BY <2>3 DEF Queues!vars, Queues!netVars, Queues!serverVars, QueuesInv, NetTypeOK
  <2>4. CASE Queues!Next
    BY <2>1, <2>2, <2>4, QueuesTake, QueuesPoll, QueuesAdd, QueuesWrite, QueuesWriteFails
      DEF Queues!Next, Queues!ServerStep, Queues!WorkerStep
  <2>5. QED
    BY <2>3, <2>4, QueuesSteps
<1>3. QED
  BY <1>1, <1>2, PTL DEF Spec

LEMMA QueuesOneBuffer == ASSUME QueuesInv PROVE Queues!OneBufferUnderWay
<1> SUFFICES ASSUME NEW c \in Clients
             PROVE  /\ Queues!UnderWay(c) <= 1
                    /\ Queues!UnderWay(c) = 1 => stage[c] = "write"
                    /\ queue[c] # <<>> <=> c \in Queues!Range(tasks)
  BY DEF Queues!OneBufferUnderWay
<1>1. Flow(stage[c], queue[c], outQueue[c], echoed[c], taken[c], Holders(inHand, c))
  BY DEF QueuesInv
<1>2. Cardinality(Holders(inHand, c)) = IF Holders(inHand, c) = {} THEN 0 ELSE 1
  <2>1. \A v, w \in Holders(inHand, c) : v = w
    BY <1>1 DEF Flow
  <2>2. QED
    BY <2>1, CountsOnce
<1>3. Queues!UnderWay(c) = Len(queue[c]) + Len(outQueue[c]) + Cardinality(Holders(inHand, c))
  BY DEF Queues!UnderWay, Queues!Cardinality, Cardinality, Holders
<1>4. /\ queue[c] = <<>> => Len(queue[c]) = 0
      /\ queue[c] # <<>> => Len(queue[c]) = 1 /\ outQueue[c] = <<>> /\ Holders(inHand, c) = {}
      /\ outQueue[c] = <<>> => Len(outQueue[c]) = 0
      /\ outQueue[c] # <<>> => Len(outQueue[c]) = 1 /\ Holders(inHand, c) = {}
  <2>1. queue[c] = <<>> \/ queue[c] = <<Due(echoed[c], taken[c])>>
    BY <1>1 DEF Flow
  <2>2. outQueue[c] = <<>> \/ outQueue[c] = <<Due(echoed[c], taken[c])>>
    BY <1>1 DEF Flow
  <2>3. Len(<<>>) = 0
    OBVIOUS
  <2>4. queue[c] # <<>> => outQueue[c] = <<>> /\ Holders(inHand, c) = {}
    BY <1>1 DEF Flow
  <2>5. outQueue[c] # <<>> => Holders(inHand, c) = {}
    BY <1>1 DEF Flow
  <2>6. QED
    BY <2>1, <2>2, <2>3, <2>4, <2>5, SingleBuffer
<1>5. /\ Queues!UnderWay(c) <= 1
      /\ Queues!UnderWay(c) = 1 => queue[c] # <<>> \/ outQueue[c] # <<>> \/ Holders(inHand, c) # {}
  <2>1. CASE queue[c] # <<>>
    <3>1. Queues!UnderWay(c) = 1 + 0 + 0
      BY <1>2, <1>3, <1>4, <2>1, Zenon
    <3>2. QED
      BY <2>1, <3>1
  <2>2. CASE queue[c] = <<>> /\ outQueue[c] # <<>>
    <3>1. Queues!UnderWay(c) = 0 + 1 + 0
      BY <1>2, <1>3, <1>4, <2>2, Zenon
    <3>2. QED
      BY <2>2, <3>1
  <2>3. CASE queue[c] = <<>> /\ outQueue[c] = <<>> /\ Holders(inHand, c) # {}
    <3>1. Queues!UnderWay(c) = 0 + 0 + 1
      BY <1>2, <1>3, <1>4, <2>3, Zenon
    <3>2. QED
      BY <2>3, <3>1
  <2>4. CASE queue[c] = <<>> /\ outQueue[c] = <<>> /\ Holders(inHand, c) = {}
    <3>1. Queues!UnderWay(c) = 0 + 0 + 0
      BY <1>2, <1>3, <1>4, <2>4, Zenon
    <3>2. QED
      BY <3>1
  <2>5. QED
    BY <2>1, <2>2, <2>3, <2>4
<1>6. Queues!UnderWay(c) = 1 => stage[c] = "write"
  <2>1. Queues!UnderWay(c) = 1 => queue[c] # <<>> \/ outQueue[c] # <<>> \/ Holders(inHand, c) # {}
    BY <1>5
  <2>2. QED
    BY <1>1, <2>1 DEF Flow
<1>7. queue[c] # <<>> <=> c \in Queues!Range(tasks)
  <2>1. DOMAIN tasks = 1..Len(tasks)
    BY DEF QueuesInv, JobsMatch
  <2>2. QED
    BY <2>1 DEF QueuesInv, JobsMatch, Queues!Range
<1>8. QED
  BY <1>5, <1>6, <1>7

LEMMA QueuesInOrder == ASSUME QueuesInv PROVE Queues!EchoedInOrder
<1> SUFFICES ASSUME NEW c \in Clients, NEW i \in DOMAIN echoed[c] PROVE echoed[c][i] = i
  BY DEF Queues!EchoedInOrder
<1>1. echoed[c] \in Seq(1..Lines) /\ \A k \in 1..Len(echoed[c]) : echoed[c][k] = k
  BY DEF QueuesInv, Flow
<1>2. QED
  BY <1>1

LEMMA QueuesTypesOK == ASSUME QueuesInv PROVE Queues!TypeOK
<1>1. ASSUME NEW c \in Clients, Len(echoed[c]) < taken[c]
      PROVE  Due(echoed[c], taken[c]) \in Queues!Buffers
  <2>1. Len(echoed[c]) \in Nat /\ taken[c] \in 0..Lines /\ Lines \in Nat
    BY ServersAssumption DEF QueuesInv, NetTypeOK, Flow
  <2>2. Len(echoed[c]) + 1 \in 1..Lines /\ taken[c] \in 1..Lines
    BY <1>1, <2>1
  <2>3. QED
    BY <2>2 DEF Due, Queues!Buffers
<1>2. ASSUME NEW c \in Clients, NEW q \in {queue[c], outQueue[c]} PROVE q \in Seq(Queues!Buffers)
  <2>1. q = <<>> \/ (q = <<Due(echoed[c], taken[c])>> /\ Len(echoed[c]) < taken[c])
    <3>1. q = <<>> \/ q = <<Due(echoed[c], taken[c])>>
      BY DEF QueuesInv, Flow
    <3>2. q # <<>> => Len(echoed[c]) < taken[c]
      BY DEF QueuesInv, Flow
    <3>3. QED
      BY <3>1, <3>2
  <2>2. CASE q = <<>>
    BY <2>2
  <2>3. CASE q = <<Due(echoed[c], taken[c])>> /\ Len(echoed[c]) < taken[c]
    BY <1>1, <2>3
  <2>4. QED
    BY <2>1, <2>2, <2>3
<1>3. ASSUME NEW w \in Workers
      PROVE  inHand[w] \in [client : Clients, buffer : Queues!Buffers] \cup {Queues!NoJob}
  <2>1. ASSUME NEW c \in Clients, inHand[w] = [client |-> c, buffer |-> Due(echoed[c], taken[c])]
        PROVE  inHand[w] \in [client : Clients, buffer : Queues!Buffers]
    <3>1. w \in Holders(inHand, c)
      BY <2>1 DEF Holders
    <3>2. Len(echoed[c]) < taken[c]
      BY <3>1 DEF QueuesInv, Flow
    <3>3. QED
      BY <1>1, <2>1, <3>2
  <2>2. QED
    BY <2>1 DEF QueuesInv, HandsMatch
<1>4. \A c \in Clients : echoed[c] \in Seq(1..Lines) /\ stage[c] \in {"read", "write"}
  BY DEF QueuesInv, Flow
<1>5. tasks \in Seq(Clients)
  BY DEF QueuesInv, JobsMatch
<1>6. QED
  <2>1. inHand \in [Workers -> [client : Clients, buffer : Queues!Buffers] \cup {Queues!NoJob}]
    BY <1>3 DEF QueuesInv, HandsMatch
  <2>2. stage \in [Clients -> {"read", "write"}]
    BY <1>4 DEF QueuesInv
  <2>3. Queues!NetTypeOK
    BY DEF QueuesInv, NetTypeOK, Queues!NetTypeOK
  <2>4. QED
    BY <1>2, <1>4, <1>5, <2>1, <2>2, <2>3 DEF Queues!TypeOK

-----------------------------------------------------------------------------
(* EchoReactor.java.                                                       *)

\* A message with the lines up to u is on its way to client c, or has come: e are
\* the messages written, q those of the tasks, h those of the workers.
Messaged(u, c, e, q, h) == \/ u \in e[c]
                           \/ \E i \in 1..Len(q) : q[i].client = c /\ q[i].upTo = u
                           \/ \E w \in Workers : h[w].client = c /\ h[w].upTo = u

ReactorTyped == /\ Reactor!TypeOK
                /\ taken \in [Clients -> Nat]
                /\ NotYetRead /\ ClosedAtEnd
                /\ \A c \in Clients : c \in queue => conn[c] = "open"

Heard == \A c \in Clients : taken[c] > 0 => \/ Messaged(taken[c], c, echoed, tasks, inHand)
                                            \/ c \in hungUp

ReactorInv == ReactorTyped /\ Heard

LEMMA ReactorUpTo ==
  ASSUME ReactorTyped, NEW c \in Clients, NEW u
  PROVE  u \in Reactor!UpTo(c) <=> Messaged(u, c, echoed, tasks, inHand)
<1>1. DOMAIN tasks = 1..Len(tasks)
  BY DEF ReactorTyped, Reactor!TypeOK
<1>2. QED
  BY <1>1 DEF Reactor!UpTo, Messaged

LEMMA ReactorClients ==
  ASSUME ReactorInv, NEW c \in Clients, Reactor!ClientStep(c), UNCHANGED Reactor!serverVars
  PROVE  ReactorInv'
<1> USE DEF ReactorInv, ReactorTyped, Reactor!TypeOK, Reactor!NetTypeOK, Reactor!serverVars
<1>0. FewerLines \in Nat
  BY ServersAssumption
<1>1. Reactor!NetTypeOK' /\ taken' = taken
  <2>1. CASE Reactor!Connect(c)
    BY <2>1 DEF Reactor!Connect
  <2>2. CASE Reactor!Send(c)
    <3>1. sent[c] + 1 \in 0..FewerLines /\ taken[c] \in 0..(sent[c] + 1)
      BY <1>0, <2>2 DEF Reactor!Send
    <3>2. QED
      BY <2>2, <3>1 DEF Reactor!Send
  <2>3. CASE Reactor!HangUp(c)
    BY <2>3 DEF Reactor!HangUp
  <2>4. QED
    BY <2>1, <2>2, <2>3 DEF Reactor!ClientStep
<1>2. NotYetRead' /\ ClosedAtEnd' /\ hungUp \subseteq hungUp'
  BY DEF Reactor!ClientStep, Reactor!Connect, Reactor!Send, Reactor!HangUp, NotYetRead, ClosedAtEnd
<1>3. \A d \in Clients : d \in queue => conn'[d] = "open"
  BY DEF Reactor!ClientStep, Reactor!Connect, Reactor!Send, Reactor!HangUp
<1>4. ReactorTyped'
  BY <1>1, <1>2, <1>3
<1>5. Heard'
  BY <1>1, <1>2 DEF Heard
<1>6. QED
  BY <1>4, <1>5

LEMMA ReactorSelects ==
  ASSUME ReactorInv, Reactor!Select \/ Reactor!Accept \/ Reactor!AcceptFails PROVE ReactorInv'
<1> USE DEF ReactorInv, ReactorTyped, Reactor!TypeOK, Reactor!NetTypeOK
<1>1. CASE Reactor!Select
  <2>1. /\ stage' \subseteq Clients \cup {"acceptor"} /\ queue' = stage'
        /\ \A c \in Clients : c \in queue' => conn[c] = "open"
    BY <1>1, ServersAssumption DEF Reactor!Select, Reactor!Readable, Reactor!Pending
  <2>2. UNCHANGED <<conn, sent, taken, hungUp, tasks, inHand, running, dead, echoed>>
    BY <1>1 DEF Reactor!Select, Reactor!netVars
  <2>3. QED
    BY <2>1, <2>2 DEF Heard, NotYetRead, ClosedAtEnd
<1>2. CASE Reactor!Accept
  <2>1. /\ queue' \subseteq queue
        /\ \/ conn' = conn
           \/ \E c \in Clients : conn[c] = "pending" /\ conn' = [conn EXCEPT ![c] = "open"]
        /\ UNCHANGED <<sent, taken, hungUp, stage, tasks, inHand, running, dead, echoed>>
    BY <1>2 DEF Reactor!Accept, Reactor!Pending
  <2>2. /\ conn' \in [Clients -> {"none", "pending", "open", "closed"}]
        /\ \A c \in Clients : conn'[c] = conn[c] \/ (conn[c] = "pending" /\ conn'[c] = "open")
    BY <2>1
  <2>3. NotYetRead' /\ ClosedAtEnd' /\ \A c \in Clients : c \in queue' => conn'[c] = "open"
    BY <2>1, <2>2 DEF NotYetRead, ClosedAtEnd
  <2>4. QED
    BY <2>1, <2>2, <2>3 DEF Heard
<1>3. CASE Reactor!AcceptFails
  BY <1>3 DEF Reactor!AcceptFails, Reactor!netVars, Heard, NotYetRead, ClosedAtEnd
<1>4. QED
  BY <1>1, <1>2, <1>3

LEMMA ReactorReads == ASSUME ReactorInv, NEW c \in Clients, Reactor!Read(c) PROVE ReactorInv'
<1>t. /\ ReactorTyped /\ Heard /\ Reactor!TypeOK /\ FewerLines \in Nat /\ tasks \in Seq(Reactor!Tasks)
      /\ taken \in [Clients -> Nat] /\ taken[c] \in 0..sent[c] /\ sent[c] \in 0..FewerLines
      /\ conn \in [Clients -> {"none", "pending", "open", "closed"}]
      /\ echoed \in [Clients -> SUBSET (0..FewerLines)]
  BY ServersAssumption DEF ReactorInv, ReactorTyped, Reactor!TypeOK, Reactor!NetTypeOK
<1>1. PICK n \in Reactor!Unread(c) \cup {taken[c]} :
        /\ taken' = [taken EXCEPT ![c] = n]
        /\ tasks' = Append(tasks, [client |-> c, upTo |-> n])
        /\ conn' = [conn EXCEPT ![c] = IF n = taken[c] /\ c \in hungUp THEN "closed" ELSE conn[c]]
  BY DEF Reactor!Read, Reactor!Incoming
<1>2. /\ c \in queue /\ queue' = queue \ {c}
      /\ UNCHANGED <<sent, hungUp, stage, inHand, running, dead, echoed>>
  BY DEF Reactor!Read
<1>3. n \in 0..sent[c] /\ n \in Nat /\ n \in 0..FewerLines
  BY <1>1, <1>t DEF Reactor!Unread
<1>4. conn[c] = "open"
  BY <1>2, <1>t DEF ReactorTyped
<1>5. /\ conn' \in [Clients -> {"none", "pending", "open", "closed"}]
      /\ conn'[c] \in {"open", "closed"} /\ (conn'[c] = "closed" => c \in hungUp)
      /\ \A d \in Clients : d # c => conn'[d] = conn[d] /\ taken'[d] = taken[d]
      /\ taken' \in [Clients -> Nat] /\ taken'[c] = n
  BY <1>t, <1>1, <1>3, <1>4
<1>6. [client |-> c, upTo |-> n] \in Reactor!Tasks
  BY <1>3 DEF Reactor!Tasks
<1>7. /\ tasks' \in Seq(Reactor!Tasks) /\ Len(tasks) \in Nat /\ Len(tasks') = Len(tasks) + 1
      /\ tasks'[Len(tasks) + 1] = [client |-> c, upTo |-> n]
      /\ \A i \in 1..Len(tasks) : tasks'[i] = tasks[i]
  BY <1>t, <1>1, <1>6, AppendProperties
<1>8. ReactorTyped'
  <2>1. Reactor!NetTypeOK'
    BY <1>t, <1>2, <1>3, <1>5 DEF Reactor!TypeOK, Reactor!NetTypeOK
  <2>2. Reactor!TypeOK'
    BY <1>t, <1>2, <1>7, <2>1 DEF Reactor!TypeOK
  <2>3. NotYetRead' /\ ClosedAtEnd' /\ \A d \in Clients : d \in queue' => conn'[d] = "open"
    BY <1>t, <1>2, <1>5 DEF ReactorTyped, NotYetRead, ClosedAtEnd
  <2>4. QED
    BY <1>5, <2>2, <2>3 DEF ReactorTyped
<1>9. Messaged(n, c, echoed, tasks', inHand)
  <2>1. Len(tasks) + 1 \in 1..Len(tasks')
    BY <1>7
  <2>2. QED
    BY <1>7, <2>1 DEF Messaged
<1>10. ASSUME NEW d \in Clients, NEW u, Messaged(u, d, echoed, tasks, inHand)
       PROVE  Messaged(u, d, echoed, tasks', inHand)
  <2>1. \A i \in 1..Len(tasks) : i \in 1..Len(tasks') /\ tasks'[i] = tasks[i]
    BY <1>7
  <2>2. QED
    BY <1>10, <2>1 DEF Messaged
<1>11. Heard'
  BY <1>t, <1>2, <1>5, <1>9, <1>10 DEF Heard
<1>12. QED
  BY <1>8, <1>11 DEF ReactorInv

LEMMA ReactorPops == ASSUME ReactorInv, NEW w \in Workers, Reactor!Pop(w) PROVE ReactorInv'
<1>t. /\ ReactorTyped /\ Heard /\ Reactor!TypeOK /\ tasks \in Seq(Reactor!Tasks)
      /\ inHand \in [Workers -> Reactor!Tasks \cup {Reactor!NoTask}]
  BY DEF ReactorInv, ReactorTyped, Reactor!TypeOK
<1>1. /\ tasks # <<>> /\ inHand[w] = Reactor!NoTask
      /\ inHand' = [inHand EXCEPT ![w] = tasks[Len(tasks)]] /\ Popped(tasks, tasks')
      /\ UNCHANGED <<conn, sent, taken, hungUp, stage, queue, running, dead, echoed>>
  BY DEF Reactor!Pop, Reactor!netVars, Popped
<1>2. /\ tasks' \in Seq(Reactor!Tasks) /\ Len(tasks') = Len(tasks) - 1 /\ Len(tasks) \in 1..Len(tasks)
      /\ \A j \in 1..Len(tasks') : j < Len(tasks) /\ tasks'[j] = tasks[j]
  BY <1>t, <1>1, PoppedSeq
<1>3. tasks[Len(tasks)] \in Reactor!Tasks
  BY <1>t, <1>2, ElementOfSeq
<1>4. ReactorTyped'
  BY <1>t, <1>1, <1>2, <1>3 DEF ReactorTyped, Reactor!TypeOK, Reactor!NetTypeOK, NotYetRead, ClosedAtEnd
<1>5. ASSUME NEW d \in Clients, NEW u, Messaged(u, d, echoed, tasks, inHand)
      PROVE  Messaged(u, d, echoed, tasks', inHand')
  <2>1. inHand'[w] = tasks[Len(tasks)] /\ \A v \in Workers : v # w => inHand'[v] = inHand[v]
    BY <1>t, <1>1
  <2>2. CASE u \in echoed[d]
    BY <2>2 DEF Messaged
  <2>3. ASSUME NEW i \in 1..Len(tasks), tasks[i].client = d, tasks[i].upTo = u
        PROVE  Messaged(u, d, echoed, tasks', inHand')
    <3>1. CASE i = Len(tasks)
      BY <2>1, <2>3, <3>1 DEF Messaged
    <3>2. CASE i # Len(tasks)
      <4>1. i \in 1..Len(tasks')
        BY <1>2, <3>2
      <4>2. QED
        BY <1>2, <2>3, <4>1 DEF Messaged
    <3>3. QED
      BY <3>1, <3>2
  <2>4. ASSUME NEW v \in Workers, inHand[v].client = d, inHand[v].upTo = u
        PROVE  Messaged(u, d, echoed, tasks', inHand')
    <3>1. v # w
      BY <1>1, <2>4, ServersAssumption DEF Reactor!NoTask
    <3>2. QED
      BY <2>1, <2>4, <3>1 DEF Messaged
  <2>5. QED
    BY <1>5, <2>2, <2>3, <2>4 DEF Messaged
<1>6. Heard'
  BY <1>t, <1>1, <1>5 DEF Heard
<1>7. QED
  BY <1>4, <1>6 DEF ReactorInv

LEMMA ReactorExecutes == ASSUME ReactorInv, NEW w \in Workers, Reactor!Execute(w) PROVE ReactorInv'
<1>t. /\ ReactorTyped /\ Heard /\ Reactor!TypeOK
      /\ inHand \in [Workers -> Reactor!Tasks \cup {Reactor!NoTask}]
      /\ echoed \in [Clients -> SUBSET (0..FewerLines)]
  BY DEF ReactorInv, ReactorTyped, Reactor!TypeOK
<1>1. /\ inHand[w] \in Reactor!Tasks
      /\ echoed' = IF conn[inHand[w].client] = "open"
                   THEN [echoed EXCEPT ![inHand[w].client] = @ \cup {inHand[w].upTo}] ELSE echoed
      /\ inHand' = [inHand EXCEPT ![w] = Reactor!NoTask]
      /\ UNCHANGED <<conn, sent, taken, hungUp, stage, queue, tasks, running, dead>>
  BY <1>t DEF Reactor!Execute, Reactor!netVars
<1>2. PICK c \in Clients, n \in 0..FewerLines : inHand[w].client = c /\ inHand[w].upTo = n
  BY <1>1 DEF Reactor!Tasks
<1>3. /\ echoed' \in [Clients -> SUBSET (0..FewerLines)]
      /\ \A d \in Clients : echoed[d] \subseteq echoed'[d]
      /\ conn[c] = "open" => n \in echoed'[c]
  BY <1>t, <1>1, <1>2
<1>4. inHand' \in [Workers -> Reactor!Tasks \cup {Reactor!NoTask}]
      /\ \A v \in Workers : v # w => inHand'[v] = inHand[v]
  BY <1>t, <1>1
<1>5. ReactorTyped'
  BY <1>t, <1>1, <1>3, <1>4 DEF ReactorTyped, Reactor!TypeOK, Reactor!NetTypeOK, NotYetRead, ClosedAtEnd
<1>6. ASSUME NEW d \in Clients, taken[d] > 0, Messaged(taken[d], d, echoed, tasks, inHand)
      PROVE  Messaged(taken[d], d, echoed', tasks, inHand') \/ d \in hungUp
  <2>1. CASE taken[d] \in echoed[d]
    BY <1>3, <2>1 DEF Messaged
  <2>2. ASSUME NEW v \in Workers, inHand[v].client = d, inHand[v].upTo = taken[d]
        PROVE  Messaged(taken[d], d, echoed', tasks, inHand') \/ d \in hungUp
    <3>1. CASE v # w
      BY <1>4, <2>2, <3>1 DEF Messaged
    <3>2. CASE v = w /\ conn[c] = "open"
      BY <1>2, <1>3, <2>2, <3>2 DEF Messaged
    <3>3. CASE v = w /\ conn[c] # "open"
      <4>1. conn[d] \in {"none", "pending"} => taken[d] = 0
        BY <1>t DEF ReactorTyped, NotYetRead
      <4>2. c = d /\ taken[d] # 0
        BY <1>2, <1>6, <2>2, <3>3
      <4>3. conn[d] = "closed"
        BY <1>t, <3>3, <4>1, <4>2 DEF Reactor!TypeOK, Reactor!NetTypeOK
      <4>4. QED
        BY <1>t, <4>3 DEF ReactorTyped, ClosedAtEnd
    <3>4. QED
      BY <3>1, <3>2, <3>3
  <2>3. QED
    BY <1>6, <2>1, <2>2 DEF Messaged
<1>7. Heard'
  BY <1>t, <1>1, <1>3, <1>6 DEF Heard
<1>8. QED
  BY <1>5, <1>7 DEF ReactorInv

LEMMA ReactorStarts == ASSUME Reactor!Init PROVE ReactorInv
<1> USE DEF Reactor!Init, Reactor!NetInit
<1>1. Reactor!NetTypeOK
  <2>1. FewerLines \in Nat /\ 0 \in 0..FewerLines /\ 0 \in 0..0
    BY ServersAssumption
  <2>2. QED
    BY <2>1 DEF Reactor!NetTypeOK
<1>2. tasks \in Seq(Reactor!Tasks)
  OBVIOUS
<1>3. Reactor!TypeOK
  BY <1>1, <1>2 DEF Reactor!TypeOK
<1>4. QED
  BY <1>3 DEF ReactorInv, ReactorTyped, Heard, NotYetRead, ClosedAtEnd

\* EchoReactor: the key of a round belongs to an open connection, and what has been
\* read of a client is in the last message made for it, which is not lost on its way.
THEOREM ReactorInvariance == Spec => [](program = "reactor" => ReactorInv)
<1>1. Init => (program = "reactor" => ReactorInv)
  BY ReactorStarts DEF Init
<1>2. (program = "reactor" => ReactorInv) /\ [Next]_vars
      => (program = "reactor" => ReactorInv)'
  <2> SUFFICES ASSUME ReactorInv, program = "reactor", [Next]_vars PROVE ReactorInv'
    BY SameProgram
  <2>1. ASSUME NEW w \in Workers, Reactor!Leave(w) PROVE ReactorInv'
    BY <2>1 DEF Reactor!Leave, Reactor!netVars, ReactorInv, ReactorTyped, Reactor!TypeOK,
      Reactor!NetTypeOK, Heard, NotYetRead, ClosedAtEnd
  <2>2. CASE UNCHANGED Reactor!vars
    BY <2>2 DEF Reactor!vars, Reactor!netVars, Reactor!serverVars, ReactorInv, ReactorTyped,
      Reactor!TypeOK, Reactor!NetTypeOK, Heard, NotYetRead, ClosedAtEnd
  <2>3. CASE Reactor!Next
    BY <2>1, <2>3, ReactorClients, ReactorSelects, ReactorReads, ReactorPops, ReactorExecutes
      DEF Reactor!Next, Reactor!LoopStep, Reactor!WorkerStep
  <2>4. QED
    BY <2>2, <2>3, ReactorSteps
<1>3. QED
  BY <1>1, <1>2, PTL DEF Spec

LEMMA ReactorHeard == ASSUME ReactorInv PROVE Reactor!LatestUnderWay /\ Reactor!TypeOK
BY ReactorUpTo DEF ReactorInv, ReactorTyped, Heard, Reactor!LatestUnderWay

-----------------------------------------------------------------------------
(* SampleReactor.                                                          *)

\* The tasks of the stack q that are for client c,
For(q, c) == {i \in 1..Len(q) : q[i] = c}

\* and the workers that are answering it.
Answering(h, c) == {w \in Workers : h[w] = c}

LEMMA Countable ==
  ASSUME NEW q, Len(q) \in Nat, NEW h, NEW c
  PROVE  /\ IsFiniteSet(For(q, c)) /\ Cardinality(For(q, c)) \in Nat
         /\ IsFiniteSet(Answering(h, c)) /\ Cardinality(Answering(h, c)) \in Nat
<1>1. IsFiniteSet(1..Len(q))
  BY FS_Interval
<1>2. For(q, c) \in SUBSET (1..Len(q))
  BY DEF For
<1>3. IsFiniteSet(For(q, c))
  BY <1>1, <1>2, FS_Subset
<1>4. Answering(h, c) \in SUBSET Workers /\ IsFiniteSet(Workers)
  BY ServersAssumption DEF Answering
<1>5. IsFiniteSet(Answering(h, c))
  BY <1>4, FS_Subset
<1>6. QED
  BY <1>3, <1>5, FS_CardinalityType

\* As many tasks as there are messages join the stack.
Pushed(q, n, c, q2) == q2 = q \o [i \in 1..n |-> c]

LEMMA TasksPushed ==
  ASSUME NEW q \in Seq(Clients), NEW n \in Nat, NEW c \in Clients, NEW d,
         NEW q2, Pushed(q, n, c, q2)
  PROVE  /\ q2 \in Seq(Clients)
         /\ Cardinality(For(q2, d)) = Cardinality(For(q, d)) + (IF d = c THEN n ELSE 0)
<1> DEFINE m == Len(q)
           s == [i \in 1..n |-> c]
           New == (m + 1)..(m + n)
<1>1. m \in Nat
  OBVIOUS
<1>2. s \in Seq(Clients) /\ Len(s) = n
  <2>1. s \in [1..n -> Clients]
    OBVIOUS
  <2>2. QED
    BY <2>1, FunctionIsSequence
<1>3. \A i \in 1..n : s[i] = c
  OBVIOUS
<1> HIDE DEF s
<1>4. /\ q2 \in Seq(Clients) /\ Len(q2) = m + n
      /\ \A i \in 1..(m + n) : q2[i] = IF i <= m THEN q[i] ELSE s[i - m]
  <2>1. q2 = q \o s
    BY DEF s, Pushed
  <2>2. QED
    BY <1>1, <1>2, <2>1
<1>5. \A i \in 1..(m + n) : IF i \in 1..m THEN q2[i] = q[i] ELSE i \in New /\ q2[i] = c
  <2>1. ASSUME NEW i \in 1..(m + n), i \notin 1..m PROVE i \in New /\ ~(i <= m) /\ i - m \in 1..n
    BY <1>1, <2>1
  <2>2. QED
    BY <1>1, <1>3, <1>4, <2>1
<1>6. New \subseteq 1..(m + n) /\ 1..m \subseteq 1..(m + n) /\ New \cap 1..m = {}
  BY <1>1
<1>7. IsFiniteSet(New) /\ Cardinality(New) = n
  <2>1. m + 1 \in Int /\ m + n \in Int /\ (m + 1 > m + n <=> n = 0) /\ (m + n) - (m + 1) + 1 = n
    BY <1>1
  <2>2. QED
    BY <2>1, FS_Interval
<1> HIDE DEF New
<1>8. IsFiniteSet(For(q, d)) /\ Cardinality(For(q, d)) \in Nat
  BY <1>1, Countable
<1>9. CASE d = c
  <2>1. For(q2, d) = For(q, d) \cup New
    BY <1>4, <1>5, <1>6, <1>9 DEF For
  <2>2. For(q, d) \cap New = {}
    BY <1>6 DEF For
  <2>3. Cardinality(For(q, d) \cup New)
          = Cardinality(For(q, d)) + Cardinality(New) - Cardinality(For(q, d) \cap New)
    BY <1>7, <1>8, FS_Union
  <2>4. Cardinality({}) = 0
    BY FS_EmptySet
  <2>5. Cardinality(For(q2, d)) = Cardinality(For(q, d)) + Cardinality(New) - 0
    BY <2>1, <2>2, <2>3, <2>4, Zenon
  <2>6. Cardinality(For(q2, d)) = Cardinality(For(q, d)) + n
    BY <1>7, <1>8, <2>5
  <2>7. QED
    BY <1>4, <1>9, <2>6
<1>10. CASE d # c
  <2>1. For(q2, d) = For(q, d)
    BY <1>4, <1>5, <1>6, <1>10 DEF For
  <2>2. QED
    BY <1>4, <1>8, <1>10, <2>1
<1>11. QED
  BY <1>9, <1>10

\* The task that a worker pops is one less on the stack, and one more in hand.
LEMMA TaskPopped ==
  ASSUME NEW q \in Seq(Clients), q # <<>>, NEW q2, Popped(q, q2), NEW d \in Clients
  PROVE  Cardinality(For(q2, d)) = Cardinality(For(q, d)) - (IF d = q[Len(q)] THEN 1 ELSE 0)
<1>1. /\ q2 \in Seq(Clients) /\ Len(q2) = Len(q) - 1 /\ Len(q) \in 1..Len(q)
      /\ \A j \in 1..Len(q2) : j < Len(q) /\ q2[j] = q[j]
  BY PoppedSeq
<1>2. Len(q) \in Nat /\ 1..Len(q) = 1..Len(q2) \cup {Len(q)} /\ Len(q) \notin 1..Len(q2)
  BY <1>1
<1>3. For(q2, d) = For(q, d) \ {Len(q)}
  BY <1>1, <1>2 DEF For
<1>4. Len(q) \in For(q, d) <=> d = q[Len(q)]
  BY <1>1 DEF For
<1>5. IsFiniteSet(For(q, d)) /\ Cardinality(For(q, d)) \in Nat
  BY <1>2, Countable
<1>6. Cardinality(For(q, d) \ {Len(q)}) = IF Len(q) \in For(q, d) THEN Cardinality(For(q, d)) - 1
                                                                 ELSE Cardinality(For(q, d))
  BY <1>5, FS_RemoveElement
<1>7. QED
  BY <1>3, <1>4, <1>5, <1>6

\* Worker w turns from h[w] to x.
HandsOver(h, w, x, h2) == h2 = [h EXCEPT ![w] = x] /\ x # h[w]

LEMMA HandsChange ==
  ASSUME NEW h, DOMAIN h = Workers, NEW w \in Workers, NEW x, NEW h2, HandsOver(h, w, x, h2),
         NEW d \in Clients
  PROVE  Cardinality(Answering(h2, d)) = Cardinality(Answering(h, d))
           + (IF d = x THEN 1 ELSE 0) - (IF d = h[w] THEN 1 ELSE 0)
<1>1. IsFiniteSet(Answering(h, d)) /\ Cardinality(Answering(h, d)) \in Nat
  <2>1. Len(<<>>) \in Nat
    OBVIOUS
  <2>2. QED
    BY <2>1, Countable
<1>2. h2[w] = x /\ h[w] # x /\ \A v \in Workers : v # w => h2[v] = h[v]
  BY DEF HandsOver
<1>3. CASE d = x
  <2>1. Answering(h2, d) = Answering(h, d) \cup {w} /\ w \notin Answering(h, d)
    BY <1>2, <1>3 DEF Answering
  <2>2. Cardinality(Answering(h, d) \cup {w}) = Cardinality(Answering(h, d)) + 1
    BY <1>1, <2>1, FS_AddElement
  <2>3. Cardinality(Answering(h2, d)) = Cardinality(Answering(h, d)) + 1
    BY <2>1, <2>2, Zenon
  <2>4. (IF d = x THEN 1 ELSE 0) = 1 /\ (IF d = h[w] THEN 1 ELSE 0) = 0
    BY <1>2, <1>3
  <2>5. QED
    BY <1>1, <2>3, <2>4
<1>4. CASE d = h[w]
  <2>1. Answering(h2, d) = Answering(h, d) \ {w} /\ w \in Answering(h, d)
    BY <1>2, <1>4 DEF Answering
  <2>2. Cardinality(Answering(h, d) \ {w}) = Cardinality(Answering(h, d)) - 1
    BY <1>1, <2>1, FS_RemoveElement
  <2>3. Cardinality(Answering(h2, d)) = Cardinality(Answering(h, d)) - 1
    BY <2>1, <2>2, Zenon
  <2>4. (IF d = x THEN 1 ELSE 0) = 0 /\ (IF d = h[w] THEN 1 ELSE 0) = 1
    BY <1>2, <1>4
  <2>5. QED
    BY <1>1, <2>3, <2>4
<1>5. CASE d # x /\ d # h[w]
  <2>1. Answering(h2, d) = Answering(h, d)
    BY <1>2, <1>5 DEF Answering
  <2>2. QED
    BY <1>1, <1>5, <2>1
<1>6. QED
  BY <1>3, <1>4, <1>5

PoolTyped == /\ NetTypeOK
             /\ running \in {"run", "stuck", "off"}
             /\ tasks \in Seq(Clients)
             /\ inHand \in [Workers -> Clients \cup {Pool!Nobody}]
             /\ poolRuns \in BOOLEAN
             /\ dead \subseteq Workers
             /\ echoed \in [Clients -> Nat]
             /\ taken \in [Clients -> Nat]

\* The messages of client c that have got an answer or will, from what is answered,
\* what is on the stack and what is in hand.
Balance(e, q, h, c) == e[c] + Cardinality(For(q, c)) + Cardinality(Answering(h, c))

\* g are the clients that have hung up, s is the state of the reactor.
Balanced(e, q, h, r, g, s) ==
  \A c \in Clients : /\ Balance(e, q, h, c) <= r[c]
                     /\ Balance(e, q, h, c) = r[c] \/ c \in g \/ s = "off"

PoolInv == PoolTyped /\ Balanced(echoed, tasks, inHand, taken, hungUp, running)

LEMMA Counts ==
  ASSUME PoolTyped, NEW c \in Clients
  PROVE  /\ Cardinality(For(tasks, c)) \in Nat /\ Cardinality(Answering(inHand, c)) \in Nat
         /\ echoed[c] \in Nat /\ taken[c] \in Nat
         /\ Balance(echoed, tasks, inHand, c) \in Nat
<1>1. Len(tasks) \in Nat
  BY DEF PoolTyped
<1>2. Cardinality(For(tasks, c)) \in Nat /\ Cardinality(Answering(inHand, c)) \in Nat
  BY <1>1, Countable
<1>3. echoed[c] \in Nat /\ taken[c] \in Nat
  BY DEF PoolTyped
<1>4. QED
  BY <1>2, <1>3 DEF Balance

LEMMA PoolClients ==
  ASSUME PoolInv, NEW c \in Clients, Pool!ClientStep(c), UNCHANGED Pool!serverVars
  PROVE  PoolInv'
<1>1. ClientStep(c) /\ NetTypeOK
  BY DEF Pool!ClientStep, Pool!Connect, Pool!Send, Pool!HangUp, ClientStep, Connect, Send, HangUp,
    PoolInv, PoolTyped
<1>2. NetTypeOK' /\ taken' = taken /\ hungUp \subseteq hungUp'
  BY <1>1, ClientSteps
<1>3. PoolTyped'
  BY <1>2 DEF PoolInv, PoolTyped, Pool!serverVars
<1>4. Balanced(echoed', tasks', inHand', taken', hungUp', running')
  BY <1>2 DEF PoolInv, Balanced, Pool!serverVars
<1>5. QED
  BY <1>3, <1>4 DEF PoolInv

LEMMA PoolReads == ASSUME PoolInv, NEW c \in Clients, Pool!Read(c) PROVE PoolInv'
<1>t. /\ PoolTyped /\ Balanced(echoed, tasks, inHand, taken, hungUp, running)
      /\ tasks \in Seq(Clients) /\ Lines \in Nat
      /\ conn \in [Clients -> {"none", "pending", "open", "closed"}]
  BY ServersAssumption DEF PoolInv, PoolTyped, NetTypeOK
<1> DEFINE n == sent[c] - taken[c]
<1>0. n \in Nat /\ sent[c] \in Nat /\ taken[c] \in Nat /\ taken \in [Clients -> Nat]
  BY <1>t DEF PoolTyped, NetTypeOK
<1>1. /\ tasks' = tasks \o [i \in 1..n |-> c] /\ taken' = [taken EXCEPT ![c] = sent[c]]
      /\ conn' = conn \/ conn' = [conn EXCEPT ![c] = "closed"]
      /\ UNCHANGED <<sent, hungUp, running, inHand, poolRuns, dead, echoed>>
  BY DEF Pool!Read, Pool!NewTasks
<1>2. ASSUME NEW d \in Clients
      PROVE  /\ tasks' \in Seq(Clients)
             /\ Cardinality(For(tasks', d)) = Cardinality(For(tasks, d)) + (IF d = c THEN n ELSE 0)
  <2> HIDE DEF n
  <2>1. Pushed(tasks, n, c, tasks')
    BY <1>1 DEF Pushed
  <2>2. QED
    BY <1>t, <1>0, <2>1, TasksPushed
<1>3. PoolTyped'
  <2>1. taken' \in [Clients -> Nat] /\ \A d \in Clients : taken'[d] \in 0..sent[d]
    BY <1>t, <1>0, <1>1 DEF PoolTyped, NetTypeOK
  <2>2. conn' \in [Clients -> {"none", "pending", "open", "closed"}]
    BY <1>t, <1>1
  <2>3. QED
    BY <1>t, <1>1, <1>2, <2>1, <2>2 DEF PoolTyped, NetTypeOK
<1>4. ASSUME NEW d \in Clients
      PROVE  Balance(echoed, tasks', inHand, d) - taken'[d] = Balance(echoed, tasks, inHand, d) - taken[d]
  <2>1. taken'[d] = taken[d] + (IF d = c THEN n ELSE 0)
    BY <1>0, <1>1
  <2> HIDE DEF n
  <2>2. /\ Cardinality(For(tasks, d)) \in Nat /\ Cardinality(Answering(inHand, d)) \in Nat
        /\ echoed[d] \in Nat /\ taken[d] \in Nat
    BY <1>t, Counts
  <2>3. QED
    BY <1>0, <1>2, <2>1, <2>2 DEF Balance
<1>5. Balanced(echoed, tasks', inHand, taken', hungUp, running)
  <2>1. ASSUME NEW d \in Clients
        PROVE  /\ Balance(echoed, tasks', inHand, d) <= taken'[d]
               /\ Balance(echoed, tasks', inHand, d) = taken'[d] \/ d \in hungUp \/ running = "off"
    <3>1. /\ Balance(echoed, tasks, inHand, d) <= taken[d]
          /\ Balance(echoed, tasks, inHand, d) = taken[d] \/ d \in hungUp \/ running = "off"
      BY <1>t DEF Balanced
    <3>2. taken[d] \in Nat /\ taken'[d] \in Nat /\ Balance(echoed, tasks, inHand, d) \in Nat
      BY <1>t, <1>3, Counts DEF PoolTyped
    <3>3. Balance(echoed, tasks', inHand, d) \in Nat
      <4>1. /\ Cardinality(For(tasks', d)) \in Nat /\ Cardinality(Answering(inHand, d)) \in Nat
            /\ echoed[d] \in Nat
        <5>1. Cardinality(For(tasks, d)) \in Nat /\ Cardinality(Answering(inHand, d)) \in Nat
              /\ echoed[d] \in Nat
          BY <1>t, Counts
        <5> HIDE DEF n
        <5>2. QED
          BY <1>0, <1>2, <5>1
      <4>2. QED
        BY <4>1 DEF Balance
    <3>4. QED
      BY <1>4, <3>1, <3>2, <3>3
  <2>2. QED
    BY <2>1 DEF Balanced
<1>6. QED
  BY <1>1, <1>3, <1>5 DEF PoolInv

LEMMA PoolGets == ASSUME PoolInv, NEW w \in Workers, Pool!GetTask(w) PROVE PoolInv'
<1>t. PoolTyped /\ Balanced(echoed, tasks, inHand, taken, hungUp, running)
  BY DEF PoolInv
<1>1. /\ tasks # <<>> /\ inHand[w] = Pool!Nobody /\ Popped(tasks, tasks')
      /\ inHand' = [inHand EXCEPT ![w] = tasks[Len(tasks)]]
      /\ UNCHANGED <<conn, sent, taken, hungUp, running, poolRuns, dead, echoed>>
  BY DEF Pool!GetTask, Pool!Popped, Pool!netVars, Popped
<1>2. tasks \in Seq(Clients) /\ Pool!Nobody \notin Clients /\ DOMAIN inHand = Workers
  BY <1>t, ServersAssumption DEF PoolTyped, Pool!Nobody
<1>3. tasks' \in Seq(Clients) /\ tasks[Len(tasks)] \in Clients
  BY <1>1, <1>2, PoppedSeq, ElementOfSeq
<1>4. PoolTyped'
  BY <1>t, <1>1, <1>3 DEF PoolTyped, NetTypeOK
<1>5. ASSUME NEW d \in Clients
      PROVE  Balance(echoed, tasks', inHand', d) = Balance(echoed, tasks, inHand, d)
  <2>1. Cardinality(For(tasks', d)) = Cardinality(For(tasks, d)) - (IF d = tasks[Len(tasks)] THEN 1 ELSE 0)
    BY <1>1, <1>2, TaskPopped
  <2>2. Cardinality(Answering(inHand', d)) = Cardinality(Answering(inHand, d))
          + (IF d = tasks[Len(tasks)] THEN 1 ELSE 0) - (IF d = inHand[w] THEN 1 ELSE 0)
    <3>1. HandsOver(inHand, w, tasks[Len(tasks)], inHand')
      BY <1>1, <1>2, <1>3 DEF HandsOver
    <3>2. QED
      BY <1>2, <3>1, HandsChange
  <2>3. d # inHand[w]
    BY <1>1, <1>2
  <2>4. QED
    BY <1>t, <2>1, <2>2, <2>3, Counts DEF Balance
<1>6. Balanced(echoed, tasks', inHand', taken, hungUp, running)
  BY <1>t, <1>5 DEF Balanced
<1>7. QED
  BY <1>1, <1>4, <1>6 DEF PoolInv

LEMMA PoolAnswers ==
  ASSUME PoolInv, NEW w \in Workers, Pool!ExecuteTask(w) \/ Pool!TaskFails(w) PROVE PoolInv'
<1> DEFINE c == inHand[w]
<1>t. PoolTyped /\ Balanced(echoed, tasks, inHand, taken, hungUp, running)
  BY DEF PoolInv
<1>0. DOMAIN inHand = Workers /\ Pool!Nobody \notin Clients /\ c \in Clients /\ c # Pool!Nobody
  BY <1>t, ServersAssumption DEF PoolTyped, Pool!Nobody, Pool!ExecuteTask, Pool!TaskFails
<1>1. /\ inHand' = [inHand EXCEPT ![w] = Pool!Nobody]
      /\ conn' = conn \/ conn' = [conn EXCEPT ![c] = "closed"]
      /\ poolRuns' \in BOOLEAN
      /\ UNCHANGED <<sent, taken, hungUp, running, tasks, dead>>
  BY <1>t DEF Pool!ExecuteTask, Pool!TaskFails, Pool!netVars, PoolTyped
<1>2. \/ echoed' = [echoed EXCEPT ![c] = echoed[c] + 1]
      \/ echoed' = echoed /\ (c \in hungUp \/ running = "off")
  BY DEF Pool!ExecuteTask, Pool!TaskFails
<1> HIDE DEF c
<1>3. PoolTyped'
  <2>1. conn' \in [Clients -> {"none", "pending", "open", "closed"}]
    BY <1>t, <1>1 DEF PoolTyped, NetTypeOK
  <2>2. echoed' \in [Clients -> Nat]
    BY <1>t, <1>0, <1>2 DEF PoolTyped
  <2>3. inHand' \in [Workers -> Clients \cup {Pool!Nobody}]
    BY <1>t, <1>1 DEF PoolTyped
  <2>4. QED
    BY <1>t, <1>1, <2>1, <2>2, <2>3 DEF PoolTyped, NetTypeOK
<1>4. ASSUME NEW d \in Clients
      PROVE  /\ Balance(echoed', tasks, inHand', d) <= taken[d]
             /\ \/ Balance(echoed', tasks, inHand', d) = taken[d]
                \/ d \in hungUp \/ running = "off"
  <2>1. Cardinality(Answering(inHand', d)) = Cardinality(Answering(inHand, d))
          + (IF d = Pool!Nobody THEN 1 ELSE 0) - (IF d = inHand[w] THEN 1 ELSE 0)
    <3>1. HandsOver(inHand, w, Pool!Nobody, inHand')
      BY <1>0, <1>1 DEF c, HandsOver
    <3>2. QED
      BY <1>0, <3>1, HandsChange
  <2>2. d # Pool!Nobody
    BY <1>0
  <2>3. /\ Cardinality(For(tasks, d)) \in Nat /\ Cardinality(Answering(inHand, d)) \in Nat
        /\ echoed[d] \in Nat /\ taken[d] \in Nat
    BY <1>t, Counts
  <2>4. /\ echoed[d] + Cardinality(For(tasks, d)) + Cardinality(Answering(inHand, d)) <= taken[d]
        /\ \/ echoed[d] + Cardinality(For(tasks, d)) + Cardinality(Answering(inHand, d)) = taken[d]
           \/ d \in hungUp \/ running = "off"
    BY <1>t DEF Balanced, Balance
  <2>5. CASE d = c
    <3>1. Cardinality(Answering(inHand', d)) = Cardinality(Answering(inHand, d)) - 1
      BY <2>1, <2>2, <2>3, <2>5 DEF c
    <3>2. echoed'[d] = echoed[d] + 1 \/ (echoed'[d] = echoed[d] /\ (d \in hungUp \/ running = "off"))
      BY <1>t, <1>2, <2>5 DEF PoolTyped
    <3>3. QED
      BY <2>3, <2>4, <3>1, <3>2 DEF Balance
  <2>6. CASE d # c
    <3>1. Cardinality(Answering(inHand', d)) = Cardinality(Answering(inHand, d))
      BY <2>1, <2>2, <2>3, <2>6 DEF c
    <3>2. echoed'[d] = echoed[d]
      BY <1>t, <1>2, <2>6 DEF PoolTyped
    <3>3. QED
      BY <2>3, <2>4, <3>1, <3>2 DEF Balance
  <2>7. QED
    BY <2>5, <2>6
<1>5. Balanced(echoed', tasks, inHand', taken, hungUp, running)
  BY <1>4 DEF Balanced
<1>6. QED
  BY <1>1, <1>3, <1>5 DEF PoolInv

\* SampleReactor: the answers given, on the stack and in hand never exceed the messages
\* read, and fall short of them only for who has hung up, or when the reactor stops.
THEOREM PoolInvariance == Spec => [](program = "pool" => PoolInv)
<1>1. ASSUME Pool!Init PROVE PoolInv
  <2>1. /\ conn = [c \in Clients |-> "none"] /\ sent = [c \in Clients |-> 0]
        /\ taken = [c \in Clients |-> 0] /\ hungUp = {} /\ running = "run" /\ tasks = <<>>
        /\ inHand = [w \in Workers |-> Pool!Nobody] /\ poolRuns = TRUE /\ dead = {}
        /\ echoed = [c \in Clients |-> 0]
    BY <1>1 DEF Pool!Init, Pool!NetInit
  <2>2. PoolTyped
    BY <2>1, ServersAssumption DEF PoolTyped, NetTypeOK
  <2>3. ASSUME NEW c \in Clients PROVE Balance(echoed, tasks, inHand, c) = 0
    <3>1. For(tasks, c) = {} /\ Answering(inHand, c) = {}
      BY <2>1, ServersAssumption DEF For, Answering, Pool!Nobody
    <3>2. Cardinality(For(tasks, c)) = 0 /\ Cardinality(Answering(inHand, c)) = 0
      BY <3>1, FS_EmptySet, Zenon
    <3>3. QED
      BY <2>1, <3>2 DEF Balance
  <2>4. QED
    BY <2>1, <2>2, <2>3 DEF PoolInv, Balanced
<1>2. Init => (program = "pool" => PoolInv)
  BY <1>1 DEF Init
<1>3. (program = "pool" => PoolInv) /\ [Next]_vars => (program = "pool" => PoolInv)'
  <2> SUFFICES ASSUME PoolInv, program = "pool", [Next]_vars PROVE PoolInv'
    BY SameProgram
  <2>t. PoolTyped /\ Balanced(echoed, tasks, inHand, taken, hungUp, running)
    BY DEF PoolInv
  <2>1. ASSUME NEW c \in Clients, Pool!Accept(c) PROVE PoolInv'
    BY <2>1, <2>t DEF Pool!Accept, Pool!serverVars, PoolInv, PoolTyped, NetTypeOK
  <2>2. ASSUME NEW c \in Clients, Pool!AcceptFails(c) PROVE PoolInv'
    <3>1. PoolTyped'
      BY <2>2, <2>t DEF Pool!AcceptFails, Pool!netVars, PoolTyped, NetTypeOK
    <3>2. Balanced(echoed', tasks', inHand', taken', hungUp', running')
      BY <2>2, <2>t DEF Pool!AcceptFails, Pool!netVars, Balanced
    <3>3. QED
      BY <3>1, <3>2 DEF PoolInv
  <2>3. ASSUME NEW c \in Clients, Pool!ReadFails(c) PROVE PoolInv'
    <3>1. PoolTyped'
      BY <2>3, <2>t DEF Pool!ReadFails, PoolTyped, NetTypeOK
    <3>2. Balanced(echoed', tasks', inHand', taken', hungUp', running')
      BY <2>3, <2>t DEF Pool!ReadFails, Balanced
    <3>3. QED
      BY <3>1, <3>2 DEF PoolInv
  <2>4. ASSUME NEW w \in Workers, Pool!Leave(w) PROVE PoolInv'
    BY <2>4, <2>t DEF Pool!Leave, Pool!netVars, PoolInv, PoolTyped, NetTypeOK
  <2>5. CASE UNCHANGED Pool!vars
    BY <2>5 DEF Pool!vars, Pool!netVars, Pool!serverVars, PoolInv, PoolTyped, NetTypeOK
  <2>6. CASE Pool!Next
    BY <2>1, <2>2, <2>3, <2>4, <2>6, PoolClients, PoolReads, PoolGets, PoolAnswers
      DEF Pool!Next, Pool!ServerStep, Pool!Failure, Pool!WorkerStep
  <2>7. QED
    BY <2>5, <2>6, PoolSteps
<1>4. QED
  BY <1>2, <1>3, PTL DEF Spec

LEMMA PoolMessages == ASSUME PoolInv PROVE Pool!MessagesAccounted
<1>1. ASSUME NEW c \in Clients
      PROVE  /\ echoed[c] + Pool!Owed(c) <= taken[c]
             /\ echoed[c] + Pool!Owed(c) = taken[c] \/ c \in hungUp \/ running = "off"
  <2>1. /\ Balance(echoed, tasks, inHand, c) <= taken[c]
        /\ Balance(echoed, tasks, inHand, c) = taken[c] \/ c \in hungUp \/ running = "off"
    BY DEF PoolInv, Balanced
  <2>2. PoolTyped
    BY DEF PoolInv
  <2>3. Pool!Owed(c) = Cardinality(For(tasks, c)) + Cardinality(Answering(inHand, c))
    <3>1. DOMAIN tasks = 1..Len(tasks)
      BY <2>2 DEF PoolTyped
    <3>2. QED
      BY <3>1 DEF Pool!Owed, Pool!Cardinality, Cardinality, For, Answering
  <2>4. Balance(echoed, tasks, inHand, c) = echoed[c] + Pool!Owed(c)
    BY <2>2, <2>3, Counts DEF Balance
  <2>5. QED
    BY <2>1, <2>4
<1>2. QED
  BY <1>1 DEF Pool!MessagesAccounted

LEMMA PoolTypesOK == ASSUME PoolInv PROVE Pool!TypeOK
<1>t. PoolTyped
  BY DEF PoolInv
<1>1. ASSUME NEW c \in Clients PROVE echoed[c] \in 0..Lines
  <2>1. /\ Cardinality(For(tasks, c)) \in Nat /\ Cardinality(Answering(inHand, c)) \in Nat
        /\ echoed[c] \in Nat
    BY <1>t, Counts
  <2>2. echoed[c] + Cardinality(For(tasks, c)) + Cardinality(Answering(inHand, c)) <= taken[c]
    BY DEF PoolInv, Balanced, Balance
  <2>3. taken[c] \in 0..sent[c] /\ sent[c] \in 0..Lines /\ Lines \in Nat
    BY <1>t, ServersAssumption DEF PoolTyped, NetTypeOK
  <2>4. QED
    BY <2>1, <2>2, <2>3
<1>2. echoed \in [Clients -> 0..Lines]
  BY <1>1, <1>t DEF PoolTyped
<1>3. QED
  BY <1>2, <1>t DEF PoolTyped, NetTypeOK, Pool!TypeOK, Pool!NetTypeOK

-----------------------------------------------------------------------------
(* SimpleServer.java, and PA3/Server.java, which closes what it has served. *)

SimpleTyped == /\ NetTypeOK
               /\ running \in BOOLEAN
               /\ stage \subseteq Clients
               /\ echoed \subseteq Clients
               /\ DOMAIN taken = Clients

\* Who is served is connected and has no answer yet; who has one was accepted.
SimpleInv == /\ SimpleTyped
             /\ \A c \in stage : c \notin echoed /\ conn[c] = "open"
             /\ \A c, d \in stage : c = d
             /\ \A c \in echoed : conn[c] \in {"open", "closed"}

LEMMA SimpleKeeps == ASSUME SimpleInv, Simple!Next \/ Closing!Next PROVE SimpleInv'
<1> USE DEF SimpleInv, SimpleTyped, NetTypeOK
<1>0. Lines \in Nat
  BY ServersAssumption
<1>1. ASSUME NEW c \in Clients, Simple!ClientStep(c) \/ Closing!ClientStep(c),
             UNCHANGED <<running, stage, echoed>>
      PROVE  SimpleInv'
  <2>1. ClientStep(c)
    BY <1>1 DEF Simple!ClientStep, Simple!Connect, Simple!Send, Simple!HangUp,
      Closing!ClientStep, Closing!Connect, Closing!Send, Closing!HangUp,
      ClientStep, Connect, Send, HangUp
  <2>2. /\ NetTypeOK' /\ taken' = taken
        /\ \A d \in Clients : conn'[d] = conn[d] \/ (conn[d] = "none" /\ conn'[d] = "pending")
    <3> HIDE DEF NetTypeOK
    <3>1. NetTypeOK
      BY DEF SimpleInv, SimpleTyped
    <3>2. QED
      BY <2>1, <3>1, ClientSteps
  <2>3. QED
    BY <1>1, <2>2
<1>2. ASSUME NEW c \in Clients, Simple!Accept(c) \/ Closing!Accept(c) PROVE SimpleInv'
  <2>1. /\ stage = {} /\ conn[c] = "pending" /\ stage' = {c}
        /\ conn' = [conn EXCEPT ![c] = "open"]
        /\ UNCHANGED <<sent, taken, hungUp, running, echoed>>
    BY <1>2 DEF Simple!Accept, Closing!Accept, Simple!Idle, Closing!Idle
  <2>2. c \notin echoed
    BY <2>1
  <2>3. QED
    BY <2>1, <2>2
<1>3. ASSUME NEW c \in Clients, Simple!Serve(c) \/ Closing!Serve(c) PROVE SimpleInv'
  <2>1. /\ c \in stage /\ stage' = stage \ {c}
        /\ conn' = conn \/ conn' = [conn EXCEPT ![c] = "closed"]
        /\ echoed' = echoed \/ echoed' = echoed \cup {c}
        /\ taken' = taken \/ (taken' = [taken EXCEPT ![c] = @ + 1] /\ taken[c] + 1 \in 0..sent[c])
        /\ UNCHANGED <<sent, hungUp, running>>
    <3>1. (taken[c] + 1)..sent[c] # {} => taken[c] + 1 \in 0..sent[c]
      BY <1>0
    <3>2. QED
      BY <1>3, <3>1 DEF Simple!Serve, Closing!Serve, Simple!Served, Closing!Served,
        Simple!MessageThere, Closing!MessageThere, Simple!Unread, Closing!Unread
  <2>2. conn[c] = "open" /\ stage' = {}
    BY <2>1
  <2>3. QED
    BY <2>1, <2>2
<1>4. ASSUME Simple!AcceptFails \/ Closing!AcceptFails PROVE SimpleInv'
  BY <1>4 DEF Simple!AcceptFails, Closing!AcceptFails, Simple!netVars, Closing!netVars
<1>5. QED
  BY <1>1, <1>2, <1>3, <1>4 DEF Simple!Next, Closing!Next, Simple!ServerStep, Closing!ServerStep,
    Simple!serverVars, Closing!serverVars

\* SimpleServer and Server: the accepting thread serves one connection at a time, which
\* is open and has not been answered.
THEOREM SimpleInvariance == Spec => [](program \in {"simple", "closing"} => SimpleInv)
<1>1. Init => (program \in {"simple", "closing"} => SimpleInv)
  <2>1. ASSUME Simple!Init \/ Closing!Init PROVE SimpleInv
    <3>1. /\ conn = [c \in Clients |-> "none"] /\ sent = [c \in Clients |-> 0]
          /\ taken = [c \in Clients |-> 0] /\ hungUp = {} /\ running = TRUE /\ stage = {}
          /\ echoed = {}
      BY <2>1 DEF Simple!Init, Closing!Init, Simple!NetInit, Closing!NetInit
    <3>2. QED
      BY <3>1, ServersAssumption DEF SimpleInv, SimpleTyped, NetTypeOK
  <2>2. QED
    BY <2>1 DEF Init
<1>2. (program \in {"simple", "closing"} => SimpleInv) /\ [Next]_vars
      => (program \in {"simple", "closing"} => SimpleInv)'
  <2> SUFFICES ASSUME SimpleInv, program \in {"simple", "closing"}, [Next]_vars PROVE SimpleInv'
    BY SameProgram
  <2>1. CASE UNCHANGED Simple!vars \/ UNCHANGED Closing!vars
    BY <2>1 DEF Simple!vars, Closing!vars, Simple!netVars, Closing!netVars, Simple!serverVars,
      Closing!serverVars, SimpleInv, SimpleTyped, NetTypeOK
  <2>2. QED
    BY <2>1, SimpleSteps, ClosingSteps, SimpleKeeps
<1>3. QED
  BY <1>1, <1>2, PTL DEF Spec

LEMMA SimpleOK ==
  ASSUME SimpleInv
  PROVE  /\ Simple!ListIsCurrent /\ Closing!ListIsCurrent
         /\ Simple!TypeOK /\ Closing!TypeOK
BY DEF SimpleInv, SimpleTyped, NetTypeOK, Simple!ListIsCurrent, Closing!ListIsCurrent,
  Simple!TypeOK, Closing!TypeOK, Simple!NetTypeOK, Closing!NetTypeOK

-----------------------------------------------------------------------------
(* Program1.java.                                                          *)

\* What a client that has sent t lines has got back.
Ascending(e, t) == /\ e \in Seq(1..Lines)
                   /\ \A i \in 1..Len(e) : e[i] <= t
                   /\ \A i \in 1..(Len(e) - 1) : e[i] < e[i + 1]

OpenOnes(cs) == {c \in Clients : cs[c] = "open"}

Hearing == stage = Listens!Selecting
           \/ stage \in [client : Clients, left : 1..Cardinality(Clients)]

ListensTyped == /\ NetTypeOK /\ DOMAIN taken = Clients
                /\ Hearing
                /\ tasks = Cardinality(OpenOnes(conn))
                /\ echoed \in [Clients -> Seq(1..Lines)]

ListensInv == /\ ListensTyped
              /\ \A c \in Clients : Ascending(echoed[c], taken[c])
              /\ \A c \in Clients : c \notin hungUp /\ conn[c] # "closed" => Len(echoed[c]) = taken[c]

\* The connections that are open before and after one is accepted or closed.
LEMMA OpenCount ==
  ASSUME NEW cs, DOMAIN cs = Clients
  PROVE  /\ Cardinality(OpenOnes(cs)) \in 0..Cardinality(Clients)
         /\ Cardinality(Clients) \in Nat
         /\ \A c \in Clients : cs[c] # "open" =>
              Cardinality(OpenOnes([cs EXCEPT ![c] = "open"])) = Cardinality(OpenOnes(cs)) + 1
         /\ \A c \in Clients : cs[c] = "open" =>
              Cardinality(OpenOnes([cs EXCEPT ![c] = "closed"])) = Cardinality(OpenOnes(cs)) - 1
<1>1. OpenOnes(cs) \in SUBSET Clients /\ IsFiniteSet(Clients)
  BY ServersAssumption DEF OpenOnes
<1>2. /\ IsFiniteSet(OpenOnes(cs)) /\ Cardinality(OpenOnes(cs)) <= Cardinality(Clients)
  BY <1>1, FS_Subset
<1>3. Cardinality(OpenOnes(cs)) \in Nat /\ Cardinality(Clients) \in Nat
  BY <1>1, <1>2, FS_CardinalityType
<1>4. ASSUME NEW c \in Clients, cs[c] # "open"
      PROVE  Cardinality(OpenOnes([cs EXCEPT ![c] = "open"])) = Cardinality(OpenOnes(cs)) + 1
  <2>1. OpenOnes([cs EXCEPT ![c] = "open"]) = OpenOnes(cs) \cup {c} /\ c \notin OpenOnes(cs)
    BY <1>4 DEF OpenOnes
  <2>2. Cardinality(OpenOnes(cs) \cup {c}) = Cardinality(OpenOnes(cs)) + 1
    BY <1>2, <2>1, FS_AddElement
  <2>3. QED
    BY <2>1, <2>2, Zenon
<1>5. ASSUME NEW c \in Clients, cs[c] = "open"
      PROVE  Cardinality(OpenOnes([cs EXCEPT ![c] = "closed"])) = Cardinality(OpenOnes(cs)) - 1
  <2>1. OpenOnes([cs EXCEPT ![c] = "closed"]) = OpenOnes(cs) \ {c} /\ c \in OpenOnes(cs)
    BY <1>5 DEF OpenOnes
  <2>2. Cardinality(OpenOnes(cs) \ {c}) = Cardinality(OpenOnes(cs)) - 1
    BY <1>2, <2>1, FS_RemoveElement
  <2>3. QED
    BY <2>1, <2>2, Zenon
<1>6. Cardinality(OpenOnes(cs)) \in 0..Cardinality(Clients)
  BY <1>2, <1>3
<1>7. QED
  BY <1>3, <1>4, <1>5, <1>6, Zenon

\* A message is echoed behind what has been.
LEMMA StillAscending ==
  ASSUME NEW t \in Nat, NEW n \in Nat, t < n, n <= Lines, NEW e, Ascending(e, t),
         NEW s \in Seq(1..Lines), Len(s) = n - t, \A i \in 1..(n - t) : s[i] = t + i
  PROVE  /\ Ascending(e \o s, n) /\ Ascending(e, n)
         /\ Len(e \o s) = Len(e) + (n - t)
<1> DEFINE k == Len(e)
<1>1. /\ e \in Seq(1..Lines) /\ k \in Nat /\ Lines \in Nat
      /\ \A i \in 1..k : e[i] \in 1..Lines
  BY ServersAssumption DEF Ascending
<1> DEFINE es == e \o s
<1>2. /\ es \in Seq(1..Lines) /\ Len(es) = Len(e) + Len(s)
      /\ \A i \in 1..(Len(e) + Len(s)) : es[i] = IF i <= Len(e) THEN e[i] ELSE s[i - Len(e)]
  BY <1>1, ConcatProperties, Zenon
<1> HIDE DEF es
<1>3. /\ \A i \in 1..k : e[i] <= t
      /\ \A i \in 1..(k - 1) : e[i] < e[i + 1]
  BY DEF Ascending
<1>4. PICK m \in Nat : m = n - t /\ m >= 1
  OBVIOUS
<1>5. Len(es) = k + m /\ \A i \in 1..(k + m) : es[i] = IF i <= k THEN e[i] ELSE s[i - k]
  BY <1>2, <1>4
<1> HIDE DEF k
<1>6. ASSUME NEW i \in 1..(k + m)
      PROVE  es[i] = (IF i <= k THEN e[i] ELSE t + (i - k)) /\ es[i] <= n /\ es[i] \in Nat
  <2>1. CASE i <= k
    BY <1>1, <1>3, <1>5, <2>1
  <2>2. CASE ~(i <= k)
    <3>1. i - k \in 1..m /\ t + (i - k) <= n /\ t + (i - k) \in Nat
      BY <1>1, <1>4, <2>2
    <3>2. es[i] = t + (i - k)
      BY <1>4, <1>5, <2>2, <3>1
    <3>3. QED
      BY <2>2, <3>1, <3>2
  <2>3. QED
    BY <2>1, <2>2
<1>7. ASSUME NEW i \in 1..(k + m - 1) PROVE es[i] < es[i + 1]
  <2>0. i \in 1..(k + m) /\ i + 1 \in 1..(k + m)
    BY <1>1, <1>4
  <2>1. CASE i + 1 <= k
    BY <1>1, <1>3, <1>6, <2>0, <2>1
  <2>2. CASE i = k
    <3>1. es[i] = e[i] /\ e[i] <= t /\ e[i] \in Nat
      BY <1>1, <1>3, <1>6, <2>0, <2>2
    <3>2. es[i + 1] = t + ((i + 1) - k)
      BY <1>1, <1>6, <2>0, <2>2
    <3>3. QED
      BY <1>1, <2>2, <3>1, <3>2
  <2>3. CASE i > k
    <3>1. es[i] = t + (i - k)
      BY <1>1, <1>6, <2>0, <2>3
    <3>2. es[i + 1] = t + ((i + 1) - k)
      BY <1>1, <1>6, <2>0, <2>3
    <3>3. QED
      BY <1>1, <2>0, <3>1, <3>2
  <2>4. QED
    BY <1>1, <2>1, <2>2, <2>3
<1>8. Ascending(es, n)
  <2>1. Len(es) = k + m
    BY <1>5
  <2>2. \A i \in 1..Len(es) : es[i] <= n
    BY <1>6, <2>1
  <2>3. \A i \in 1..(Len(es) - 1) : es[i] < es[i + 1]
    BY <1>1, <1>7, <2>1
  <2>4. es \in Seq(1..Lines)
    BY <1>2
  <2>5. QED
    BY <2>2, <2>3, <2>4 DEF Ascending
<1>9. Ascending(e, n)
  BY <1>1, <1>3 DEF Ascending, k
<1>10. QED
  BY <1>4, <1>5, <1>8, <1>9 DEF k, es

LEMMA AscendingMore ==
  ASSUME NEW t \in Nat, NEW n \in Nat, t <= n, NEW e, Ascending(e, t) PROVE Ascending(e, n)
<1>1. e \in Seq(1..Lines) /\ \A i \in 1..Len(e) : e[i] \in 1..Lines /\ e[i] <= t
  BY ElementOfSeq DEF Ascending
<1>2. \A i \in 1..Len(e) : e[i] <= n
  BY <1>1, ServersAssumption
<1>3. QED
  BY <1>1, <1>2 DEF Ascending

\* A step that leaves the lines alone.
LEMMA ListensQuiet ==
  ASSUME ListensInv, ListensTyped', UNCHANGED <<taken, echoed>>, hungUp \subseteq hungUp',
         \A c \in Clients : conn[c] = "closed" => conn'[c] = "closed"
  PROVE  ListensInv'
BY DEF ListensInv

LEMMA ListensClients ==
  ASSUME ListensInv, NEW c \in Clients, ClientStep(c), UNCHANGED <<stage, tasks, echoed>>
  PROVE  ListensInv'
<1>t. ListensTyped
  BY DEF ListensInv
<1>1. /\ NetTypeOK' /\ hungUp \subseteq hungUp' /\ taken' = taken
      /\ \A d \in Clients : conn'[d] = conn[d] \/ (conn[d] = "none" /\ conn'[d] = "pending")
  BY <1>t, ClientSteps DEF ListensTyped
<1>2. OpenOnes(conn') = OpenOnes(conn)
  BY <1>1 DEF OpenOnes
<1>3. ListensTyped'
  <2>1. Cardinality(OpenOnes(conn')) = Cardinality(OpenOnes(conn))
    BY <1>2, Zenon
  <2>2. QED
    BY <1>t, <1>1, <2>1 DEF ListensTyped, Hearing
<1>4. QED
  BY <1>1, <1>3, ListensQuiet

\* A call of a listener has returned: the next one is called, or none is left.
LEMMA NextCalled ==
  ASSUME Hearing, NEW c \in Clients, stage.client = c, stage' = Listens!Returned
  PROVE  Hearing'
<1>1. stage # Listens!Selecting
  BY ServersAssumption DEF Listens!Selecting
<1>2. stage \in [client : Clients, left : 1..Cardinality(Clients)]
  BY <1>1 DEF Hearing
<1>3. PICK k \in Nat : k = Cardinality(Clients)
  BY ServersAssumption, FS_CardinalityType
<1>4. CASE stage.left = 1
  BY <1>4 DEF Listens!Returned, Hearing
<1>5. CASE stage.left # 1
  <2>1. stage.left \in 1..k /\ stage.left - 1 \in 1..k
    BY <1>2, <1>3, <1>5
  <2>2. stage' = [stage EXCEPT !.left = @ - 1]
    BY <1>5 DEF Listens!Returned
  <2>3. stage' \in [client : Clients, left : 1..k]
    BY <1>2, <2>1, <2>2
  <2>4. QED
    BY <1>3, <2>3 DEF Hearing
<1>6. QED
  BY <1>4, <1>5

LEMMA ListensReads ==
  ASSUME ListensInv, NEW c \in Clients, Listens!EchoMessage(c)
  PROVE  ListensInv'
<1>t. ListensTyped
  BY DEF ListensInv
<1>1. PICK n \in Listens!Unread(c) :
        /\ taken' = [taken EXCEPT ![c] = n]
        /\ \/ echoed' = [echoed EXCEPT ![c] = @ \o Listens!Message(c, n)]
           \/ c \in hungUp /\ echoed' = echoed
        /\ conn[c] = "open"
        /\ UNCHANGED <<conn, sent, hungUp, tasks, stage>>
  BY DEF Listens!EchoMessage
<1>2. /\ taken[c] \in Nat /\ n \in Nat /\ taken[c] < n /\ n <= sent[c] /\ n <= Lines
      /\ DOMAIN taken = Clients
  <2>1. taken[c] \in 0..sent[c] /\ sent[c] \in 0..Lines /\ Lines \in Nat /\ DOMAIN taken = Clients
    BY <1>t, ServersAssumption DEF ListensTyped, NetTypeOK
  <2>2. n \in (taken[c] + 1)..sent[c]
    BY <1>1 DEF Listens!Unread
  <2>3. QED
    BY <2>1, <2>2
<1>3. /\ taken'[c] = n
      /\ \A d \in Clients : d # c => taken'[d] = taken[d]
  BY <1>1, <1>2
<1>4. PICK m \in Nat : m = n - taken[c]
  BY <1>2
<1> DEFINE s == Listens!Message(c, n)
<1>5. s \in Seq(1..Lines) /\ Len(s) = n - taken[c] /\ \A i \in 1..(n - taken[c]) : s[i] = taken[c] + i
  <2>1. s = [i \in 1..m |-> taken[c] + i]
    BY <1>4 DEF Listens!Message
  <2>2. \A i \in 1..m : taken[c] + i \in 1..Lines
    BY <1>2, <1>4, ServersAssumption
  <2>3. s \in [1..m -> 1..Lines]
    BY <2>1, <2>2
  <2>4. s \in Seq(1..Lines) /\ Len(s) = m
    BY <2>3, FunctionIsSequence
  <2>5. QED
    BY <1>4, <2>1, <2>4
<1> HIDE DEF s
<1>6. Ascending(echoed[c], taken[c])
  BY DEF ListensInv
<1>7. /\ Ascending(echoed[c] \o s, n) /\ Ascending(echoed[c], n)
      /\ Len(echoed[c] \o s) = Len(echoed[c]) + (n - taken[c])
  BY <1>2, <1>5, <1>6, StillAscending
<1>8. ListensTyped'
  <2>1. NetTypeOK' /\ DOMAIN taken' = Clients
    BY <1>1, <1>2, <1>3, <1>t DEF ListensTyped, NetTypeOK
  <2>2. echoed[c] \o s \in Seq(1..Lines)
    BY <1>7 DEF Ascending
  <2>3. echoed' \in [Clients -> Seq(1..Lines)]
    BY <1>1, <1>t, <2>2 DEF ListensTyped, s
  <2>4. Hearing' /\ tasks' = Cardinality(OpenOnes(conn'))
    BY <1>1, <1>t DEF ListensTyped, Hearing
  <2>5. QED
    BY <2>1, <2>3, <2>4 DEF ListensTyped
<1>9. /\ echoed'[c] = echoed[c] \o s \/ (c \in hungUp /\ echoed'[c] = echoed[c])
      /\ \A d \in Clients : d # c => echoed'[d] = echoed[d]
  BY <1>1, <1>t DEF ListensTyped, s
<1>10. \A d \in Clients : Ascending(echoed'[d], taken'[d])
  BY <1>3, <1>7, <1>9 DEF ListensInv
<1>11. ASSUME NEW d \in Clients, d \notin hungUp, conn[d] # "closed"
       PROVE  Len(echoed'[d]) = taken'[d]
  <2>1. Len(echoed[d]) = taken[d]
    BY <1>11 DEF ListensInv
  <2>2. CASE d = c
    BY <1>2, <1>3, <1>7, <1>9, <1>11, <2>1, <2>2
  <2>3. CASE d # c
    BY <1>3, <1>9, <2>1, <2>3
  <2>4. QED
    BY <2>2, <2>3
<1>12. QED
  BY <1>1, <1>8, <1>10, <1>11 DEF ListensInv

LEMMA ListensDrops ==
  ASSUME ListensInv, NEW c \in Clients, Listens!DropMessage(c) \/ Listens!Quit(c)
  PROVE  ListensInv'
<1>t. ListensTyped
  BY DEF ListensInv
<1>1. /\ UNCHANGED <<sent, hungUp, echoed>> /\ stage.client = c /\ stage' = Listens!Returned
      /\ conn[c] = "open"
  BY DEF Listens!DropMessage, Listens!Quit
<1>2. Hearing'
  BY <1>1, <1>t, NextCalled DEF ListensTyped
<1>3. /\ \A d \in Clients : taken[d] \in 0..sent[d] /\ sent[d] \in 0..Lines
      /\ Lines \in Nat /\ DOMAIN taken = Clients
  BY <1>t, ServersAssumption DEF ListensTyped, NetTypeOK
<1>4. taken' = [taken EXCEPT ![c] = taken'[c]] /\ taken'[c] \in taken[c]..sent[c]
  <2>1. CASE Listens!DropMessage(c)
    <3>1. taken' = [taken EXCEPT ![c] = sent[c]]
      BY <2>1 DEF Listens!DropMessage
    <3>2. QED
      BY <1>3, <3>1
  <2>2. CASE Listens!Quit(c)
    <3>1. /\ taken' = [taken EXCEPT ![c] = Lines] /\ Lines \in (taken[c] + 1)..sent[c]
      BY <2>2 DEF Listens!Quit, Listens!IsQuit, Listens!Unread
    <3>2. QED
      BY <1>3, <3>1
  <2>3. QED
    BY <2>1, <2>2
<1>5. /\ DOMAIN taken' = Clients
      /\ \A d \in Clients : taken[d] \in Nat /\ taken'[d] \in 0..sent[d] /\ taken[d] <= taken'[d]
                            /\ taken'[d] \in Nat
      /\ \A d \in Clients : d # c => taken'[d] = taken[d]
  <2>1. DOMAIN taken' = Clients /\ \A d \in Clients : d # c => taken'[d] = taken[d]
    BY <1>3, <1>4
  <2>2. QED
    BY <1>3, <1>4, <2>1
<1>6. \/ conn' = conn /\ tasks' = tasks /\ c \in hungUp
      \/ conn' = [conn EXCEPT ![c] = "closed"] /\ tasks' = tasks - 1
  BY DEF Listens!DropMessage, Listens!Quit, Listens!AfterQuit
<1>7. DOMAIN conn = Clients /\ DOMAIN conn' = Clients
  BY <1>6, <1>t DEF ListensTyped, NetTypeOK
<1>8. tasks' = Cardinality(OpenOnes(conn'))
  <2>1. CASE conn' = conn /\ tasks' = tasks
    BY <2>1, <1>t DEF ListensTyped
  <2>2. CASE conn' = [conn EXCEPT ![c] = "closed"] /\ tasks' = tasks - 1
    <3>1. Cardinality(OpenOnes([conn EXCEPT ![c] = "closed"])) = Cardinality(OpenOnes(conn)) - 1
      BY <1>1, <1>7, OpenCount, Zenon
    <3>2. QED
      BY <2>2, <3>1, <1>t DEF ListensTyped
  <2>3. QED
    BY <1>6, <2>1, <2>2
<1>9. ListensTyped'
  <2>1. NetTypeOK'
    BY <1>1, <1>5, <1>6, <1>t DEF ListensTyped, NetTypeOK
  <2>2. QED
    BY <1>1, <1>2, <1>5, <1>8, <1>t, <2>1 DEF ListensTyped
<1>10. \A d \in Clients : Ascending(echoed'[d], taken'[d])
  <2> SUFFICES ASSUME NEW d \in Clients PROVE Ascending(echoed[d], taken'[d])
    BY <1>1
  <2>1. Ascending(echoed[d], taken[d])
    BY DEF ListensInv
  <2>2. QED
    BY <1>5, <2>1, AscendingMore
<1>11. \A d \in Clients : d \notin hungUp' /\ conn'[d] # "closed" => Len(echoed'[d]) = taken'[d]
  <2> SUFFICES ASSUME NEW d \in Clients, d \notin hungUp, conn'[d] # "closed"
               PROVE  Len(echoed[d]) = taken'[d]
    BY <1>1
  <2>1. d # c /\ conn[d] # "closed"
    BY <1>6, <1>7
  <2>2. QED
    BY <1>5, <2>1 DEF ListensInv
<1>12. QED
  BY <1>9, <1>10, <1>11 DEF ListensInv

\* Program1: there is a listener for each open connection, and what has come from a client
\* has come back, once and in order.
THEOREM ListensInvariance == Spec => [](program = "listens" => ListensInv)
<1>1. ASSUME Listens!Init PROVE ListensInv
  <2>1. /\ conn = [c \in Clients |-> "none"] /\ sent = [c \in Clients |-> 0]
        /\ taken = [c \in Clients |-> 0] /\ hungUp = {}
        /\ tasks = 0 /\ stage = Listens!Selecting /\ echoed = [c \in Clients |-> <<>>]
    BY <1>1 DEF Listens!Init, Listens!NetInit
  <2>2. tasks = Cardinality(OpenOnes(conn))
    <3>1. OpenOnes(conn) = {}
      BY <2>1 DEF OpenOnes
    <3>2. QED
      BY <2>1, <3>1, FS_EmptySet, Zenon
  <2>3. <<>> \in Seq(1..Lines) /\ Len(<<>>) = 0
    OBVIOUS
  <2>4. ListensTyped
    BY <2>1, <2>2, <2>3, ServersAssumption DEF ListensTyped, NetTypeOK, Hearing
  <2>5. Ascending(<<>>, 0)
    BY <2>3 DEF Ascending
  <2>6. QED
    BY <2>1, <2>3, <2>4, <2>5 DEF ListensInv
<1>2. Init => (program = "listens" => ListensInv)
  BY <1>1 DEF Init
<1>3. (program = "listens" => ListensInv) /\ [Next]_vars => (program = "listens" => ListensInv)'
  <2> SUFFICES ASSUME ListensInv, program = "listens", [Next]_vars PROVE ListensInv'
    BY SameProgram
  <2>t. ListensTyped
    BY DEF ListensInv
  <2>0. DOMAIN conn = Clients
    BY <2>t DEF ListensTyped, NetTypeOK
  <2>1. ASSUME NEW c \in Clients, Listens!ClientStep(c), UNCHANGED Listens!serverVars
        PROVE  ListensInv'
    <3>1. ClientStep(c) /\ UNCHANGED <<stage, tasks, echoed>>
      BY <2>1 DEF Listens!ClientStep, Listens!Connect, Listens!Send, Listens!HangUp,
        ClientStep, Connect, Send, HangUp, Listens!serverVars
    <3>2. QED
      BY <3>1, ListensClients
  <2>2. ASSUME NEW c \in Clients, Listens!Accept(c) PROVE ListensInv'
    <3>1. /\ conn[c] = "pending" /\ conn' = [conn EXCEPT ![c] = "open"] /\ tasks' = tasks + 1
          /\ UNCHANGED <<sent, taken, hungUp, stage, echoed>>
      BY <2>2 DEF Listens!Accept
    <3>2. Cardinality(OpenOnes([conn EXCEPT ![c] = "open"])) = Cardinality(OpenOnes(conn)) + 1
      BY <2>0, <3>1, OpenCount
    <3>3. ListensTyped'
      BY <2>t, <3>1, <3>2 DEF ListensTyped, NetTypeOK, Hearing
    <3>4. \A d \in Clients : conn[d] = "closed" => conn'[d] = "closed"
      BY <2>0, <3>1
    <3>5. QED
      BY <3>1, <3>3, <3>4, ListensQuiet
  <2>3. ASSUME NEW c \in Clients, Listens!Dispatch(c) PROVE ListensInv'
    <3>1. /\ UNCHANGED <<conn, sent, taken, hungUp, tasks, echoed>>
          /\ stage' = IF tasks = 0 THEN Listens!Selecting ELSE [client |-> c, left |-> tasks]
      BY <2>3 DEF Listens!Dispatch, Listens!netVars
    <3>2. tasks # 0 => tasks \in 1..Cardinality(Clients)
      <4>1. /\ Cardinality(OpenOnes(conn)) \in 0..Cardinality(Clients) /\ Cardinality(Clients) \in Nat
            /\ tasks = Cardinality(OpenOnes(conn))
        BY <2>0, <2>t, OpenCount DEF ListensTyped
      <4>2. QED
        BY <4>1
    <3>3. Hearing'
      BY <3>1, <3>2 DEF Hearing
    <3>4. ListensTyped'
      BY <2>t, <3>1, <3>3 DEF ListensTyped, NetTypeOK
    <3>5. QED
      BY <3>1, <3>4, ListensQuiet
  <2>4. ASSUME NEW c \in Clients, Listens!NoMessage(c) PROVE ListensInv'
    <3>1. /\ UNCHANGED <<conn, sent, taken, hungUp, tasks, echoed>>
          /\ stage.client = c /\ stage' = Listens!Returned
      BY <2>4 DEF Listens!NoMessage, Listens!netVars
    <3>2. Hearing'
      BY <2>t, <3>1, NextCalled DEF ListensTyped
    <3>3. ListensTyped'
      BY <2>t, <3>1, <3>2 DEF ListensTyped, NetTypeOK
    <3>4. QED
      BY <3>1, <3>3, ListensQuiet
  <2>5. CASE UNCHANGED Listens!vars
    BY <2>5 DEF Listens!vars, Listens!netVars, Listens!serverVars, ListensInv, ListensTyped,
      NetTypeOK, Hearing
  <2>6. CASE Listens!Next
    BY <2>1, <2>2, <2>3, <2>4, <2>6, ListensReads, ListensDrops
      DEF Listens!Next, Listens!ServerStep
  <2>7. QED
    BY <2>5, <2>6, ListensSteps
<1>4. QED
  BY <1>2, <1>3, PTL DEF Spec

LEMMA ListensOK ==
  ASSUME ListensInv
  PROVE  Listens!OneListenerEach /\ Listens!EchoedInOrder /\ Listens!TypeOK
<1>t. ListensTyped
  BY DEF ListensInv
<1>1. tasks = Listens!Cardinality({c \in Clients : conn[c] = "open"}) /\ tasks \in Nat
  <2>1. tasks = Cardinality(OpenOnes(conn)) /\ DOMAIN conn = Clients
    BY <1>t DEF ListensTyped, NetTypeOK
  <2>2. Cardinality(OpenOnes(conn)) \in 0..Cardinality(Clients) /\ Cardinality(Clients) \in Nat
    BY <2>1, OpenCount
  <2>3. tasks \in Nat
    BY <2>1, <2>2
  <2>4. tasks = Listens!Cardinality(OpenOnes(conn))
    BY <2>1 DEF Cardinality, Listens!Cardinality
  <2>5. QED
    BY <2>3, <2>4 DEF OpenOnes
<1>2. Listens!OneListenerEach
  BY <1>1 DEF Listens!OneListenerEach
<1>3. Listens!EchoedInOrder
  BY DEF ListensInv, Ascending, Listens!EchoedInOrder
<1>4. Listens!TypeOK
  <2>1. Cardinality(Clients) = Listens!Cardinality(Clients)
    BY DEF Cardinality, Listens!Cardinality
  <2>2. QED
    BY <1>t, <1>1, <2>1 DEF ListensTyped, NetTypeOK, Hearing, Listens!TypeOK, Listens!NetTypeOK
<1>5. QED
  BY <1>2, <1>3, <1>4

-----------------------------------------------------------------------------
(* NonBlockingServer.java.                                                 *)

FilesTyped ==
  /\ NetTypeOK /\ DOMAIN taken = Clients
  /\ running \in BOOLEAN
  /\ \/ stage = Files!Selecting
     \/ stage \in [client : Clients, as : {"readable", "writable"}, writing : BOOLEAN]
  /\ queue \in Seq(1..Lines) \cup {Files!null}
  /\ outQueue \subseteq Clients
  /\ echoed \in [Clients -> Seq(1..Lines)]

Writing(c) == stage.client = c /\ stage.writing

\* s are the lines that have just been read from a client, the last of them the tth,
\* and e is what it has got back: a line by itself is not yet among that.
JustRead(s, t, e) == /\ s \in Seq(1..Lines) /\ Len(s) >= 1
                     /\ \A i \in 1..Len(s) : s[i] <= t
                     /\ Len(s) = 1 => s[1] = t /\ \A i \in 1..Len(e) : e[i] # t

\* Where line l of client c is.
NameThere(c, l) == \/ \E i \in 1..Len(echoed[c]) : echoed[c][i] = l
                   \/ Writing(c) /\ l = queue[1]
                   \/ c \in Quitters /\ l = Lines

FilesInv ==
  /\ FilesTyped
  /\ \A c \in Clients : \A i \in 1..Len(echoed[c]) : echoed[c][i] <= taken[c]
  /\ \A c \in Clients : Writing(c) => JustRead(queue, taken[c], echoed[c])
                                         /\ (Len(queue) # 1 => c \in outQueue)
  /\ \A c \in Clients \ (hungUp \cup outQueue) : \A l \in 1..taken[c] : NameThere(c, l)

\* A step that reads and answers nothing.
LEMMA FilesQuiet ==
  ASSUME FilesInv, FilesTyped', UNCHANGED <<taken, outQueue, echoed>>, hungUp \subseteq hungUp',
         \/ UNCHANGED <<stage, queue>>
         \/ \A c \in Clients : ~Writing(c) /\ ~Writing(c)'
  PROVE  FilesInv'
<1>1. CASE UNCHANGED <<stage, queue>>
  BY <1>1 DEF FilesInv, NameThere, Writing
<1>2. CASE \A c \in Clients : ~Writing(c) /\ ~Writing(c)'
  BY <1>2 DEF FilesInv, NameThere
<1>3. QED
  BY <1>1, <1>2

LEMMA FilesClients ==
  ASSUME FilesInv, NEW c \in Clients, ClientStep(c), UNCHANGED <<running, stage, queue, outQueue, echoed>>
  PROVE  FilesInv'
<1>t. FilesTyped
  BY DEF FilesInv
<1>1. /\ NetTypeOK' /\ hungUp \subseteq hungUp' /\ taken' = taken
  BY <1>t, ClientSteps DEF FilesTyped
<1>2. FilesTyped'
  BY <1>t, <1>1 DEF FilesTyped
<1>3. QED
  BY <1>1, <1>2, FilesQuiet

\* Nothing that is not being written is lost when the next key is handled.
LEMMA NextHandled ==
  ASSUME FilesTyped, NEW c \in Clients, stage.client = c, stage' = Files!Handled
  PROVE  /\ \/ stage' = Files!Selecting
            \/ stage' \in [client : Clients, as : {"readable", "writable"}, writing : BOOLEAN]
         /\ ~stage'.writing
         /\ stage \in [client : Clients, as : {"readable", "writable"}, writing : BOOLEAN]
<1>1. stage # Files!Selecting
  BY ServersAssumption DEF Files!Selecting
<1>2. stage \in [client : Clients, as : {"readable", "writable"}, writing : BOOLEAN]
  BY <1>1 DEF FilesTyped
<1>3. QED
  BY <1>2 DEF Files!Handled, Files!Selecting

LEMMA FilesReads ==
  ASSUME FilesInv, NEW c \in Clients, Files!ReadName(c)
  PROVE  FilesInv'
<1>t. FilesTyped
  BY DEF FilesInv
<1>1. PICK n \in Files!Unread(c) :
        /\ taken' = [taken EXCEPT ![c] = n]
        /\ queue' = [i \in 1..(n - taken[c]) |-> taken[c] + i]
        /\ outQueue' = IF n = taken[c] + 1 THEN outQueue ELSE outQueue \cup {c}
        /\ stage' = [stage EXCEPT !.writing = TRUE]
        /\ stage.client = c /\ ~stage.writing
        /\ UNCHANGED <<conn, sent, hungUp, running, echoed>>
  BY DEF Files!ReadName, Files!Reading
<1>2. /\ taken[c] \in Nat /\ n \in Nat /\ taken[c] < n /\ n <= sent[c] /\ n <= Lines
      /\ n \in (taken[c] + 1)..Lines /\ DOMAIN taken = Clients
  <2>1. taken[c] \in 0..sent[c] /\ sent[c] \in 0..Lines /\ Lines \in Nat /\ DOMAIN taken = Clients
    BY <1>t, ServersAssumption DEF FilesTyped, NetTypeOK
  <2>2. n \in (taken[c] + 1)..sent[c]
    BY <1>1 DEF Files!Unread
  <2>3. QED
    BY <2>1, <2>2
<1>3. /\ taken'[c] = n
      /\ \A d \in Clients : d # c => taken'[d] = taken[d]
  BY <1>1, <1>2
<1>4. PICK m \in Nat : m = n - taken[c] /\ m >= 1
  BY <1>2
<1>5. /\ queue' \in Seq(1..Lines) /\ Len(queue') = m
      /\ \A i \in 1..m : queue'[i] = taken[c] + i
  <2>1. queue' = [i \in 1..m |-> taken[c] + i]
    BY <1>1, <1>4
  <2>2. \A i \in 1..m : taken[c] + i \in 1..Lines
    BY <1>2, <1>4, ServersAssumption
  <2>3. queue' \in [1..m -> 1..Lines]
    BY <2>1, <2>2
  <2>4. queue' \in Seq(1..Lines) /\ Len(queue') = m
    BY <2>3, FunctionIsSequence
  <2>5. QED
    BY <2>1, <2>4
<1>6. stage \in [client : Clients, as : {"readable", "writable"}, writing : BOOLEAN]
  <2>1. stage # Files!Selecting
    BY <1>1, ServersAssumption DEF Files!Selecting
  <2>2. QED
    BY <1>t, <2>1 DEF FilesTyped
<1>7. /\ stage' \in [client : Clients, as : {"readable", "writable"}, writing : BOOLEAN]
      /\ \A d \in Clients : Writing(d)' <=> d = c
      /\ \A d \in Clients : ~Writing(d)
  BY <1>1, <1>6 DEF Writing
<1>8. FilesTyped'
  <2>1. NetTypeOK' /\ DOMAIN taken' = Clients
    BY <1>1, <1>2, <1>3, <1>t DEF FilesTyped, NetTypeOK
  <2>2. QED
    BY <1>1, <1>5, <1>7, <1>t, <2>1 DEF FilesTyped
<1>9. \A d \in Clients : /\ Len(echoed[d]) \in Nat
                         /\ \A i \in 1..Len(echoed[d]) : echoed[d][i] \in 1..Lines
                                                          /\ echoed[d][i] <= taken[d]
  <2> SUFFICES ASSUME NEW d \in Clients
               PROVE  /\ Len(echoed[d]) \in Nat
                      /\ \A i \in 1..Len(echoed[d]) : echoed[d][i] \in 1..Lines
                                                       /\ echoed[d][i] <= taken[d]
    OBVIOUS
  <2>1. echoed[d] \in Seq(1..Lines)
    BY <1>t DEF FilesTyped
  <2>2. Len(echoed[d]) \in Nat
    BY <2>1
  <2>3. \A i \in 1..Len(echoed[d]) : echoed[d][i] \in 1..Lines
    BY <2>1, ElementOfSeq
  <2>4. QED
    BY <2>2, <2>3 DEF FilesInv
<1>10. \A d \in Clients : \A i \in 1..Len(echoed'[d]) : echoed'[d][i] <= taken'[d]
  <2> SUFFICES ASSUME NEW d \in Clients, NEW i \in 1..Len(echoed[d])
               PROVE  echoed[d][i] <= taken'[d]
    BY <1>1
  <2>1. echoed[d][i] \in Nat /\ echoed[d][i] <= taken[d]
    BY <1>9, ServersAssumption
  <2>2. CASE d = c
    BY <1>2, <1>3, <2>1, <2>2
  <2>3. CASE d # c
    BY <1>3, <2>1, <2>3
  <2>4. QED
    BY <2>2, <2>3
<1>11. JustRead(queue', n, echoed'[c])
  <2>1. \A i \in 1..Len(echoed[c]) : echoed[c][i] # n
    <3> SUFFICES ASSUME NEW i \in 1..Len(echoed[c]) PROVE echoed[c][i] # n
      OBVIOUS
    <3>1. echoed[c][i] \in Nat /\ echoed[c][i] <= taken[c]
      BY <1>9, ServersAssumption
    <3>2. QED
      BY <1>2, <3>1
  <2>2. \A i \in 1..Len(queue') : queue'[i] <= n
    BY <1>2, <1>4, <1>5
  <2>3. Len(queue') = 1 => queue'[1] = n
    BY <1>2, <1>4, <1>5
  <2>4. QED
    BY <1>1, <1>4, <1>5, <2>1, <2>2, <2>3 DEF JustRead
<1>12. Len(queue') # 1 => c \in outQueue'
  BY <1>1, <1>2, <1>4, <1>5
<1>13. ASSUME NEW d \in Clients \ (hungUp' \cup outQueue'), NEW l \in 1..taken'[d]
       PROVE  NameThere(d, l)'
  <2>1. d \in Clients \ (hungUp \cup outQueue)
    BY <1>1, <1>13
  <2>2. CASE l \in 1..taken[d]
    <3>1. NameThere(d, l)
      BY <2>1, <2>2 DEF FilesInv
    <3>2. QED
      BY <1>1, <1>7, <3>1 DEF NameThere
  <2>3. CASE l \notin 1..taken[d]
    <3>1. d = c
      BY <1>3, <2>3
    <3>2. n = taken[c] + 1
      BY <1>1, <1>13, <3>1
    <3>3. l = n /\ queue'[1] = n
      BY <1>2, <1>3, <1>4, <1>5, <2>3, <3>1, <3>2
    <3>4. QED
      BY <1>7, <3>1, <3>3 DEF NameThere
  <2>4. QED
    BY <2>2, <2>3
<1>14. \A d \in Clients : Writing(d)' => JustRead(queue', taken'[d], echoed'[d])
                                          /\ (Len(queue') # 1 => d \in outQueue')
  BY <1>3, <1>7, <1>11, <1>12
<1>15. \A d \in Clients \ (hungUp' \cup outQueue') : \A l \in 1..taken'[d] : NameThere(d, l)'
  BY <1>13
<1>16. QED
  BY <1>8, <1>10, <1>14, <1>15 DEF FilesInv

LEMMA FilesAnswers ==
  ASSUME FilesInv, NEW c \in Clients, Files!Write(c)
  PROVE  FilesInv'
<1>t. FilesTyped
  BY DEF FilesInv
<1>1. /\ stage.client = c /\ stage.writing /\ stage' = Files!Handled
      /\ UNCHANGED <<conn, sent, taken, hungUp, running, outQueue>>
  BY DEF Files!Write, Files!netVars
<1>2. /\ JustRead(queue, taken[c], echoed[c]) /\ (Len(queue) # 1 => c \in outQueue)
      /\ queue \in Seq(1..Lines)
  BY <1>1 DEF FilesInv, Writing, JustRead
<1>3. /\ \/ stage' = Files!Selecting
         \/ stage' \in [client : Clients, as : {"readable", "writable"}, writing : BOOLEAN]
      /\ \A d \in Clients : ~Writing(d)'
      /\ \A d \in Clients : Writing(d) <=> d = c
  BY <1>1, <1>t, NextHandled DEF Writing
<1>4. CASE Len(queue) = 1 /\ Files!NamesFile(c) /\ echoed' = Files!Reply(c) /\ queue' = Files!null
  <2>1. /\ echoed[c] \in Seq(1..Lines) /\ queue[1] \in 1..Lines /\ Len(queue) = 1
        /\ queue[1] = taken[c]
    <3>1. echoed[c] \in Seq(1..Lines)
      BY <1>t DEF FilesTyped
    <3>2. 1 \in 1..Len(queue)
      BY <1>4
    <3>3. queue[1] \in 1..Lines
      BY <1>2, <3>2, ElementOfSeq
    <3>4. QED
      BY <1>2, <1>4, <3>1, <3>3 DEF JustRead
  <2> DEFINE es == echoed[c] \o queue
  <2>2. /\ es \in Seq(1..Lines) /\ Len(es) = Len(echoed[c]) + 1
        /\ \A i \in 1..Len(echoed[c]) : i \in 1..Len(es) /\ es[i] = echoed[c][i]
        /\ Len(es) \in 1..Len(es) /\ es[Len(es)] = queue[1]
        /\ \A i \in 1..Len(es) : i \in 1..Len(echoed[c]) \/ i = Len(es)
    <3>1. Len(echoed[c]) \in Nat
      BY <2>1
    <3>2. /\ es \in Seq(1..Lines) /\ Len(es) = Len(echoed[c]) + Len(queue)
          /\ \A i \in 1..(Len(echoed[c]) + Len(queue)) :
               es[i] = IF i <= Len(echoed[c]) THEN echoed[c][i] ELSE queue[i - Len(echoed[c])]
      BY <1>2, <2>1, ConcatProperties, Zenon
    <3> HIDE DEF es
    <3>3. PICK k \in Nat : k = Len(echoed[c])
      BY <3>1
    <3>4. Len(es) = k + 1 /\ \A i \in 1..(k + 1) : es[i] = IF i <= k THEN echoed[c][i] ELSE queue[i - k]
      BY <2>1, <3>2, <3>3
    <3>5. es[k + 1] = queue[1]
      BY <3>4
    <3>6. QED
      BY <3>2, <3>3, <3>4, <3>5
  <2>3. echoed'[c] = es /\ \A d \in Clients : d # c => echoed'[d] = echoed[d]
    BY <1>4, <1>t DEF FilesTyped, Files!Reply
  <2>4. echoed' \in [Clients -> Seq(1..Lines)]
    BY <1>4, <1>t, <2>2 DEF FilesTyped, Files!Reply
  <2> HIDE DEF es
  <2>5. FilesTyped'
    BY <1>1, <1>3, <1>4, <1>t, <2>4 DEF FilesTyped, NetTypeOK
  <2>6. \A d \in Clients : \A i \in 1..Len(echoed'[d]) : echoed'[d][i] <= taken'[d]
    <3>1. taken[c] \in Nat
      BY <2>1, ServersAssumption
    <3>2. \A i \in 1..Len(es) : es[i] <= taken[c]
      <4>1. \A i \in 1..Len(echoed[c]) : es[i] <= taken[c]
        BY <2>2 DEF FilesInv
      <4>2. es[Len(es)] <= taken[c]
        BY <2>1, <2>2, <3>1
      <4>3. QED
        BY <2>2, <4>1, <4>2
    <3>3. QED
      BY <1>1, <2>3, <3>2 DEF FilesInv
  <2>7. ASSUME NEW d \in Clients \ (hungUp' \cup outQueue'), NEW l \in 1..taken'[d]
        PROVE  NameThere(d, l)'
    <3>1. NameThere(d, l)
      BY <1>1 DEF FilesInv
    <3>2. CASE d # c
      BY <1>3, <2>3, <3>1, <3>2 DEF NameThere
    <3>3. CASE d = c
      <4>1. (\E i \in 1..Len(echoed[c]) : echoed[c][i] = l) \/ l = queue[1] \/ (c \in Quitters /\ l = Lines)
        BY <3>1, <3>3 DEF NameThere
      <4>2. (\E i \in 1..Len(es) : es[i] = l) \/ (c \in Quitters /\ l = Lines)
        BY <2>2, <4>1
      <4>3. QED
        BY <2>3, <3>3, <4>2 DEF NameThere
    <3>4. QED
      BY <3>2, <3>3
  <2>8. QED
    BY <1>3, <2>5, <2>6, <2>7 DEF FilesInv
<1>5. CASE (~Files!NamesFile(c) \/ c \in hungUp) /\ UNCHANGED <<echoed, queue>>
  <2>1. FilesTyped'
    BY <1>1, <1>3, <1>5, <1>t DEF FilesTyped, NetTypeOK
  <2>2. ASSUME NEW d \in Clients \ (hungUp' \cup outQueue'), NEW l \in 1..taken'[d]
        PROVE  NameThere(d, l)'
    <3>1. NameThere(d, l) /\ d \notin hungUp /\ d \notin outQueue
      BY <1>1 DEF FilesInv
    <3>2. CASE d # c
      BY <1>3, <1>5, <3>1, <3>2 DEF NameThere
    <3>3. CASE d = c
      <4>1. Len(queue) = 1 /\ ~Files!NamesFile(c)
        BY <1>2, <1>5, <3>1, <3>3
      <4>2. c \in Quitters /\ queue = <<Lines>>
        BY <4>1 DEF Files!NamesFile, Files!IsQuit
      <4>3. QED
        BY <1>5, <3>1, <3>3, <4>2 DEF NameThere
    <3>4. QED
      BY <3>2, <3>3
  <2>3. \A d \in Clients : \A i \in 1..Len(echoed'[d]) : echoed'[d][i] <= taken'[d]
    BY <1>1, <1>5 DEF FilesInv
  <2>4. QED
    BY <1>3, <2>1, <2>2, <2>3 DEF FilesInv
<1>6. QED
  BY <1>4, <1>5 DEF Files!Write, Files!NamesFile

\* NonBlockingServer: the one result is that of the client whose key is handled, and a
\* name that was read by itself is answered before another is read.
THEOREM FilesInvariance == Spec => [](program = "files" => FilesInv)
<1>1. ASSUME Files!Init PROVE FilesInv
  <2>1. /\ conn = [c \in Clients |-> "none"] /\ sent = [c \in Clients |-> 0]
        /\ taken = [c \in Clients |-> 0] /\ hungUp = {}
        /\ running = TRUE /\ stage = Files!Selecting /\ queue = Files!null /\ outQueue = {}
        /\ echoed = [c \in Clients |-> <<>>]
    BY <1>1 DEF Files!Init, Files!NetInit
  <2>2. FilesTyped
    BY <2>1, ServersAssumption DEF FilesTyped, NetTypeOK
  <2>3. \A c \in Clients : ~Writing(c)
    BY <2>1 DEF Writing, Files!Selecting
  <2>4. \A c \in Clients : Len(echoed[c]) = 0 /\ taken[c] = 0
    BY <2>1
  <2>5. QED
    BY <2>2, <2>3, <2>4 DEF FilesInv
<1>2. Init => (program = "files" => FilesInv)
  BY <1>1 DEF Init
<1>3. (program = "files" => FilesInv) /\ [Next]_vars => (program = "files" => FilesInv)'
  <2> SUFFICES ASSUME FilesInv, program = "files", [Next]_vars PROVE FilesInv'
    BY SameProgram
  <2>t. FilesTyped
    BY DEF FilesInv
  <2>1. ASSUME NEW c \in Clients, Files!ClientStep(c), UNCHANGED Files!serverVars
        PROVE  FilesInv'
    <3>1. ClientStep(c) /\ UNCHANGED <<running, stage, queue, outQueue, echoed>>
      BY <2>1 DEF Files!ClientStep, Files!Connect, Files!Send, Files!HangUp,
        ClientStep, Connect, Send, HangUp, Files!serverVars
    <3>2. QED
      BY <3>1, FilesClients
  <2>2. ASSUME NEW c \in Clients, Files!Accept(c) \/ Files!AcceptFails(c) PROVE FilesInv'
    <3>1. /\ conn' = conn \/ conn' = [conn EXCEPT ![c] = "open"]
          /\ running' = running \/ running' = FALSE
          /\ UNCHANGED <<sent, taken, hungUp, stage, queue, outQueue, echoed>>
      BY <2>2 DEF Files!Accept, Files!AcceptFails, Files!serverVars, Files!netVars
    <3>2. FilesTyped'
      BY <2>t, <3>1 DEF FilesTyped, NetTypeOK
    <3>3. QED
      BY <3>1, <3>2, FilesQuiet
  <2>3. ASSUME NEW c \in Clients, Files!Handle(c) PROVE FilesInv'
    <3>1. /\ UNCHANGED <<conn, sent, taken, hungUp, running, queue, outQueue, echoed>>
          /\ stage = Files!Selecting
          /\ stage' = [client |-> c, writing |-> FALSE,
                       as |-> IF Files!Readable(c) THEN "readable" ELSE "writable"]
      BY <2>3 DEF Files!Handle, Files!netVars
    <3>2. FilesTyped'
      BY <2>t, <3>1 DEF FilesTyped, NetTypeOK
    <3>3. \A d \in Clients : ~Writing(d) /\ ~Writing(d)'
      BY <3>1 DEF Writing, Files!Selecting
    <3>4. QED
      BY <3>1, <3>2, <3>3, FilesQuiet
  <2>4. ASSUME NEW c \in Clients, Files!ReadNothing(c) PROVE FilesInv'
    <3>1. /\ UNCHANGED <<conn, sent, taken, hungUp, running, outQueue, echoed>>
          /\ queue' = <<>> /\ stage.client = c /\ ~stage.writing /\ stage' = Files!Handled
      BY <2>4 DEF Files!ReadNothing, Files!Reading, Files!netVars
    <3>2. FilesTyped'
      BY <2>t, <3>1, NextHandled DEF FilesTyped, NetTypeOK
    <3>3. \A d \in Clients : ~Writing(d) /\ ~Writing(d)'
      BY <2>t, <3>1, NextHandled DEF Writing
    <3>4. QED
      BY <3>1, <3>2, <3>3, FilesQuiet
  <2>5. ASSUME NEW c \in Clients, Files!ReadFails(c) PROVE FilesInv'
    <3>1. /\ UNCHANGED <<conn, sent, taken, hungUp, queue, outQueue, echoed>>
          /\ stage.client = c /\ ~stage.writing
          /\ \/ running' = FALSE /\ stage' = stage
             \/ running' = running /\ stage' = Files!Handled
      BY <2>5 DEF Files!ReadFails, Files!Reading, Files!netVars
    <3>2. FilesTyped'
      BY <2>t, <3>1, NextHandled DEF FilesTyped, NetTypeOK
    <3>3. \A d \in Clients : ~Writing(d) /\ ~Writing(d)'
      BY <2>t, <3>1, NextHandled DEF Writing
    <3>4. QED
      BY <3>1, <3>2, <3>3, FilesQuiet
  <2>6. CASE UNCHANGED Files!vars
    <3>1. UNCHANGED <<conn, sent, taken, hungUp, running, stage, queue, outQueue, echoed>>
      BY <2>6 DEF Files!vars, Files!netVars, Files!serverVars
    <3>2. FilesTyped'
      BY <2>t, <3>1 DEF FilesTyped, NetTypeOK
    <3>3. QED
      BY <3>1, <3>2, FilesQuiet
  <2>7. CASE Files!Next
    BY <2>1, <2>2, <2>3, <2>4, <2>5, <2>7, FilesReads, FilesAnswers
      DEF Files!Next, Files!ServerStep, Files!Failure
  <2>8. QED
    BY <2>6, <2>7, FilesSteps
<1>4. QED
  BY <1>2, <1>3, PTL DEF Spec

LEMMA FilesOK == ASSUME FilesInv PROVE Files!NamesAccounted /\ Files!TypeOK
<1>t. FilesTyped
  BY DEF FilesInv
<1>1. ASSUME stage.client \in Clients, stage.writing
      PROVE  queue # Files!null /\ Files!Range(queue) \subseteq 1..taken[stage.client]
  <2>1. JustRead(queue, taken[stage.client], echoed[stage.client])
    BY <1>1 DEF FilesInv, Writing
  <2>2. queue \in Seq(1..Lines) /\ Len(queue) >= 1
    BY <2>1 DEF JustRead
  <2>3. taken[stage.client] \in Nat
    BY <1>1, <1>t, ServersAssumption DEF FilesTyped, NetTypeOK
  <2>4. \A i \in 1..Len(queue) : queue[i] \in 1..Lines /\ queue[i] <= taken[stage.client]
    BY <2>1, <2>2, ElementOfSeq DEF JustRead
  <2>5. queue # Files!null
    BY <2>2, <2>4 DEF Files!null
  <2>6. DOMAIN queue = 1..Len(queue)
    BY <2>2
  <2>7. \A i \in 1..Len(queue) : queue[i] \in 1..taken[stage.client]
    BY <2>3, <2>4, ServersAssumption
  <2>8. QED
    BY <2>5, <2>6, <2>7 DEF Files!Range
<1>2. ASSUME NEW c \in Clients \ (hungUp \cup outQueue), NEW l \in 1..taken[c]
      PROVE  \/ l \in Files!Range(echoed[c])
             \/ stage.client = c /\ stage.writing /\ l = queue[1]
             \/ c \in Quitters /\ l = Lines
  <2>1. NameThere(c, l)
    BY DEF FilesInv
  <2>2. DOMAIN echoed[c] = 1..Len(echoed[c])
    BY <1>t DEF FilesTyped
  <2>3. QED
    BY <2>1, <2>2 DEF NameThere, Writing, Files!Range
<1>3. Files!NamesAccounted
  BY <1>1, <1>2 DEF Files!NamesAccounted
<1>4. Files!TypeOK
  BY <1>t DEF FilesTyped, NetTypeOK, Files!TypeOK, Files!NetTypeOK
<1>5. QED
  BY <1>3, <1>4

-----------------------------------------------------------------------------
(* The echo service.                                                       *)

Serving == program \in {"halfSync", "files"}

\* Some lines of client c have been read, or the one line l has been written to c.
LinesRead(c) == /\ \E n \in (taken[c] + 1)..Lines : taken' = [taken EXCEPT ![c] = n]
                /\ echoed' = echoed

LineWritten(c) == /\ \E l \in 1..taken[c] : /\ \A i \in 1..Len(echoed[c]) : echoed[c][i] # l
                                            /\ echoed' = [echoed EXCEPT ![c] = Append(@, l)]
                  /\ taken' = taken

LEMMA ServiceSteps ==
  ASSUME Serving, program' = program, echoed \in [Clients -> Seq(1..Lines)],
         NEW c \in Clients, LinesRead(c) \/ LineWritten(c)
  PROVE  Service!Next
<1>1. CASE LinesRead(c)
  BY <1>1 DEF LinesRead, Serving, Service!Next, Service!Arrive
<1>2. CASE LineWritten(c)
  <2>1. PICK l \in 1..taken[c] : /\ \A i \in 1..Len(echoed[c]) : echoed[c][i] # l
                                 /\ echoed' = [echoed EXCEPT ![c] = Append(@, l)]
    BY <1>2 DEF LineWritten
  <2>2. DOMAIN echoed[c] = 1..Len(echoed[c])
    OBVIOUS
  <2>3. l \notin Service!Range(echoed[c])
    BY <2>1, <2>2 DEF Service!Range
  <2>4. Service!Echo(c)
    BY <1>2, <2>1, <2>3 DEF LineWritten, Serving, Service!Echo
  <2>5. QED
    BY <2>4 DEF Service!Next
<1>3. QED
  BY <1>1, <1>2

\* A worker of the half-sync/half-async server writes a line that is nowhere else.
LEMMA HalfSyncServes ==
  ASSUME HalfSyncInv, HalfSync!Next
  PROVE  UNCHANGED <<taken, echoed>> \/ \E c \in Clients : LinesRead(c) \/ LineWritten(c)
<1>1. ASSUME NEW c \in Clients, HalfSync!Read(c)
      PROVE  UNCHANGED <<taken, echoed>> \/ LinesRead(c)
  <2>1. ASSUME NEW n \in HalfSync!Unread(c), taken' = [taken EXCEPT ![c] = n] PROVE LinesRead(c)
    <3>1. n \in (taken[c] + 1)..Lines
      BY ServersAssumption DEF HalfSync!Unread, HalfSyncInv, HalfSyncTyped, NetTypeOK
    <3>2. QED
      BY <1>1, <2>1, <3>1 DEF HalfSync!Read, LinesRead
  <2>2. QED
    BY <1>1, <2>1 DEF HalfSync!Read
<1>2. ASSUME NEW w \in Workers, HalfSync!Execute(w), echoed' # echoed
      PROVE  \E c \in Clients : LineWritten(c)
  <2>1. inHand[w] # HalfSync!NoTask /\ inHand \in [Workers -> HalfSync!Tasks \cup {HalfSync!NoTask}]
    BY <1>2 DEF HalfSync!Execute, HalfSyncInv, HalfSyncTyped, HalfSync!TypeOK
  <2>2. w \in Busy(inHand)
    BY <2>1 DEF HalfSync!Tasks, Busy
  <2>3. inHand[w] \in Tasks
    BY <2>2 DEF HalfSyncInv, Accounted, TasksTyped
  <2> DEFINE d == inHand[w].client
             l == inHand[w].line
  <2>4. d \in Clients /\ l \in 1..Lines
    BY <2>3 DEF Tasks
  <2>5. l <= taken[d]
    BY <2>2, <2>3 DEF HalfSyncInv, Accounted, Somewhere
  <2>6. l \in 1..taken[d]
    BY <2>4, <2>5, ServersAssumption DEF HalfSyncInv, HalfSyncTyped, NetTypeOK
  <2>7. \A k \in 1..Len(echoed[d]) : echoed[d][k] # l
    BY <2>2 DEF HalfSyncInv, Accounted, Apart
  <2>8. echoed' = [echoed EXCEPT ![d] = Append(@, l)] /\ taken' = taken
    BY <1>2 DEF HalfSync!Execute, HalfSync!Recipient, HalfSync!netVars
  <2>9. LineWritten(d)
    BY <2>6, <2>7, <2>8 DEF LineWritten
  <2>10. QED
    BY <2>4, <2>9
<1>3. QED
  BY <1>1, <1>2 DEF HalfSync!Next, HalfSync!ServerStep, HalfSync!Failure, HalfSync!WorkerStep,
    HalfSync!Accept, HalfSync!AcceptFails, HalfSync!ReadFails, HalfSync!AddTask, HalfSync!Pop,
    HalfSync!Execute, HalfSync!WriteFails, HalfSync!Leave, HalfSync!netVars, HalfSync!serverVars,
    HalfSync!ClientStep, HalfSync!Connect, HalfSync!Send, HalfSync!HangUp

\* The file server answers the one name that it has just read.
LEMMA FilesServes ==
  ASSUME FilesInv, Files!Next
  PROVE  UNCHANGED <<taken, echoed>> \/ \E c \in Clients : LinesRead(c) \/ LineWritten(c)
<1>1. ASSUME NEW c \in Clients, Files!ReadName(c) PROVE LinesRead(c)
  <2>1. PICK n \in Files!Unread(c) : taken' = [taken EXCEPT ![c] = n]
    BY <1>1 DEF Files!ReadName
  <2>2. n \in (taken[c] + 1)..Lines
    BY ServersAssumption DEF Files!Unread, FilesInv, FilesTyped, NetTypeOK
  <2>3. QED
    BY <1>1, <2>1, <2>2 DEF Files!ReadName, LinesRead
<1>2. ASSUME NEW c \in Clients, Files!Write(c), echoed' # echoed PROVE LineWritten(c)
  <2>1. /\ Writing(c) /\ taken' = taken /\ Len(queue) = 1
        /\ echoed' = [echoed EXCEPT ![c] = @ \o queue]
    BY <1>2 DEF Files!Write, Files!NamesFile, Files!Reply, Files!netVars, Writing
  <2>2. JustRead(queue, taken[c], echoed[c])
    BY <2>1 DEF FilesInv
  <2>3. /\ queue \in Seq(1..Lines) /\ queue[1] = taken[c]
        /\ \A i \in 1..Len(echoed[c]) : echoed[c][i] # taken[c]
    BY <2>1, <2>2 DEF JustRead
  <2>4. taken[c] \in 1..taken[c] /\ taken[c] \in 1..Lines
    <3>1. 1 \in 1..Len(queue)
      BY <2>1
    <3>2. queue[1] \in 1..Lines
      BY <2>3, <3>1, ElementOfSeq
    <3>3. QED
      BY <2>3, <3>2, ServersAssumption
  <2>5. echoed[c] \o queue = Append(echoed[c], taken[c])
    <3>1. queue = <<taken[c]>>
      BY <2>1, <2>3
    <3>2. echoed[c] \in Seq(1..Lines)
      BY DEF FilesInv, FilesTyped
    <3>3. Append(echoed[c], taken[c]) = echoed[c] \o <<taken[c]>>
      BY <2>4, <3>2, AppendIsConcat
    <3>4. QED
      BY <3>1, <3>3
  <2>6. QED
    BY <2>1, <2>3, <2>4, <2>5 DEF LineWritten
<1>3. ASSUME NEW c \in Clients,
             \/ Files!ClientStep(c) /\ UNCHANGED Files!serverVars
             \/ Files!Accept(c) \/ Files!Handle(c) \/ Files!ReadNothing(c) \/ Files!Failure(c)
      PROVE  UNCHANGED <<taken, echoed>>
  BY <1>3 DEF Files!Failure, Files!Accept, Files!AcceptFails, Files!Handle, Files!ReadNothing,
    Files!ReadFails, Files!netVars, Files!serverVars, Files!ClientStep, Files!Connect, Files!Send,
    Files!HangUp
<1>4. ASSUME NEW c \in Clients, Files!Write(c) PROVE taken' = taken
  BY <1>4 DEF Files!Write, Files!netVars
<1>5. QED
  BY <1>1, <1>2, <1>3, <1>4 DEF Files!Next, Files!ServerStep

\* A line that comes back goes to the client that sent it, and no line comes back twice, at
\* the half-sync/half-async server, whose workers write as they please, and at the file
\* server, whose connections share one result: both implement the echo service.
THEOREM Implementation == Spec => ImplementsService
<1> DEFINE Safe == (program = "halfSync" => HalfSyncInv) /\ (program = "files" => FilesInv)
           P == program \in {"halfSync", "files"}
<1>1. Init => Service!Init
  <2>1. ASSUME HalfSync!Init \/ Files!Init
        PROVE  taken = [c \in Clients |-> 0] /\ echoed = [c \in Clients |-> <<>>]
    BY <2>1 DEF HalfSync!Init, HalfSync!NetInit, Files!Init, Files!NetInit
  <2>2. ASSUME Init, program \in {"halfSync", "files"} PROVE HalfSync!Init \/ Files!Init
    BY <2>2 DEF Init
  <2>3. QED
    BY <2>1, <2>2 DEF Service!Init
<1>2. Safe /\ [Next]_vars => [Service!Next]_(<<IF P THEN taken ELSE [c \in Clients |-> 0],
                                               IF P THEN echoed ELSE [c \in Clients |-> <<>>]>>)
  <2> SUFFICES ASSUME Safe, [Next]_vars
               PROVE  \/ Service!Next
                      \/ /\ UNCHANGED (IF P THEN taken ELSE [c \in Clients |-> 0])
                         /\ UNCHANGED (IF P THEN echoed ELSE [c \in Clients |-> <<>>])
    OBVIOUS
  <2>0. program' = program
    BY SameProgram
  <2>1. CASE program = "halfSync"
    <3>1. echoed \in [Clients -> Seq(1..Lines)] /\ HalfSyncInv
      BY <2>1 DEF HalfSyncInv, Accounted, TasksTyped
    <3>2. UNCHANGED <<taken, echoed>> \/ \E c \in Clients : LinesRead(c) \/ LineWritten(c)
      BY <2>1, <3>1, HalfSyncSteps, HalfSyncServes
        DEF HalfSync!vars, HalfSync!netVars, HalfSync!serverVars
    <3>3. QED
      BY <2>0, <2>1, <3>1, <3>2, ServiceSteps DEF Serving
  <2>2. CASE program = "files"
    <3>1. echoed \in [Clients -> Seq(1..Lines)] /\ FilesInv
      BY <2>2 DEF FilesInv, FilesTyped
    <3>2. UNCHANGED <<taken, echoed>> \/ \E c \in Clients : LinesRead(c) \/ LineWritten(c)
      BY <2>2, <3>1, FilesSteps, FilesServes DEF Files!vars, Files!netVars, Files!serverVars
    <3>3. QED
      BY <2>0, <2>2, <3>1, <3>2, ServiceSteps DEF Serving
  <2>3. CASE ~P
    BY <2>0, <2>3
  <2>4. QED
    BY <2>1, <2>2, <2>3
<1>3. QED
  BY <1>1, <1>2, HalfSyncInvariance, FilesInvariance, PTL DEF Spec, ImplementsService, Service!Spec

-----------------------------------------------------------------------------
(* Every server, whichever it is.                                          *)

Programs == {"halfSync", "reactor", "pool", "queues", "bounded", "listens", "files",
             "simple", "closing"}

LEMMA OneOfThem == Spec => [](program \in Programs)
<1>1. Init => program \in Programs
  BY DEF Init, Programs
<1>2. program \in Programs /\ [Next]_vars => (program \in Programs)'
  BY SameProgram
<1>3. QED
  BY <1>1, <1>2, PTL DEF Spec

\* The invariant of the server that runs.
ServerInv == /\ program \in Programs
             /\ program = "halfSync" => HalfSyncInv
             /\ program = "reactor" => ReactorInv
             /\ program = "pool" => PoolInv
             /\ program = "queues" => QueuesInv
             /\ program = "bounded" => BoundedInv
             /\ program = "listens" => ListensInv
             /\ program = "files" => FilesInv
             /\ program \in {"simple", "closing"} => SimpleInv

\* Whichever server runs, its invariant holds at all times.
THEOREM Invariance == Spec => []ServerInv
BY OneOfThem, HalfSyncInvariance, ReactorInvariance, PoolInvariance, QueuesInvariance,
  BoundedInvariance, ListensInvariance, FilesInvariance, SimpleInvariance, PTL DEF ServerInv

\* Reactors, workers and queues hold tasks and buffers for lines that have been sent.
THEOREM TypeCorrect == Spec => []TypeOK
<1>1. ServerInv => TypeOK
  <2> SUFFICES ASSUME ServerInv PROVE TypeOK
    OBVIOUS
  <2>1. program = "halfSync" => HalfSync!TypeOK
    BY DEF ServerInv, HalfSyncInv, HalfSyncTyped
  <2>2. /\ program = "reactor" => Reactor!TypeOK
        /\ program = "pool" => Pool!TypeOK
        /\ program = "queues" => Queues!TypeOK
        /\ program = "bounded" => Bounded!TypeOK
    BY ReactorHeard, PoolTypesOK, QueuesTypesOK, BoundedTypesOK DEF ServerInv
  <2>3. /\ program = "listens" => Listens!TypeOK
        /\ program = "files" => Files!TypeOK
        /\ program = "simple" => Simple!TypeOK
        /\ program = "closing" => Closing!TypeOK
    BY ListensOK, FilesOK, SimpleOK DEF ServerInv
  <2>4. program \in Programs
    BY DEF ServerInv
  <2>5. QED
    BY <2>1, <2>2, <2>3, <2>4, Zenon DEF TypeOK, Programs
<1>2. QED
  BY <1>1, Invariance, PTL

\* What a server has read is under way or has come back: the tasks of the half-sync/
\* half-async server and of JavaPA4 are each in one place, the thread pool owes one answer
\* for each message, and the other servers are about the latest of what they have read.
THEOREM LinesSafe == Spec => []LinesAccounted
<1>1. ServerInv => LinesAccounted
  <2> SUFFICES ASSUME ServerInv PROVE LinesAccounted
    OBVIOUS
  <2>1. /\ program = "halfSync" => HalfSync!LineInOnePlace
        /\ program = "bounded" => Bounded!LineInOnePlace
        /\ program = "reactor" => Reactor!LatestUnderWay
    BY HalfSyncPlaces, BoundedPlaces, ReactorHeard DEF ServerInv
  <2>2. /\ program = "pool" => Pool!MessagesAccounted
        /\ program = "queues" => Queues!OneBufferUnderWay
        /\ program = "files" => Files!NamesAccounted
    BY PoolMessages, QueuesOneBuffer, FilesOK DEF ServerInv
  <2>3. QED
    BY <2>1, <2>2, Zenon DEF LinesAccounted
<1>2. QED
  BY <1>1, Invariance, PTL

\* EchoServerHSHA writes a client's buffers in the order in which it read them, and
\* Program1's listeners echo each message once.
THEOREM OrderSafe == Spec => []EchoedInOrder
<1>1. ServerInv => EchoedInOrder
  <2> SUFFICES ASSUME ServerInv PROVE EchoedInOrder
    OBVIOUS
  <2>1. /\ program = "queues" => Queues!EchoedInOrder
        /\ program = "listens" => Listens!EchoedInOrder
    BY QueuesInOrder, ListensOK DEF ServerInv
  <2>2. QED
    BY <2>1, Zenon DEF EchoedInOrder
<1>2. QED
  BY <1>1, Invariance, PTL

\* The simple server lists the open connections that have not been served, and Program1
\* has as many listeners as connections, whichever of them each "quit" removes.
THEOREM ListsSafe == Spec => []ListIsCurrent
<1>1. ServerInv => ListIsCurrent
  <2> SUFFICES ASSUME ServerInv PROVE ListIsCurrent
    OBVIOUS
  <2>1. /\ program = "simple" => Simple!ListIsCurrent
        /\ program = "closing" => Closing!ListIsCurrent
        /\ program = "listens" => Listens!OneListenerEach
    BY SimpleOK, ListensOK DEF ServerInv
  <2>2. QED
    BY <2>1, Zenon DEF ListIsCurrent
<1>2. QED
  BY <1>1, Invariance, PTL
=============================================================================
