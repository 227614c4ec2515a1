# Specifications of the funStuff programs

The repository is a collection of small programs by one author: the
assignments of a course on concurrent programming (dining philosophers,
ping-pong, echo servers), of an algorithms course, of an NLP course, some
coding challenges and exercises in Octave and Python. There is no single
application; a *system* here is one program. This directory holds TLA+ models
of those programs, the TLC runs that check them, and TLAPS proofs about some
of them for instances of any size.

`CP` below stands for `src/concurrent_programming`, `posa` for
`CP/POSA - workspace/POSA - coursera/src/com/coursera/posa`, `AL` for
`src/algos_princeton`, `AS` for `src/assignments` and `NL` for
`src/NLPAssignments/src/com/coursera/nlp`.

* [Inventory](#inventory)
* [How the models are laid out](#how-the-models-are-laid-out)
* [The modules and the code](#the-modules-and-the-code)
* [Runs](#runs): what is checked, bounds, fairness
* [Disagreements](#disagreements) between the code and its comments
* [Proofs](#proofs)
* [Not modelled](#not-modelled)
* [Plan](#plan)

## Inventory

`PROJECT.json` lists every component with its files. In short:

| Component | State | Operations and interaction | What is hard | What makes it correct |
|---|---|---|---|---|
| Dinner table (`posa/diningphilosophers/DinnerTable.java`, `CP/PA2/Program.java`) | a flag and a Condition per chopstick, meals left per philosopher | philosopher threads call `eat()`, which takes and releases chopsticks under one lock; main starts them and spins on `isTerminated()` | `signal()` reaches one thread, `await()` returns spuriously, circular waiting | no chopstick in two hands, no lost signal, dinner ends |
| Dinners of `CP/PA2/submisions` | a monitor's flags; a lock per chopstick; philosopher states; holders and a token | the same with `wait/notifyAll`, lock per chopstick, status array, polling with atomics | barging, index arithmetic, `doneEating++` without a lock, get and set of a holder as two steps, starvation | the same, plus: the token visits everybody, main does not announce the end too early |
| Ping-pong programs (`posa/pingpong`, `CP/PA1`) | a flag, semaphores, a signal object, a counter, monitors, a rendezvous queue | two player threads and main | tests outside a lock, lost notify, last turns, a rendezvous with nobody left | strict alternation, as many lines as asked for, "Done!" last, termination |
| Echo servers (`posa/HSHA`, `posa/ReactorServer`, `posa/SampleReactor`, `posa/MultipleThreadsServer`, `CP/PA3`, `CP/PA4`) | selected keys, handlers, task stacks and queues, flags that keep loops running | a reactor thread accepts and reads, worker threads echo; they meet at a stack or a queue; clients over TCP | stale keys in the selected set, tasks taken in any order, failing accepts, reads and writes, clients that hang up at any time | a line is echoed once, in order, to its own client; loops stop when told and only then |
| Parser client with a pool (`NL/clients/ParserClientMultiThreaded.java`) | batches of sentences, a map of results, a cache of rules shared by all jobs | one job per batch; main spins on `isTerminated()`, then concatenates | a job that dies leaves no result; the cache is a HashMap without a lock; the last, shorter batch | output in input order, nothing lost, main comes to an end |
| Parser, tagger and segmenter (`NL/parser/CKYParser.java`, `NL/tagger/Viterbi.java`, `AS/nuvento`) | a chart, a table with back pointers, two tables of splits | dynamic programs, bottom-up or by recursion with a memory | keys packed into an integer, ties, minus infinity, sentences of one word | the best parse, tags or cut, against all there are |
| Algorithms (`AL`: percolation, deque and randomized queue, collinear points, 8 puzzle, kd-tree) | union-find, linked list, array with holes, priority queue, tree | sequences of calls by one thread | fields that have to agree after any sequence of calls, values carried along a search, equal coordinates | each against the obvious definition |
| Assignments (`AS/adaptv`: top transactions) | a heap and a map kept side by side | one pass over the input | repeated and rejected amounts | the N largest |
| Translators, estimators, product matcher | tables of floating point numbers | one pass over files | | see [Not modelled](#not-modelled) |
| Scripts of saved web pages (the `*_files` directories) | | the browser loads them | | see [Not modelled](#not-modelled) |
| Map-reduce scripts (`src/data_science`) | intermediate lists | map, group, reduce | order of emission | the join, the product, the asymmetric pairs |
| Clients, load testers, visualizers, vendored JSON, Octave exercises | | | | see [Not modelled](#not-modelled) |

The hazards, i.e. what a test of this code would hardly reach, are listed at
their lines under `hazards` in `PROJECT.json`, with the properties about each.

## How the models are laid out

Each program has a module of its own: its state as variables, one action for
every step another thread can observe, `Next`, `Spec`, a type invariant and the
program's own invariants. What a critical section does (a synchronized method up
to its return or its `wait()`, a block under a lock up to `await()`) is one
action, because nothing else sees its middle. Where the code reads and writes
without a lock, the read and the write are actions of their own.

Programs with the same purpose are checked together, by five modules that
compose them:

* `DiningPrograms`: the four dinners of `CP/PA2/submisions`.
* `PingPongPrograms`: the six ping-pong programs.
* `EchoServers`: the echo servers and the file server with their clients.
* `AssignmentPrograms`: the data structures and searches of the algorithms course,
  and `TopTransactions`.
* `LanguagePrograms`: the parser client with its pool, and the three dynamic
  programs.

A composing module instantiates the programs' modules with shared variable
names. Its `Init` picks a program (`program`), and each action is the
disjunction of the programs' actions, each enabled for its own program only. A
behaviour is thus a behaviour of one program; variables that program does not
have stay at the value `Init` gave them. The gain is that one set of properties
is stated once for the family: the abstract specifications, "everybody eats all
its meals", "Done! is printed", "every line is answered". A property that only
makes sense for one program is guarded by `program = ...`.

Abstract specifications say what the families promise:

* `Dining`: philosophers in a ring start and finish meals, neighbours never eat
  at the same time, everybody eats `Meals` times.
* `PingPongGame`: two sides print in strict alternation, each no more than the lines
  it was given, and "Done!" appears only when both have printed all of theirs.
* `EchoService`: a line that has arrived from a client goes back to it, at most
  once.
* `ItemSequence`: items are added and removed at the two ends of a sequence.
* `PointSET` (the brute force class of the course itself): the points in a
  rectangle, and the nearest point, by looking at all of them.

They are implemented through `INSTANCE ... WITH` a refinement mapping, and the
abstract `Spec` is a PROPERTY of the run.

Above many definitions there is a *mutant*: the same definition with a plausible
slip (a dropped guard, an index off by one, `notify` for `notifyAll`).
`PROJECT.json` says which property fails when the mutant takes the place of the
definition, one for each property of a run; where a property is about several
programs, the other mutants show that it is sensitive to each of them. They are
used nowhere else.

## The modules and the code

### Dining

| Module | Code | State and actions |
|---|---|---|
| `DinnerTable` | `posa/diningphilosophers/DinnerTable.java`; `CP/PA2/Program.java` is the same program as it was handed in | `available` = the chopstick flags, `counter` = meals left, `pc` and `round` = where in `eat()` a philosopher is and whether it is about its first or second chopstick. `Execute` = main starts a thread, `Run` = the loop test, `Take`/`Await` = `getChopStick`, `Eat`, `Release` = `releaseChopStick` with its `signal()` (any one waiting thread, if there is one) and `counter--` after the second, `DinnerIsOver` = main's spin ends |
| `MonitoredTable` | `DiningPhilosophers.java` | `pickSticks` (`PickSticks`, `Wait`) and `putDownSticks` (with `notifyAll`), each atomic up to its `wait()` |
| `ResourceHierarchy` | `Program2.java` | one lock, condition and flag per chopstick; the lower number first. `GetHungry` = `nextBoolean()` says eat |
| `TableMonitor` | `DiningPhilosophers2.java` | `pickUp` and `putDown` with exactly the array entries they touch; `ReadDone` and `WriteDone` = the two halves of `doneEating++`; `Announce` = main's poll of `allDone()` |
| `TokenDining` | `javaprogram.java` | `LookAtToken`, `SeeFork` = `holder.get()`, `TakeFork` = `holder.set()`, `PassToken` (two seats on), `PutLeft`, `PutRight`, `TestEnd`, `SetEnd` = main setting the flags one by one after 15 seconds |
| `Dining`, `DiningPrograms` | | the promise, the composition |

Spurious wakeups of `wait()` and `await()` are actions, as often as they like,
without fairness.

### Ping-pong

| Module | Code | State and actions |
|---|---|---|
| `BarrierPingPong` | `posa/pingpong/PingPong.java`, `CP/PA1/Program.java` | CyclicBarrier of three (`Await`), the flag polled, the line printed, the flag moved as three steps, main's spin on `isAlive()` |
| `SemaphorePingPong` | `CP/PA1/submissions/Solution/PingPong.java`, `PingPong-TemplateMethod.java` | `Acquire`, `PrintLine`, `Release`, `EndOfLoop` (test, count down the latch), `Done` = `latch.await()` returns |
| `WaitNotifyPingPong` | `CP/PA1/submissions/HW4_1.java` | `Echo` and `Wait`: a pass through the synchronized block; `Notified` = whom `notify()` reaches; `Done` = both joins |
| `PrintTimesPingPong` | `CP/PA1/submissions/PingPong.java` | `Poll` of the counter outside the lock (a data race; stale reads only make a thread sleep again), `PrintToConsole` under the lock, exit of the program. The code's bound 5 is `LastPrint`, `2 * Runs - 1`, so that it prints `Runs` lines on each side |
| `TokenPingPong` | `CP/PA1/submissions/Program.java` | `Test` of the turn (which may see an older value), `PrintLine`, `Notify`, `Wait`: the test and the `wait()` are separate steps because no common lock holds them together |
| `BallGame` | `CP/PA1/submissions/Game.java` | `Ready`, `Pass` (a `put` and a `take` of the SynchronousQueue are one rendezvous), `Bounce`, `GameOver` |
| `PingPongGame`, `PingPongPrograms` | | the promise, the composition |

`HW4_1`'s constructor gives Ping ten turns (`PingTimes`) and Pong the five that were
asked for (`Runs`). Ping therefore prints a sixth line after Pong has left, waits for an
answer for ever, and `join()` never returns (`LeftAlone`). The composition gives each
player of a program the lines that program gives it (`Given`). In `BallGame` players
left over when the game is over keep waiting in `take()`; `GameOver` is what main sees.

### Echo servers

`Sockets` is the world outside: clients that connect, send numbered lines and
hang up at any time, and a TCP connection that delivers the lines in order and in
pieces. It is external, modelled from how the servers use it. A server reads
whole lines (see [Not modelled](#not-modelled) for pieces of lines).

| Module | Code | State and actions |
|---|---|---|
| `HalfSyncHalfAsync` | `posa/HSHA/HalfSyncHalfAsync.java`, `CP/PA4/HalfSyncHalfAsync.java` | the reactor adds a task per line, one at a time (`toAdd`, `AddTask`), to a `java.util.Stack`; workers `Pop` under their monitor and `Execute`; a failing accept stops reactor and pool |
| `EchoReactor` | `posa/ReactorServer/EchoReactor.java` | `selected` and `round`: the selected set, from which no key is ever removed, and the keys still to be handled before the next `select()`; `Read` adds a task with *all* that has been read, on every call |
| `ThreadPool` | `posa/SampleReactor` | the reactor, its `ConnectionAcceptor` and `ConnectionReader`, the stack, the workers and the flag they share (`shouldRun`), which a failing task clears; `ReadFails` leaves the reactor stuck in the reader's loop |
| `EchoServerHSHA` | `CP/PA4/submissions/EchoServerHSHA.java` | a handler per client that reads (`curState`), gives the buffer to an executor (`inQueue`, `jobs`), and writes what comes back (`outQueue`) |
| `JavaPA4` | `CP/PA4/submissions/JavaPA4.java` | a read joins the pieces of lines to what it has kept (`partialData`), the reactor blocks in `Put` while the queue is full, workers `EnterGet` a synchronized `get()`, in which one of them may block while the others wait outside, `Take` and `Write` |
| `Program1` | `CP/PA3/evaluation/Program1.java` | `Dispatch` hands a readable channel to every listener of a clone of the list (`calls`); `EchoMessage`, `Quit` (closes the channel and removes the listener that has read it, seldom that of the connection), `NoMessage` for those that come too late |
| `NonBlockingServer` | `posa/NonBlockingServer/NonBlockingServer.java` and its copies in `CP/PA3` | `Handle` = a key, as readable and then as writable, each with a read (`ReadName`, `ReadNothing`, `ReadFails`) into the shared `result` and a `Write` of the file it names; a failing read after an answer is a NullPointerException that ends the server |
| `SimpleServer` | `posa/MultipleThreadsServer/SimpleServer.java`; with `Closes`, `CP/PA3/Server.java` | `Accept`, then `Serve` in the same thread because `run()` is called instead of `start()` |
| `EchoService`, `EchoServers` | | the promise, the composition |

In `HalfSyncHalfAsync`, `ThreadPool` and `EchoServerHSHA` a handler called for a
key that is no longer ready changes nothing, so stale keys are no step there; in
`EchoReactor` they add tasks, and are modelled. Names that `NonBlockingServer` reads
together are one name, of no file: `merged` remembers whose they were, and a
client that sends its second request before the first has been answered may get
nothing.

### Algorithms and assignments

Sequential programs: an action is a call (or one round of a search), and a
behaviour any sequence of calls within the bounds.

| Module | Code | State and actions |
|---|---|---|
| `Deque` | `AL/PA2/assignment2/Deque.java` | `nodes` in the order in which they were made, with their links; nodes that have been removed keep them. `AddFirst` ... `RemoveLast`, `StartIterator`, `NextItem`; `owed` (history) = what the iterator has begun with and not come to |
| `RandomizedQueue` | `RandomizedQueue.java` | the array with its holes (`emptySites`), `Enqueue` with its resize, `Dequeue` and `Sample` with the compaction before them; the random index is any index with an item |
| `Percolation` | `AL/PA1/percolation/Percolation.java` | the two union-finds as partitions of the sites; `Open` |
| `TopTransactions` | `AS/adaptv/TopTransactions.java` | the heap of amounts and the map of their customers; `Add`. `get()` sorts each list of customers in place before anybody sees it, so a list is a bag of customers here, and `get()` changes nothing |
| `Solver` | `AL/PA4/8puzzle/Board.java`, `Solver.java` | the queue of nodes with the distances carried along; `Expand` takes the node with the least priority, of equal ones any, `Finish` gives the verdict |
| `KdTree`, `PointSET` | `AL/PA5/kdtree` | the tree with the rectangles of its nodes; `Insert`; a query is asked (`Ask`) and visits a node at a time (`VisitInRange`, `VisitNearest`) |
| `Fast` | `AL/PA3/collinear` | slopes as fractions; `Search` = one round of the loop over the points, with the slopes it remembers for each |
| `ItemSequence`, `AssignmentPrograms` | | a promise, the composition |

### Programs on text

| Module | Code | State and actions |
|---|---|---|
| `ParserJobs` | `NL/clients/ParserClientMultiThreaded.java`, with the cache of `NL/parser/EmmissionEstimator.java` | main: `Take` a sentence, `LastBatch`, `Awake` (the spin ends), `Write`; a job: `Start`, `NextSentence`, `Lookup`, `Get`, `PutBegins`, `PutEnds` for each nonterminal's rules, `Done`. Of a HashMap without a lock the model assumes nothing: a search during a put may miss what is there, overlapping puts may lose entries or close a circle in which a job stays (`Circle`) |
| `CKYParser` | `NL/parser/CKYParser.java` | `Fill` = one entry of the chart, in the order of the loops, under its integer key (`getKey`, with the sixteen bits it keeps of the hash code of a nonterminal, `Kept`); `FirstAsked` and `Words` = the entries of single words, made on demand by `pie()`; `Parse` = `toJSON` of the root |
| `Viterbi` | `NL/tagger/Viterbi.java` | `Fill` = the part of the table for one word, `Tag` = the way back from the end |
| `Segmenter` | `AS/nuvento/solution/Segmenter.java` | `Segment` = a return of the recursion, with both tables |
| `LanguagePrograms` | | the composition |

Estimates are small negative integers for logarithms of probabilities. The
constants the code mixes with them keep their meaning: minus infinity,
`-Double.MAX_VALUE` (which swallows what is added to it), and
`Double.MIN_VALUE`, which is a tiny positive number and no logarithm of a small
one. `Viterbi.get3gramEstimate` returns the latter for a pair of tags it has never
seen, which makes such a pair as likely as anything can be, while the comment
above it speaks of a maximum likelihood estimate: see [Disagreements](#disagreements).
`BestFound` compares sums of what the code returns, whatever they are worth.

A key of the parser is `(X.hashCode() << 16) + (i << 8) + j` in an int, so that it keeps
the lowest sixteen bits of a hash code. Two nonterminals that are alike in them share
their entries: whichever is written or asked for last, or first, stands for both.
`hashCode` gives every nonterminal a hash code, the one of `"SBARQ"` to the root, and
the run has among the others one that differs from it in the upper bits only. What the
code keeps in that case is that no span is asked for before it is there, that a Pie is
one of the span that was asked for, and that a tree which is printed has the words of
the sentence in their order; that it is the best tree holds as long as the kept bits
tell the nonterminals apart (`HashesDiffer`), and `BestFound` says both.

A sentence of one word leaves the chart empty and its parse ends in a
NullPointerException (`CKYParser`); in the parser client that job dies, the main
thread writes the batches before it and dies in turn, with the file not closed
(`ParserJobs`). An input file without sentences makes the batch size 0 and ends in
an ArithmeticException.

## Runs

| Run | Instance | States | What it checks |
|---|---|---|---|
| `dinner_table` | `N = 5`, `Meals = 2` | 430 000 | types, `ChopsticksConsistent`, `NoLostSignal`; the table implements `Dining`; dinner ends |
| `dining_programs` | `N = 5`, `Meals = 2` | 465 000 | no lost wakeup in any of the four; chopsticks or forks agree with who eats (`HoldersAgree`); only the token's owner reaches (`OneReaches`); `OverMeansEaten` of the states program; two programs implement `Dining`; dinner ends for everybody and with the token everybody eats again and again |
| `ping_pong_programs` | `Runs = 5`, three ball players, seven bounces | 556 | five programs implement `PingPongGame`; `OnePermit`; what a thread has tested still holds when it acts (`TestStillHolds`: no notify is lost, and the parity is still the one read); `TakerLeft`; four programs end, Ping of the wait/notify program is left alone for ever (`GameEnds`), and the token program may hang |
| `echo_servers` | two clients, two lines (one for `EchoReactor`), two workers, a queue of one | 87 000 | `LinesAccounted`: what has been read is under way or has come back, in each server's own way; `EchoedInOrder`; `ListIsCurrent`; two servers implement `EchoService`; every line is answered unless the code excuses itself; workers leave when the reactor stops |
| `assignment_programs` | see below | 225 000 | `NothingSkipped` of the deque and its iterator, `SitesAgree`, `FullIsWet`, `LargestKept`, `DistancesRight` and `ShortestFound` of the 8 puzzle, `LinesOnce`; the deque implements `ItemSequence` and the kd-tree `PointSET` |
| `language_programs` | see below | 2 290 000 | `OutputInOrder` and `ProgramEnds` of the parser client, `BestFound` of the three dynamic programs |
| `table_monitor_neighbours`, `token_ping_pong_active`, `echo_reactor_tasks`, `thread_pool_workers`, `simple_server_threads`, `language_programs_estimates` | small | | one disagreement each, see [below](#disagreements) |

**Bounds.** `N = 5` is the number of philosophers in the code. It matters: with an
odd ring the token, moving two seats at a time, visits everybody, and the parity
rule of `DinnerTable` is unbalanced at one seat. The code's five (or other
numbers of) meals are two: one meal that is followed by another and one that is
the last, the two cases the code distinguishes. `Runs = 5` is what the ping-pong
programs ask for, or more (some ask for three). Two clients are enough to mix
up connections, two lines to mix up lines of one connection, two workers to
overtake each other. `EchoReactor` repeats everything it has read, so its stack
grows without end for stale keys; with `FewerLines = 1` the number of reads per
selection keeps the state space finite, and the repetition itself is shown by the
run `echo_reactor_tasks`. No run has a state constraint or symmetry.

`assignment_programs`: four nodes and two items make every way to empty a deque
and fill it again from either end, with an iterator on a node that is removed.
`initialCapacity = 2` and five items let the array of the randomized queue double
twice, have holes, and be compacted (the code starts with another capacity; the
rules are the same). Grids of one, two and three sites are all the shapes of a
path that matter here: one that winds, one that hangs from the bottom only, and
the grid of one site, which the code treats apart. Four amounts, of which two are
kept, and five transactions repeat, reject and replace amounts. The boards are the
2 by 2 ones at most six moves from the goal or its twin, which are all of them,
and both verdicts occur. Three points on a 3 by 3 grid have equal
coordinates of both kinds at all levels; four to seven points, chosen
from ten on three lines that meet, have two lines of four.

`language_programs`: three threads and up to five sentences give batches of one and
two with a shorter last one, fewer sentences than threads, and none. Sentences
of three words have trees of both shapes, and two nonterminals every set of
binary rules over them, with hash codes that are the same, alike in the kept bits, or
different; three words and two tags reach the trigram case of the
tagger; four characters have eight cuts. All estimates, sets of rules and of known pairs
are taken, not chosen.

**Deadlock** is checked in the dinners and games, where a program that has ended
stutters explicitly (`Ended`, `Rest`), so that a deadlock of the model is one of
the code. A server waits for ever once its clients are silent, so
`CHECK_DEADLOCK FALSE` is set there and `EveryLineAnswered` takes its place. It is
also set for the two families of algorithms, which stop at their end or their
bounds; that the searches and the parser client come to their end is what
`ShortestFound` and `ProgramEnds` are about.

**Fairness.** Each thread has weak fairness of its own: the JVM runs every
runnable thread some day, and a thread woken from a wait or spinning on a lock
or a flag gets on with it. Further assumptions:

* A lock in these programs may be taken by somebody else again and again, but
  every program bounds how often (meals, lines), so weak fairness suffices.
* `ResourceHierarchy`: `nextBoolean()` is true some day (fairness of `GetHungry`,
  a part of the philosopher's step).
* `TokenDining`: when the 15 seconds are over is left open; `TimeUp` has no
  fairness. Once main has set the first flag it goes on.
* Servers: a reactor handles every key that stays ready (weak fairness for each
  client's `ServerStep`); `accept()` of the thread-based server hands out pending
  connections in turn, and the rounds of `Program1` and `NonBlockingServer` come to
  every selected channel (strong fairness of `InTurn`).
* Clients owe nobody anything, except that for the two `SimpleServer` programs a
  connected client says something or hangs up (`FirstWord`); the run
  `simple_server_threads` shows what happens otherwise.
* The parser client: each thread of the pool and main run on; `Circle` has no
  fairness, and `ProgramEnds` is claimed unless two puts have overlapped.
* Failures, hang-ups and spurious wakeups have no fairness.

`Excused` in `EchoServers` lists when an unanswered line is no violation: its
client hung up or quit, the server stopped, or (file server) its names were read
together. For the thread pool any client
that hangs up can stop all the workers (the run `thread_pool_workers`), so there
any hang-up is an excuse.

## Disagreements

Each run below ends, as expected, with a counterexample to what a comment says;
`PROJECT.json` has the quotes.

* `DiningPhilosophers2.java:94`: philosopher `p` owns entry `p - 1` of the array,
  but `pickUp` tests `p - 1` and `p + 1`: itself and the philosopher two seats
  on. Neighbours eat together (`NeighboursApart`). What the code does keep is
  that not all eat at once (`SomebodyThinks`).
* `CP/PA1/submissions/Program.java:108`: the turn is read outside any monitor, so that
  a writer may act on one that is over: because the other prints, passes the turn and
  notifies between the test and the `wait()`, or because, as in TLC's shortest
  trace, the notify is complete and the read, which nothing synchronizes, still returns
  the old value. Either way the notify has come before the `wait()` and is lost, and both
  writers wait for ever (`ActiveTokenIsActive`).
* `EchoReactor.java:191`: the reader never clears what it has read, and is called
  for stale keys; earlier lines are echoed again (`TaskPerLine`).
* `SampleReactor/ThreadPool.java:35`: one failing answer ends all the workers
  while the reactor goes on (`WorkersConstantlyTry`).
* `SimpleServer.java:136`: `run()` for `start()`, so one silent client stops the
  server (`OwnThread`).
* `Viterbi.java:62`: `Double.MIN_VALUE` stands where the logarithm of an estimate for a
  pair of tags that was never counted should be. After such a pair every tag, and the end, is
  certain (`EstimatesAreLogs`). Where the counts are complete this does no harm, because
  the trigram that leads into the pair was not counted either and its minus infinity remains;
  where they are not (the constructor goes on after an IOException) it decides on the tags.

Behaviours the models have that are not stated as runs because nothing in the
repository says otherwise: Ping of `HW4_1` has ten turns whatever `main` asks for, so
that "Done!" never comes, which `GameEnds` states as what the program does
(`HW4_1.java:159`); a lost `doneEating++` keeps main of
`DiningPhilosophers2` polling for ever (`DinnerEnds` is claimed for its
philosophers, not for main); a write that throws leaves a handler of
`EchoServerHSHA` in its write state for good; a reset connection keeps the reactor
of `SampleReactor` in `ConnectionReader.read`; and a client of `NonBlockingServer` whose
request arrives between the two reads of its key, and that resets its connection
after the answer, ends the server for everybody.

## Proofs

TLC checks the instances above; TLAPS proves what follows for every value of
the constants, under the assumptions named in the modules: at least two
philosophers (`NAssumption`), numbers that are numbers, finite sets of clients and
workers (`ServersAssumption`, which also says that no client has the name of
nobody), at least two players (`BallAssumption`), no null among the items of a
queue (the code throws for it) and boards and trees of at least two by two
(`AssignmentAssumption`), a thread or more for the parser (`LanguageAssumption`), and
estimates that no sum carries below the numbers that stand for the least ones of int
and double (`EstimatesAssumption`). The last one also says that a sentence has at most 256
words: the keys of the parser have eight bits for each end of a span, and a longer
sentence would confuse its spans. Of the hash codes nothing is assumed. Each module of
proofs extends a composing module (the proofs of `DinnerTable` are in that module), so that
the theorems are about the very properties the run of that module checks.

A composition runs one program, so its invariant says `program = p => Inv_p`, one
part for each program, and a step is first shown to be a step of that program's
own module (the lemmas `...Steps`). What each part has to say beyond the property:

* **`DinnerTable`** (after its properties): `TypeCorrect`, `ChopsticksSafe`,
  `SignalsSafe` and `Implementation`. The invariant is the type invariant,
  `ChopsticksConsistent` and `NoLostSignal`, strengthened by `MealToFinish`: whoever is
  in `eat()` has a meal left, without which `counter--` could leave its type. The
  argument about `signal()` is that a chopstick has two users, so when one of them
  releases it at most the other can be waiting (`TwoUsers`), and waking one is waking
  all. `Implementation` maps every step to a `Start`, a `Finish` or a stutter of
  `Dining`.
* **`DiningProgramsProofs`**: all five invariants of the four dinners, and that two of
  them implement `Dining`. A philosopher of the token program between
  `holder.get()` and `holder.set()` relies on a value it has read; `StillFree` says the
  value still holds, because whoever could change it would need the token.
  In the hierarchy `HierarchyHeld` says what a philosopher has in hand from where it is in
  `run`, and that no two have the same (`HierarchyApart`) is what makes a flag and its
  holder one thing. `HoldersSafe` assumes `N >= 3`: with two seats, the seat two
  further on, which the states program tests for a neighbour, is one's own, and both can eat;
  the other dinners need no such assumption (`HoldersSafeOfTwo`).
  `StatesCounted` says that `doneEating`, and what a thread has read of it, is
  at most the number of those who have gone, whatever updates are lost;
  `OverIsRight` follows.
* **`PingPongProgramsProofs`**: all four invariants and, for five programs,
  `Implementation`: each player prints no more than its program gives it, in turn, and
  "Done!" comes only when both have printed all of that. The invariants say where the
  one permit, flag or turn is (`PrintersTakeTurns`), that Ping is one line ahead exactly
  while it is Pong's turn (the turns left to the players of the wait/notify program
  differ by what they were given), what the latch, the joins or `isAlive` have counted,
  and that a value that a thread has tested can only be changed by that thread
  (`TestsHold`).
* **`EchoServersProofs`**: all four invariants for the nine servers, and
  `Implementation` for the two that implement `EchoService`. For half-sync/half-async
  and for `JavaPA4` the invariant is `Accounted`: a line read is in one of four places
  (with the reactor, in the queue, with a worker, at its client), once in it
  (`OnceEach`) and in no other (`Apart`). It is stated for any such places and shown to
  survive what a server can do with a task (`TasksRead`, `TaskQueued`, `TaskTaken`,
  `TaskDone`), then used for both. The count of copies in `LineInOnePlace` follows from
  it. A closed connection owes nothing because the reactor closes one only when it has
  read all of it (`ClosedAtEnd`). For the in and out queues `Flow` follows a client's
  one buffer on its way, and what has come back is `1, 2, ...`; order needs no more than
  that. For the echo reactor, `Heard` says that a message with all that has been read of
  a client is on the stack, in hand or back; for the thread pool, answers given, stacked
  and in hand are balanced with the messages read (`Balanced`). `Program1` has a
  listener for every open connection because a "quit" both closes one and removes one;
  its `Ascending` says that echoes go up. The file server shares one result among all
  connections; `JustRead` says whose it is while it is being answered.
* **`AssignmentProgramsProofs`**: `SitesSafe`, `LargestSafe`, `FullSafe`, `NothingSafe`,
  `DequeImplementation`, `DistancesSafe`, `KdTreeImplementation`, `LinesSafe`, and
  `TypesSafe` for all seven programs together.
  The randomized queue's invariant (`Sane`) is about the array: the remembered sites are
  the holes before `last`, none twice, nothing is behind `last`, and `size` is the
  number of items. The heap's is that
  what has come and is not kept is below all that is kept. Percolation's is that
  the two partitions are the connectivity of open sites (with
  the virtual ones); it is stated through closed sets of sites, since a path is an
  induction. The inductions that are needed (a least number, a rank of a finite set)
  are carried out by the well-founded subset orderings of the library, which need
  no operator as a parameter. The deque's invariant names the nodes of the deque in
  their order (`Chain`), so that nothing has to be said of a walk until the end, where
  `WalkIs` shows that a walk known step by step is the walk. The two ends are the same
  lemma: a chain read backwards is a chain (`ChainTurned`). `Ahead` says what a node
  that has gone still leads to: the iterator stands before a suffix of the deque, with
  all it owes in it, or it owes nothing that is still there. `removeLast` may cut that
  suffix down to nothing, which is where a weaker invariant fails: the links of a node
  that has gone then lead nowhere, and rightly so.

  `DistancesSafe` is about a distance that is carried along, changed by the one tile that
  has moved, and a distance that is summed up. A sum over squares does not depend on
  their order (`AnyOrder`), so what a move adds is the difference of two parts
  (`ManhattanMoved`, `HammingMoved`), and it is only one tile's because every board of
  the search is a permutation: two squares exchange what is on them and one is empty.

  The kd-tree's invariant is about ways. `TreeGrown` says that every node has a depth,
  at which the way to its point finds it, and that a child's way is the node's own way
  one step on, in that part of the node's rectangle that is on its side. A point that is
  inserted ends its way at null, below a node that has room there (`EndsThere`), and no
  other way changes (`HungWays`). What is below a node is then what has a way through
  it, and is in its rectangle (`BelowEnclosed`), which `RectsSafe` says of the tree as
  it is linked. A query adds that no point is missed: for `range()`, a point of the
  rectangle has been found or is below a node in the queue (`RangeFits`); for
  `nearest()`, a point that is below none is no nearer than what has been found
  (`NearestFits`). It is the latter that lets the search stop at distance 0 and drop a
  node for its rectangle. When the queue is empty nothing waits, and the answer is that
  of `PointSET`.

  `LinesSafe` begins with slopes. A fraction in lowest terms has the least denominator of all
  that are equal (`Lowest`), so that two points have one slope, whichever of them it is
  taken from (`SlopeBack`), and a third point with the slope of the second as seen from the
  first has it as seen from the second too (`SlopeOnward`): a line is the same line
  from each of its points (`ThroughAny`). The sorts of the code are rankings by a strict
  order (`InOrder`), which is all that is needed of them. `FastInv` then says
  that a point which is still to come has been told of exactly those of its lines that
  a point before it is on (`KnowsLines`), and that these lines have been printed, each
  once (`LinesFound`). The proof takes the set of points for what it is, finite and in the plane;
  which points they are matters to TLC only.
* **`LanguageProgramsProofs`**: `OutputSafe` and `ThreadForEveryJob`, for any number of
  threads and sentences; `BestSafe` and `TypesSafe`. `JobsInv` says that the batches are
  the file, cut from its beginning, all of the batch size but the last (`JobsFit`); that
  the map has for a job the parses of that job's batch or nothing (`ParsesFit`); and
  that the output is the first of these batches (`WrittenFits`). The size is rounded up,
  so that as many batches as there are threads are always enough.

  `BestSafe` is about all trees, tags and splits, of which there are far more than
  entries in a table. `ChartInv` says that what is under a key is a Pie of the span of
  the key, and that it points to the Pies of two parts which give its value (`PieFits`):
  shorter spans are filled first (`NextCellIs`), and no two spans have one key, whatever
  the hash codes are (`KeysDiffer`). From this alone the leaves of a tree are the words
  of its span. If the kept bits tell the nonterminals apart, the value is that of the
  best tree over the span, because a best tree consists of best trees (`JoinedIs`).
  `TaggerInv` says that an entry is the best of those it can come from (`EntryFits`),
  from which it follows word by word that no sequence of tags is better than the entry
  it would come by (`NoneBetter`), and that the way back from an entry comes to its
  value (`TracedIsAsGood`). `SegmenterInv` says of every rest what is to be shown of the
  whole hashtag (`RestFits`). The reference definitions are recursive functions and a
  sum over a set. There is no theorem that unfolds a recursion, so each is first shown
  to exist on spans, beginnings or subsets up to a number, by a least counterexample
  (`LeastNumber`), and is then known by the equation that it fulfils. The rules, words
  and pairs of tags that are known and the estimates of the segmenter's words are any
  there are, in sentences and hashtags of any length within the bounds; what a known
  word, a rule or a trigram of the parser and the tagger is worth is fixed, by
  `RuleEstimate`, `get3gramEstimate` and `Init` of the modules. `TypesSafe` rests on the
  same invariants.

What only TLC checks, and why:

* all liveness, and the absence of deadlock: fairness and ENABLED are out of the
  prover's reach. The fairness assumed is [above](#runs);
* `ShortestFound`: that every board or its twin can be solved is the theory of the parity
  of permutations, and its reference definition looks at boards `Within` moves only.

## Not modelled

* Sleeps and timing: a sleep is a step that may come at any time. Interrupts,
  which nothing in these programs sends, except by `shutdownNow()` where it ends a
  write (`TaskFails`).
* Short writes of a SocketChannel, and pieces of lines in the servers other than
  `JavaPA4`.
* Two steps that are coarser than the code, on which no property depends: `ThreadPool.Read`
  adds the tasks of one read at once, where the loop of `ConnectionReader.java:83` pushes them
  one by one; and an IOException of the write in `EchoReactor.java:122` is taken for
  that of a client that has hung up, after which nothing is owed to it.
* The status display of `javaprogram.java`, which only reads, and the console
  output apart from the lines counted above.
* `posa/pingpong/PingPongMonitor.java`: an abandoned attempt that holds its
  monitor for ever and about which no comment says anything.
* The interactive clients and load testers: straight-line programs whose
  behaviour towards a server is `Sockets`.
* The vendored `org.json` library, the Octave exercises (linear algebra over
  floating point numbers), visualizers and file input and output.
* **The JavaScript.** Every `.js` file of the repository belongs to a saved web page of
  the course site (the `*_files` directories): minified builds of Google
  Analytics, Twitter's widgets, MathJax, jQuery, RequireJS, and of the course
  platform's forum, one line per file, in up to thirteen copies. None of it is code
  of this project, nothing here calls it, and it only runs in a browser that shows
  those pages. It is left aside as third-party code.
* Servers that work for one client at a time or answer on a connection they have
  mixed up: `CP/PA3/evaluation/Program.java` keeps one `serviceHandler`, that of the
  last accept, and uses it for every event; `CP/PA4/submissions/EchoServerHandler.java`
  overwrites the channel of its only handler with every connection. With two
  clients they keep nothing of the promise of `EchoService`, and nothing in them
  says they should. `ReactorServer.java` and `Main.java` of `CP/PA3/evaluation` serve one
  connection after the other.
* `Brute` of the collinear points goes through all sets of four points, as the
  property `LinesOnce` does. `PercolationStats`, `Subset`, `yoda` with `OrderedHashMap`,
  and `PuzzleChecker` are straight-line uses of what is modelled, or averages.
* The translators (`NL/translator`), the estimators of counts and the product matcher:
  sums and products of floating point numbers in one pass over the data.
* The map-reduce and tweet scripts (`src/data_science`): a mapper and a reducer each,
  run by a sequential class that groups by key.

## Plan

Done: the dinners, the ping-pong programs, nine servers, the collections and searches,
the parser client and the dynamic programs, five abstract specifications,
six modules of proofs, in which every invariant of a run is proved but one. Next, most
important first:

1. **Proofs**: the parity of permutations, on which `ShortestFound` rests.
2. **More programs**: the MapReduce class with the scripts' mappers and reducers.
