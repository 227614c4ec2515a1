----------------------------- MODULE ParserJobs -----------------------------
(***************************************************************************)
(* clients/ParserClientMultiThreaded.java: the sentences of a file in      *)
(* batches, a thread of a pool for each batch, a map from the number of a  *)
(* batch to its parses, and one output file in the order of the input.     *)
(* All jobs share the estimator, whose cache of rules                      *)
(* (EmmissionEstimator.getBinaryRules) is a HashMap without a lock.        *)
(*                                                                         *)
(* A sentence is its number, a parse the number of its sentence.  What an  *)
(* unlocked HashMap may do while a put is under way: a search misses any   *)
(* key, and get() returns null.  Two puts at a time may lose entries, or   *)
(* link a chain of the table into a circle, in which whoever searches it   *)
(* stays.                                                                  *)
(***************************************************************************)
EXTENDS Naturals, Sequences, FiniteSets

CONSTANTS nthreads,
          Nonterminals,  \* those whose rules every parse looks up, in order
          MaxSentences   \* bound: sentences in the input

VARIABLES sentences,       \* the input: of each sentence whether it is one "word" or "more"
          main,            \* where the main thread is
          taken,           \* sentences that have been put into a batch: count - 1
          batchSentences,
          jobs,            \* jobs[b]: the job of batch b
          threadParse,     \* threadParse[b]: the parses of batch b
          output,          \* the lines written
          rulescache,      \* the nonterminals whose rules are in the cache
          clash            \* two puts have overlapped

vars == <<sentences, main, taken, batchSentences, jobs, threadParse, output,
          rulescache, clash>>

batchNumber == Len(jobs)
Finished == {"done", "died"}

Init == /\ sentences \in UNION {[1..n -> {"word", "more"}] : n \in 0..MaxSentences}
        /\ main = "batching"
        /\ taken = 0
        /\ batchSentences = <<>>
        /\ jobs = <<>>
        /\ threadParse = <<>>
        /\ output = <<>>
        /\ rulescache = {}
        /\ clash = FALSE

\* Mutant of batchSize: the division that rounds down.
RoundedDown == IF Len(sentences) < nthreads THEN 1 ELSE Len(sentences) \div nthreads

\* ceil(sentences.size() / nthreads).
batchSize == (Len(sentences) + nthreads - 1) \div nthreads

\* spawnJob().
Job(batch) == [batch |-> batch, at |-> 1, looks |-> 1, pc |-> "queued"]

\* One round of the loop over the sentences.
Take == /\ main = "batching"
        /\ taken < Len(sentences)
        /\ taken' = taken + 1
        /\ LET batch == Append(batchSentences, taken + 1)
           IN IF (taken + 1) % batchSize = 0
              THEN jobs' = Append(jobs, Job(batch)) /\ batchSentences' = <<>>
              ELSE batchSentences' = batch /\ UNCHANGED jobs
        /\ UNCHANGED <<sentences, main, threadParse, output, rulescache, clash>>

\* Mutant of Left: a last batch that is not full is forgotten.
NothingLeft == FALSE

\* Sentences are left for a last batch.
Left == taken % batchSize # 0

\* The last batch, and shutdown().  A file without sentences makes batchSize 0 and
\* the remainder an ArithmeticException.
LastBatch == /\ main = "batching"
             /\ taken = Len(sentences)
             /\ IF batchSize = 0
                THEN main' = "died" /\ UNCHANGED jobs
                ELSE /\ main' = "waiting"
                     /\ jobs' = IF Left THEN Append(jobs, Job(batchSentences)) ELSE jobs
             /\ UNCHANGED <<sentences, taken, batchSentences, threadParse, output,
                            rulescache, clash>>

\* Mutant of Terminated: it waits for every job to put its parses into the map.
AllParsed == DOMAIN threadParse = DOMAIN jobs

\* isTerminated(): all jobs have ended, however they ended.
Terminated == \A b \in DOMAIN jobs : jobs[b].pc \in Finished

\* The spin on isTerminated() ends.
Awake == /\ main = "waiting"
         /\ Terminated
         /\ main' = "writing"
         /\ UNCHANGED <<sentences, taken, batchSentences, jobs, threadParse, output,
                        rulescache, clash>>

\* The number of the batch whose turn it is to be written.
Written == Cardinality({b \in DOMAIN jobs :
                          \E i \in DOMAIN output : output[i] = Head(jobs[b].batch)})

\* One round of the loop that writes, or its end; a batch that has no entry in the
\* map is a NullPointerException, after which the file is never closed.
Write == /\ main = "writing"
         /\ IF Written = batchNumber
            THEN main' = "ended" /\ UNCHANGED output
            ELSE IF Written + 1 \in DOMAIN threadParse
            THEN output' = output \o threadParse[Written + 1] /\ UNCHANGED main
            ELSE main' = "died" /\ UNCHANGED output
         /\ UNCHANGED <<sentences, taken, batchSentences, jobs, threadParse,
                        rulescache, clash>>

-----------------------------------------------------------------------------
\* The job of batch b.
Running == {b \in DOMAIN jobs : jobs[b].pc \notin {"queued"} \cup Finished}
Putting == {b \in DOMAIN jobs : jobs[b].pc = "putting"}

At(b, pc) == jobs' = [jobs EXCEPT ![b].pc = pc]
Only == UNCHANGED <<sentences, main, taken, batchSentences, threadParse, output>>
ReadOnly == Only /\ UNCHANGED <<rulescache, clash>>

\* A thread of the pool takes the job.
Start(b) == /\ jobs[b].pc = "queued"
            /\ Cardinality(Running) < nthreads
            /\ At(b, "next")
            /\ ReadOnly

\* One sentence.  The chart of a single word stays empty and toJSON() is called
\* with null, which ends the job.
NextSentence(b) ==
  /\ jobs[b].pc = "next"
  /\ jobs[b].at <= Len(jobs[b].batch)
  /\ At(b, IF sentences[jobs[b].batch[jobs[b].at]] = "word" THEN "died" ELSE "lookup")
  /\ ReadOnly

\* The nonterminal whose rules the job asks for.
Asked(b) == Nonterminals[jobs[b].looks]

\* The rules are there: the next nonterminal, or the next sentence after the last.
Found(b) ==
  LET job == jobs[b]
  IN jobs' = [jobs EXCEPT ![b] =
                IF job.looks < Len(Nonterminals)
                THEN [job EXCEPT !.looks = job.looks + 1, !.pc = "lookup"]
                ELSE [job EXCEPT !.looks = 1, !.at = job.at + 1, !.pc = "next"]]

\* A search of the cache that a put disturbs may miss what is there, and may see
\* what is being put.
Disturbed(b) == clash \/ Putting \ {b} # {}

\* containsKey().
Lookup(b) ==
  /\ jobs[b].pc = "lookup"
  /\ \/ (Asked(b) \in rulescache \/ Disturbed(b)) /\ At(b, "get")
     \/ (Asked(b) \notin rulescache \/ Disturbed(b)) /\ At(b, "put")
  /\ ReadOnly

\* get(); null ends the job, in the loop over the rules.
Get(b) == /\ jobs[b].pc = "get"
          /\ \/ Found(b)
             \/ Disturbed(b) /\ At(b, "died")
          /\ ReadOnly

\* put() of the rules that the job has collected.
PutBegins(b) == /\ jobs[b].pc = "put"
                /\ At(b, "putting")
                /\ clash' = (clash \/ Putting # {})
                /\ Only /\ UNCHANGED rulescache

\* put() is over; one that has overlapped another may have lost entries.
PutEnds(b) == /\ jobs[b].pc = "putting"
              /\ Found(b)
              /\ \/ rulescache' = rulescache \cup {Asked(b)}
                 \/ clash /\ rulescache' \in SUBSET rulescache
              /\ Only /\ UNCHANGED clash

\* The job is in a chain that has become a circle.
Circle(b) == /\ clash
             /\ jobs[b].pc \in {"lookup", "get", "putting"}
             /\ At(b, "circling")
             /\ ReadOnly

\* The parses of the whole batch go into the map, which is a synchronized one.
Done(b) == /\ jobs[b].pc = "next"
           /\ jobs[b].at > Len(jobs[b].batch)
           /\ At(b, "done")
           /\ threadParse' = [c \in DOMAIN threadParse \cup {b} |->
                                IF c = b THEN jobs[b].batch ELSE threadParse[c]]
           /\ UNCHANGED <<sentences, main, taken, batchSentences, output, rulescache, clash>>

JobStep(b) == \/ Start(b) \/ NextSentence(b) \/ Lookup(b) \/ Get(b)
              \/ PutBegins(b) \/ PutEnds(b) \/ Done(b)

MainStep == Take \/ LastBatch \/ Awake \/ Write

Next == MainStep \/ \E b \in DOMAIN jobs : JobStep(b) \/ Circle(b)

\* The threads run on while they can.
Fairness == WF_vars(MainStep) /\ \A b \in 1..nthreads : WF_vars(b \in DOMAIN jobs /\ JobStep(b))
Spec == Init /\ [][Next]_vars /\ Fairness

-----------------------------------------------------------------------------
TypeOK == /\ main \in {"batching", "waiting", "writing", "ended", "died"}
          /\ taken \in 0..Len(sentences)
          /\ \A b \in DOMAIN jobs : /\ jobs[b].batch \in Seq(DOMAIN sentences) \ {<<>>}
                                    /\ jobs[b].at \in 1..(Len(jobs[b].batch) + 1)
                                    /\ jobs[b].looks \in DOMAIN Nonterminals
          /\ DOMAIN threadParse \subseteq DOMAIN jobs
          /\ rulescache \subseteq {Nonterminals[x] : x \in DOMAIN Nonterminals}
          /\ clash \in BOOLEAN

\* The batches fit the pool: no job waits for the thread of another.
ThreadPerJob == batchNumber <= nthreads

\* Whatever becomes of the jobs and in whichever order they end, the lines of the
\* output are the parses of the input in its order, and a program that ends well
\* has written all of them.
OutputInOrder == /\ \A i \in DOMAIN output : output[i] = i
                 /\ main = "ended" => Len(output) = Len(sentences)

\* The program ends unless two puts have overlapped in the cache: a job that dies
\* does not keep it waiting.
ProgramEnds == <>(main \in {"ended", "died"} \/ clash)
=============================================================================
