-------------------------- MODULE LanguagePrograms --------------------------
(***************************************************************************)
(* The programs on text: the parser client with its pool of threads, and   *)
(* three dynamic programs (the parser it calls, the tagger, the hashtag    *)
(* segmenter) against all trees, tags and cuts there are.  Init picks a    *)
(* program, whose steps are then the only ones; the variables are that     *)
(* program's, under names they share, and 0 where it has none.             *)
(***************************************************************************)
EXTENDS Integers

CONSTANTS nthreads, MaxSentences,          \* parser client
          NTs, SBARQ, Hashes, MaxLength,   \* parser
          MaxWords,                        \* tagger
          MaxChars, Estimates              \* segmenter

ASSUME LanguageAssumption ==
  /\ {nthreads, NTs, MaxLength, MaxWords, MaxChars} \subseteq Nat \ {0}
  /\ MaxSentences \in Nat
  /\ SBARQ \in 0..(NTs - 1)
  /\ Hashes \subseteq Int

\* Bounds: the numbers that stand for the least ones of int and double are less than any
\* sum of estimates, and the keys of the parser have eight bits for the end of a span.
ASSUME EstimatesAssumption ==
  /\ Estimates \subseteq Nat /\ \A e \in Estimates : e < 1000
  /\ 3 * MaxWords + 2 < 1000
  /\ MaxLength <= 256

VARIABLES program,    \* the program that runs
          input,
          model,      \* the rules, or which of them there are
          estimates,
          table,      \* what has been computed
          at,         \* how far it is
          phase,
          flag,
          jobs,       \* the threads of the parser client
          batch,
          output

vars == <<program, input, model, estimates, table, at, phase, flag, jobs, batch, output>>

Jobs == INSTANCE ParserJobs
          WITH sentences <- input, main <- phase, taken <- at, batchSentences <- batch,
               threadParse <- table, rulescache <- model, clash <- flag,
               Nonterminals <- <<"SBARQ", "NP">>
Parser == INSTANCE CKYParser
            WITH n <- input, emmission <- estimates, rules <- model, hashCode <- batch,
                 invariants <- table, cell <- at, outcome <- phase
Tagger == INSTANCE Viterbi
            WITH l <- input, ngramCounts <- model, logEmmission <- estimates, level <- at,
                 invariants <- table, tagged <- flag, tags <- output, Tags <- <<"I-GENE", "O">>
Tag == INSTANCE Segmenter
         WITH len <- input, emmission <- estimates, index <- at, pie_splits <- table,
              pie_probs <- output

Init == \/ program = "jobs" /\ Jobs!Init /\ estimates = 0
        \/ program = "parser" /\ Parser!Init /\ flag = 0 /\ jobs = 0 /\ output = 0
        \/ program = "tagger" /\ Tagger!Init /\ phase = 0 /\ jobs = 0 /\ batch = 0
        \/ program = "segmenter" /\ Tag!Init
             /\ model = 0 /\ phase = 0 /\ flag = 0 /\ jobs = 0 /\ batch = 0

\* Threads of the parser client.
MainStep == program = "jobs" /\ Jobs!MainStep /\ UNCHANGED <<program, estimates>>
JobStep(b) == /\ program = "jobs" /\ b \in DOMAIN jobs
              /\ Jobs!JobStep(b) /\ UNCHANGED <<program, estimates>>
Circle(b) == /\ program = "jobs" /\ b \in DOMAIN jobs
             /\ Jobs!Circle(b) /\ UNCHANGED <<program, estimates>>

\* A step of one of the others.
Compute == /\ \/ program = "parser" /\ Parser!Next /\ UNCHANGED <<flag, jobs, output>>
              \/ program = "tagger" /\ Tagger!Next /\ UNCHANGED <<phase, jobs, batch>>
              \/ program = "segmenter" /\ Tag!Segment
                   /\ UNCHANGED <<model, phase, flag, jobs, batch>>
           /\ UNCHANGED program

Next == \/ MainStep \/ Compute
        \/ \E b \in 1..(MaxSentences + 1) : JobStep(b) \/ Circle(b)

\* Every thread of the parser client runs on while it can.
Spec == /\ Init /\ [][Next]_vars
        /\ WF_vars(MainStep) /\ \A b \in 1..nthreads : WF_vars(JobStep(b))

-----------------------------------------------------------------------------
\* Every program stays within its types and tables, and the parser client within
\* the threads of its pool.
TypeOK == \/ program = "jobs" /\ Jobs!TypeOK /\ Jobs!ThreadPerJob
          \/ program = "parser" /\ Parser!TypeOK
          \/ program = "tagger" /\ Tagger!TypeOK
          \/ program = "segmenter" /\ Tag!TypeOK

\* Parser client: the output is in the order of the input, and whole if the program
\* ends well, in whichever order the jobs end and whichever of them die.
OutputInOrder == program = "jobs" => Jobs!OutputInOrder

\* Parser client: it ends, also when jobs have died, unless two threads have put
\* rules into the shared cache at the same time.
ProgramEnds == <>(program = "jobs" => phase \in {"ended", "died"} \/ flag)

\* The three dynamic programs find the best there is.  Parser: no span is asked for
\* before it is there, and a tree that is printed covers the sentence; as long as no two
\* nonterminals are alike in the part of the hash code that a key keeps, every entry of
\* the chart is the value of the best of all trees over its span, and so is the tree.
\* Tagger: every word gets a tag, and no other sequence of tags is likelier.  Segmenter:
\* every rest of the hashtag is cut into its likeliest words.
BestFound == CASE program = "parser"    -> Parser!ChartBest /\ Parser!TreeBest
               [] program = "tagger"    -> Tagger!TagsBest
               [] program = "segmenter" -> Tag!SplitsBest
               [] OTHER -> TRUE

\* Tagger, Viterbi.java:57: get3gramEstimate returns the logarithm of a maximum
\* likelihood estimate, of every pair of tags the result goes through.
EstimatesAreLogs == program = "tagger" => Tagger!EstimatesAreLogs
=============================================================================
