---------------------- MODULE LanguageProgramsProofs -----------------------
(***************************************************************************)
(* What LanguagePrograms promises, for any number of threads, any file and *)
(* any estimates within the bounds.  Of the parser client: which sentences *)
(* are in which batch is a matter of division with remainder, and from it  *)
(* follows what the loop that writes the batches has written, whatever the *)
(* jobs have come to.  Of the parser, the tagger and the segmenter: what   *)
(* they return is the best of all trees, tags and splits, because their    *)
(* tables hold the best of every part; of the parser, whose nonterminals   *)
(* may share entries, if the keys tell them apart.  The best is a          *)
(* recursive function or a sum; both are known by the equation they        *)
(* fulfil, and a least counterexample takes the place of induction.        *)
(***************************************************************************)
EXTENDS LanguagePrograms, Integers, Sequences, FiniteSets,
        FiniteSetTheorems, SequenceTheorems, WellFoundedInduction, TLAPS

-----------------------------------------------------------------------------
(* Batches of z sentences out of n.                                        *)

\* The sentences in the first b batches.
Upto(b, z, n) == IF b * z <= n THEN b * z ELSE n

\* Batch b: the sentences after those of the batches before it.
Cut(b, z, n) == [k \in 1..(Upto(b, z, n) - Upto(b - 1, z, n)) |-> Upto(b - 1, z, n) + k]

\* The first l lines of an output that is in order.
First(l) == [k \in 1..l |-> k]

\* The batch size that is rounded up: as many batches as there are threads hold the
\* whole file, and no file but the empty one makes it 0.
LEMMA RoundedUp ==
  ASSUME NEW n \in Nat, NEW t \in Nat \ {0}
  PROVE  /\ (n + t - 1) \div t \in Nat
         /\ n <= t * ((n + t - 1) \div t)
         /\ (n + t - 1) \div t = 0 <=> n = 0
<1>1. /\ (n + t - 1) \div t \in Nat
      /\ n <= t * ((n + t - 1) \div t)
  BY SMTT(20)
<1>2. n > 0 => (n + t - 1) \div t > 0
  BY SMTT(20)
<1>3. n = 0 => (n + t - 1) \div t = 0
  BY SMTT(20)
<1>4. QED
  BY <1>1, <1>2, <1>3

\* The remainder of what is r more than k times z.
LEMMA Remainder ==
  ASSUME NEW k \in Nat, NEW z \in Nat \ {0}, NEW r \in 0..(z - 1)
  PROVE  (k * z + r) % z = r
<1>1. k * z \in Nat
  OBVIOUS
<1>2. QED
  BY <1>1, SMTT(20)

\* Multiples of z keep their order, and there are z numbers from one to the next.
LEMMA Multiples ==
  ASSUME NEW a \in Nat, NEW b \in Nat, NEW z \in Nat \ {0}
  PROVE  /\ a * z \in Nat
         /\ (a + 1) * z = a * z + z
         /\ a < b => a * z + z <= b * z
         /\ a <= b => a * z <= b * z
         /\ a * z < b * z => a < b
<1>1. a * z \in Nat /\ b * z \in Nat
  OBVIOUS
<1>2. (a + 1) * z = a * z + z
  OBVIOUS
<1>3. ASSUME a < b PROVE a * z + z <= b * z
  <2>1. b = a + 1 + (b - a - 1) /\ b - a - 1 \in Nat
    BY <1>3
  <2>2. b * z = (a + 1) * z + (b - a - 1) * z /\ (b - a - 1) * z \in Nat
    BY <2>1
  <2>3. QED
    BY <1>1, <1>2, <2>2
<1>4. ASSUME a <= b PROVE a * z <= b * z
  <2>1. CASE a = b
    BY <2>1, <1>1
  <2>2. CASE a < b
    BY <2>2, <1>1, <1>3
  <2>3. QED
    BY <1>4, <2>1, <2>2
<1>5. ASSUME b <= a PROVE b * z <= a * z
  <2>1. CASE a = b
    BY <2>1, <1>1
  <2>2. CASE b < a
    <3>1. a = b + (a - b) /\ a - b \in Nat
      BY <2>2
    <3>2. a * z = b * z + (a - b) * z /\ (a - b) * z \in Nat
      BY <3>1
    <3>3. QED
      BY <3>2, <1>1
  <2>3. QED
    BY <1>5, <2>1, <2>2
<1>6. ASSUME a * z < b * z PROVE a < b
  BY <1>1, <1>5, <1>6
<1>7. QED
  BY <1>1, <1>2, <1>3, <1>4, <1>6

\* A batch that begins within the file is not empty, and its sentences follow those
\* of the batches before it.
LEMMA BatchIs ==
  ASSUME NEW b \in Nat \ {0}, NEW z \in Nat \ {0}, NEW n \in Nat, (b - 1) * z < n
  PROVE  /\ Upto(b - 1, z, n) = (b - 1) * z /\ (b - 1) * z \in Nat
         /\ Upto(b, z, n) \in Nat /\ Upto(b, z, n) > (b - 1) * z /\ Upto(b, z, n) <= n
         /\ Cut(b, z, n) \in Seq(1..n)
         /\ Len(Cut(b, z, n)) = Upto(b, z, n) - Upto(b - 1, z, n)
         /\ Len(Cut(b, z, n)) \in Nat \ {0}
         /\ Head(Cut(b, z, n)) = (b - 1) * z + 1
<1>1. b - 1 \in Nat /\ (b - 1) * z \in Nat /\ b * z \in Nat /\ b * z = (b - 1) * z + z
  <2>1. b - 1 \in Nat /\ b = (b - 1) + 1
    OBVIOUS
  <2>2. (b - 1) * z \in Nat /\ ((b - 1) + 1) * z = (b - 1) * z + z
    BY <2>1, Multiples
  <2>3. b * z = (b - 1) * z + z
    BY <2>1, <2>2
  <2>4. QED
    BY <2>1, <2>2, <2>3
<1>2. Upto(b - 1, z, n) = (b - 1) * z
  BY <1>1 DEF Upto
<1>3. Upto(b, z, n) \in Nat /\ Upto(b, z, n) > (b - 1) * z /\ Upto(b, z, n) <= n
  BY <1>1 DEF Upto
<1> DEFINE low == (b - 1) * z
           size == Upto(b, z, n) - low
<1>4. Cut(b, z, n) = [k \in 1..size |-> low + k]
  BY <1>2 DEF Cut
<1>5. low \in Nat /\ size \in Nat /\ size >= 1 /\ low + size <= n
  BY <1>1, <1>3
<1> HIDE DEF low, size
<1>6. [k \in 1..size |-> low + k] \in Seq(1..n)
  <2>1. \A k \in 1..size : low + k \in 1..n
    BY <1>5
  <2>2. QED
    BY <1>5, <2>1
<1>7. Len(Cut(b, z, n)) = size /\ Cut(b, z, n)[1] = low + 1
  BY <1>4, <1>5
<1>8. Head(Cut(b, z, n)) = Cut(b, z, n)[1]
  BY <1>4, <1>6
<1>9. Len(Cut(b, z, n)) = Upto(b, z, n) - Upto(b - 1, z, n)
  BY <1>7, <1>2 DEF size, low
<1>10. Head(Cut(b, z, n)) = (b - 1) * z + 1
  BY <1>7, <1>8 DEF low
<1>11. QED
  BY <1>1, <1>2, <1>3, <1>4, <1>5, <1>6, <1>7, <1>9, <1>10

\* After the first m batches, batch m + 1 goes on in order.
LEMMA InOrder ==
  ASSUME NEW m \in Nat, NEW z \in Nat \ {0}, NEW n \in Nat, m * z < n
  PROVE  First(Upto(m, z, n)) \o Cut(m + 1, z, n) = First(Upto(m + 1, z, n))
<1> DEFINE u == Upto(m, z, n)
           w == Upto(m + 1, z, n)
<1>1. m + 1 \in Nat \ {0} /\ (m + 1) - 1 = m
  OBVIOUS
<1>2. u = m * z /\ u \in Nat /\ w \in Nat /\ w > u /\ Cut(m + 1, z, n) \in Seq(1..n)
      /\ Len(Cut(m + 1, z, n)) = w - u
  <2>1. ((m + 1) - 1) * z < n
    BY <1>1
  <2>2. /\ Upto((m + 1) - 1, z, n) = ((m + 1) - 1) * z
        /\ ((m + 1) - 1) * z \in Nat
        /\ w \in Nat /\ w > ((m + 1) - 1) * z /\ Cut(m + 1, z, n) \in Seq(1..n)
        /\ Len(Cut(m + 1, z, n)) = w - Upto((m + 1) - 1, z, n)
    <3> DEFINE c == m + 1
    <3>1. c \in Nat \ {0} /\ (c - 1) * z < n
      BY <1>1, <2>1
    <3> HIDE DEF c
    <3>2. /\ Upto(c - 1, z, n) = (c - 1) * z /\ (c - 1) * z \in Nat
          /\ Upto(c, z, n) \in Nat /\ Upto(c, z, n) > (c - 1) * z
          /\ Cut(c, z, n) \in Seq(1..n)
          /\ Len(Cut(c, z, n)) = Upto(c, z, n) - Upto(c - 1, z, n)
      BY <3>1, BatchIs
    <3>3. QED
      BY <3>2 DEF c
  <2>3. QED
    BY <1>1, <2>2
<1>3. Cut(m + 1, z, n) = [k \in 1..(w - u) |-> u + k]
  BY <1>1 DEF Cut
<1> HIDE DEF u, w
<1>4. First(u) \in Seq(Nat) /\ Len(First(u)) = u /\ \A k \in 1..u : First(u)[k] = k
  <2>1. First(u) = [k \in 1..u |-> k]
    BY DEF First
  <2>2. QED
    BY <2>1, <1>2
<1>5. First(w) \in Seq(Nat) /\ Len(First(w)) = w /\ \A k \in 1..w : First(w)[k] = k
  <2>1. First(w) = [k \in 1..w |-> k]
    BY DEF First
  <2>2. QED
    BY <2>1, <1>2
<1>6. Cut(m + 1, z, n) \in Seq(Nat)
  <2>1. \A k \in 1..(w - u) : u + k \in Nat
    BY <1>2
  <2>2. QED
    BY <1>2, <1>3, <2>1
<1> DEFINE joined == First(u) \o Cut(m + 1, z, n)
<1>7. /\ joined \in Seq(Nat) /\ Len(joined) = u + Len(Cut(m + 1, z, n))
      /\ \A k \in 1..(u + Len(Cut(m + 1, z, n))) :
           joined[k] = IF k <= u THEN First(u)[k] ELSE Cut(m + 1, z, n)[k - u]
  <2>1. First(u) \in Seq(Nat) /\ Cut(m + 1, z, n) \in Seq(Nat) /\ Len(First(u)) = u
    BY <1>4, <1>6
  <2>2. /\ joined \in Seq(Nat) /\ Len(joined) = Len(First(u)) + Len(Cut(m + 1, z, n))
        /\ \A k \in 1..(Len(First(u)) + Len(Cut(m + 1, z, n))) :
             joined[k] = IF k <= Len(First(u)) THEN First(u)[k]
                         ELSE Cut(m + 1, z, n)[k - Len(First(u))]
    BY <2>1, ConcatProperties, Zenon DEF joined
  <2>3. QED
    BY <2>1, <2>2, Zenon
<1> HIDE DEF joined
<1>8. Len(joined) = w /\ \A k \in 1..w : joined[k] = k
  <2>1. u + Len(Cut(m + 1, z, n)) = w
    BY <1>2
  <2>2. ASSUME NEW k \in 1..w, k > u PROVE Cut(m + 1, z, n)[k - u] = k
    <3>1. k - u \in 1..(w - u) /\ u + (k - u) = k
      BY <2>2, <1>2
    <3>2. Cut(m + 1, z, n)[k - u] = u + (k - u)
      BY <3>1, <1>3
    <3>3. QED
      BY <3>1, <3>2
  <2>3. ASSUME NEW k \in 1..w, k <= u PROVE First(u)[k] = k
    <3>1. k \in 1..u
      BY <2>3, <1>2
    <3>2. QED
      BY <3>1, <1>4
  <2>4. ASSUME NEW k \in 1..w PROVE joined[k] = k
    <3>1. joined[k] = IF k <= u THEN First(u)[k] ELSE Cut(m + 1, z, n)[k - u]
      BY <1>7, <2>1
    <3>2. CASE k <= u
      BY <3>1, <3>2, <2>3
    <3>3. CASE k > u
      <4>1. ~ (k <= u)
        BY <3>3, <1>2
      <4>2. QED
        BY <3>1, <3>3, <4>1, <2>2
    <3>4. QED
      BY <3>2, <3>3, <1>2
  <2>5. QED
    BY <1>7, <2>1, <2>4
<1>9. joined = First(w)
  <2>1. Len(joined) = Len(First(w)) /\ \A k \in 1..Len(joined) : joined[k] = First(w)[k]
    BY <1>5, <1>7, <1>8
  <2>2. QED
    BY <1>5, <1>7, <2>1, SeqEqual
<1>10. QED
  BY <1>9 DEF u, w, joined

-----------------------------------------------------------------------------
(* The jobs of the parser client.                                          *)

\* What a job can be, whatever its batch.
JobRecords == [batch : Seq(Nat), at : Nat, looks : {1, 2},
               pc : {"queued", "next", "lookup", "get", "put", "putting", "circling",
                     "done", "died"}]

\* The job of batch b, which begins within the file: it is within its batch, and at a
\* sentence of it when it searches the cache.
JobFits(job, b, z, n) ==
  /\ (b - 1) * z < n
  /\ job \in JobRecords
  /\ job.batch = Cut(b, z, n)
  /\ job.at \in 1..(Len(Cut(b, z, n)) + 1)
  /\ job.pc \in {"lookup", "get", "put", "putting"} => job.at <= Len(Cut(b, z, n))

JobsFit(js, z, n) == /\ js \in Seq(JobRecords)
                     /\ \A b \in 1..Len(js) : JobFits(js[b], b, z, n)

\* What is left of the file while it is cut into batches.
Batching(js, left, count, z, n) ==
  /\ Len(js) * z <= count /\ count <= n
  /\ n = 0 \/ count < Len(js) * z + z
  /\ left = [k \in 1..(count - Len(js) * z) |-> Len(js) * z + k]

\* The parses in the map are those of the whole batch.
ParsesFit(map, js) == /\ DOMAIN map \subseteq 1..Len(js)
                      /\ \A b \in DOMAIN map : map[b] = js[b].batch

\* The output is the first m batches.
WrittenFits(m, lines, js, main, z, n) ==
  /\ lines = First(Upto(m, z, n))
  /\ main \in {"batching", "waiting"} => m = 0
  /\ main = "ended" => m = Len(js)

FileFits ==
  /\ input \in Seq({"word", "more"})
  /\ phase \in {"batching", "waiting", "writing", "ended", "died"}
  /\ at \in 0..Len(input)
  /\ model \subseteq {"SBARQ", "NP"}
  /\ flag \in BOOLEAN

\* The parser client: the batches are the file cut from its beginning, also when the
\* last has been taken; the parses in the map are those of the batches, and the
\* output is the first of them in order.
JobsInv ==
  /\ FileFits
  /\ JobsFit(jobs, Jobs!batchSize, Len(input))
  /\ phase = "batching" => Batching(jobs, batch, at, Jobs!batchSize, Len(input))
  /\ phase \in {"waiting", "writing", "ended"} =>
       Len(input) > 0 /\ Len(input) <= Len(jobs) * Jobs!batchSize
  /\ ParsesFit(table, jobs)
  /\ \E m \in 0..Len(jobs) :
       WrittenFits(m, output, jobs, phase, Jobs!batchSize, Len(input))

\* The size of a batch is a number, and 0 only for the empty file.
LEMMA SizeOfBatch ==
  ASSUME FileFits
  PROVE  /\ Len(input) \in Nat
         /\ Jobs!batchSize \in Nat
         /\ Jobs!batchSize = 0 <=> Len(input) = 0
         /\ Len(input) <= nthreads * Jobs!batchSize
         /\ nthreads \in Nat \ {0}
<1>1. Len(input) \in Nat
  BY DEF FileFits
<1>2. nthreads \in Nat \ {0}
  BY LanguageAssumption
<1>3. Jobs!batchSize = (Len(input) + nthreads - 1) \div nthreads
  BY DEF Jobs!batchSize
<1>4. QED
  BY <1>1, <1>2, <1>3, RoundedUp

\* No file means no job, so where there is one the size of a batch is not 0.
LEMMA JobsNeedSentences ==
  ASSUME NEW js, NEW z \in Nat, NEW n \in Nat, z = 0 <=> n = 0, JobsFit(js, z, n)
  PROVE  Len(js) \in Nat /\ (n = 0 => Len(js) = 0)
<1>1. Len(js) \in Nat
  BY DEF JobsFit
<1>2. ASSUME n = 0, Len(js) # 0 PROVE FALSE
  <2>1. JobFits(js[1], 1, z, n)
    <3>1. 1 \in 1..Len(js)
      BY <1>1, <1>2
    <3>2. QED
      BY <3>1 DEF JobsFit
  <2>2. (1 - 1) * z < n
    BY <2>1 DEF JobFits
  <2>3. QED
    BY <2>2, <1>2
<1>3. QED
  BY <1>1, <1>2

\* The program starts in the invariant.
LEMMA JobsInit == Jobs!Init => JobsInv
<1> SUFFICES ASSUME Jobs!Init PROVE JobsInv
  OBVIOUS
<1>1. PICK n \in 0..MaxSentences : input \in [1..n -> {"word", "more"}]
  BY DEF Jobs!Init
<1>2. MaxSentences \in Nat
  BY LanguageAssumption
<1>3. n \in Nat /\ input \in Seq({"word", "more"}) /\ Len(input) = n
  BY <1>1, <1>2
<1>4. /\ phase = "batching" /\ at = 0 /\ batch = <<>> /\ jobs = <<>> /\ table = <<>>
      /\ output = <<>> /\ model = {} /\ flag = FALSE
  BY DEF Jobs!Init
<1>5. FileFits
  <2>1. at \in 0..Len(input)
    BY <1>3, <1>4
  <2>2. QED
    BY <1>3, <1>4, <2>1 DEF FileFits
<1>6. Jobs!batchSize \in Nat /\ (Jobs!batchSize = 0 <=> n = 0)
  BY <1>3, <1>5, SizeOfBatch
<1>7. Len(jobs) = 0 /\ jobs \in Seq(JobRecords)
  BY <1>4, EmptySeq
<1>8. JobsFit(jobs, Jobs!batchSize, Len(input))
  BY <1>7 DEF JobsFit
<1>9. Len(jobs) * Jobs!batchSize = 0
  BY <1>6, <1>7
<1>10. batch = [k \in 1..(at - Len(jobs) * Jobs!batchSize) |->
                  Len(jobs) * Jobs!batchSize + k]
  <2>1. at - Len(jobs) * Jobs!batchSize = 0
    BY <1>4, <1>9
  <2>2. 1..(at - Len(jobs) * Jobs!batchSize) = {}
    BY <2>1
  <2>3. QED
    BY <2>2, <1>4
<1>11. Batching(jobs, batch, at, Jobs!batchSize, Len(input))
  BY <1>3, <1>4, <1>6, <1>9, <1>10 DEF Batching
<1>12. ParsesFit(table, jobs)
  <2>1. DOMAIN table = {}
    BY <1>4
  <2>2. QED
    BY <2>1 DEF ParsesFit
<1>13. WrittenFits(0, output, jobs, phase, Jobs!batchSize, Len(input))
  <2>1. 0 * Jobs!batchSize = 0
    BY <1>6
  <2>2. Upto(0, Jobs!batchSize, Len(input)) = 0
    BY <2>1, <1>3 DEF Upto
  <2>3. First(0) = <<>>
    BY DEF First
  <2>4. QED
    BY <2>2, <2>3, <1>4 DEF WrittenFits
<1>14. 0 \in 0..Len(jobs)
  BY <1>7
<1>15. QED
  BY <1>4, <1>5, <1>8, <1>11, <1>12, <1>13, <1>14 DEF JobsInv

\* Another batch.
OneMore(js, more, z, n) == /\ JobsFit(more, z, n)
                           /\ Len(more) = Len(js) + 1
                           /\ \A b \in 1..Len(js) : more[b] = js[b]

\* To append the next cut of the file is to have one more batch.
LEMMA OneMoreJob ==
  ASSUME NEW z \in Nat \ {0}, NEW n \in Nat, NEW js, JobsFit(js, z, n), Len(js) * z < n,
         NEW left, left = Cut(Len(js) + 1, z, n)
  PROVE  OneMore(js, Append(js, Jobs!Job(left)), z, n)
<1> DEFINE l == Len(js)
           job == Jobs!Job(Cut(l + 1, z, n))
           more == Append(js, Jobs!Job(left))
<1>0. more = Append(js, job)
  OBVIOUS
<1>1. js \in Seq(JobRecords) /\ l \in Nat
  BY DEF JobsFit
<1>2. JobFits(job, l + 1, z, n)
  <2> DEFINE c == l + 1
  <2>1. c \in Nat \ {0} /\ (c - 1) * z < n
    BY <1>1
  <2>2. Cut(c, z, n) \in Seq(1..n) /\ Len(Cut(c, z, n)) \in Nat \ {0}
    <3> HIDE DEF c
    <3> QED
      BY <2>1, BatchIs
  <2>3. Cut(c, z, n) \in Seq(Nat)
    <3>1. 1..n \subseteq Nat
      OBVIOUS
    <3>2. QED
      BY <2>2, <3>1, SeqMonotonic
  <2>4. job = [batch |-> Cut(c, z, n), at |-> 1, looks |-> 1, pc |-> "queued"]
    BY DEF Jobs!Job
  <2> HIDE DEF c, job
  <2>5. job \in JobRecords /\ job.batch = Cut(c, z, n) /\ job.at = 1 /\ job.pc = "queued"
    BY <2>3, <2>4 DEF JobRecords
  <2>6. job.at \in 1..(Len(Cut(c, z, n)) + 1)
    BY <2>2, <2>5
  <2>7. JobFits(job, c, z, n)
    BY <2>1, <2>5, <2>6 DEF JobFits
  <2>8. QED
    BY <2>7 DEF c
<1>3. job \in JobRecords
  BY <1>2 DEF JobFits
<1> HIDE DEF job, more
<1>4. /\ more \in Seq(JobRecords) /\ Len(more) = l + 1
      /\ \A b \in 1..l : more[b] = js[b]
      /\ more[l + 1] = job
  BY <1>0, <1>1, <1>3, AppendProperties
<1>5. ASSUME NEW b \in 1..(l + 1) PROVE JobFits(more[b], b, z, n)
  <2>1. CASE b = l + 1
    BY <2>1, <1>2, <1>4
  <2>2. CASE b \in 1..l
    BY <2>2, <1>4 DEF JobsFit
  <2>3. QED
    BY <2>1, <2>2, <1>1
<1>6. OneMore(js, more, z, n)
  BY <1>4, <1>5 DEF JobsFit, OneMore
<1>7. QED
  BY <1>6 DEF more

\* What has been put into the map stays true of it.
LEMMA ParsesStay ==
  ASSUME NEW map, NEW js, NEW more, ParsesFit(map, js), Len(js) \in Nat, Len(more) \in Nat,
         Len(js) <= Len(more), \A b \in 1..Len(js) : more[b].batch = js[b].batch
  PROVE  ParsesFit(map, more)
<1>1. 1..Len(js) \subseteq 1..Len(more)
  OBVIOUS
<1>2. DOMAIN map \subseteq 1..Len(js) /\ \A b \in DOMAIN map : map[b] = js[b].batch
  BY DEF ParsesFit
<1>3. DOMAIN map \subseteq 1..Len(more)
  BY <1>1, <1>2
<1>4. \A b \in DOMAIN map : map[b] = more[b].batch
  BY <1>2
<1>5. QED
  BY <1>3, <1>4 DEF ParsesFit

\* A sentence is taken into the batch, which becomes a job when it is full.
LEMMA TakeFits ==
  ASSUME NEW z \in Nat, NEW n \in Nat, z = 0 <=> n = 0,
         NEW js, NEW left, NEW count \in Nat, count < n,
         JobsFit(js, z, n), Batching(js, left, count, z, n)
  PROVE  LET batch1 == Append(left, count + 1)
         IN IF (count + 1) % z = 0
            THEN /\ Len(js) * z < n
                 /\ batch1 = Cut(Len(js) + 1, z, n)
                 /\ Batching(Append(js, Jobs!Job(batch1)), <<>>, count + 1, z, n)
            ELSE Batching(js, batch1, count + 1, z, n)
<1> DEFINE l == Len(js)
           low == l * z
           r == count - low
           batch1 == Append(left, count + 1)
<1>1. n \in Nat \ {0} /\ z \in Nat \ {0} /\ l \in Nat
  BY DEF JobsFit
<1>2. low \in Nat /\ (l + 1) * z = low + z
  BY <1>1, Multiples
<1>3. low <= count /\ count < low + z /\ left = [k \in 1..r |-> low + k]
  BY <1>1 DEF Batching
<1>4. r \in 0..(z - 1) /\ count + 1 = low + (r + 1)
  BY <1>1, <1>2, <1>3
<1> HIDE DEF r
<1>5. batch1 = [k \in 1..(r + 1) |-> low + k]
  <2>0. \A k \in 1..r : low + k \in Nat
    BY <1>2, <1>4
  <2>1. left \in Seq(Nat) /\ Len(left) = r /\ \A k \in 1..r : left[k] = low + k
    BY <1>3, <1>4, <2>0
  <2>2. count + 1 \in Nat
    OBVIOUS
  <2>3. /\ batch1 \in Seq(Nat) /\ Len(batch1) = r + 1
        /\ \A k \in 1..r : batch1[k] = left[k]
        /\ batch1[r + 1] = count + 1
    BY <2>1, <2>2, AppendProperties
  <2> DEFINE long == [k \in 1..(r + 1) |-> low + k]
  <2>4. \A k \in 1..(r + 1) : low + k \in Nat
    BY <1>2, <1>4
  <2>5. long \in Seq(Nat) /\ Len(long) = r + 1 /\ \A k \in 1..(r + 1) : long[k] = low + k
    BY <1>4, <2>4
  <2> HIDE DEF long, batch1
  <2>6. ASSUME NEW k \in 1..(r + 1) PROVE batch1[k] = long[k]
    <3>1. CASE k \in 1..r
      BY <3>1, <2>1, <2>3, <2>5
    <3>2. CASE k = r + 1
      BY <3>2, <2>3, <2>5, <1>4
    <3>3. QED
      BY <3>1, <3>2, <1>4
  <2>7. batch1 = long
    BY <2>3, <2>5, <2>6, SeqEqual
  <2>8. QED
    BY <2>7 DEF long
<1> HIDE DEF batch1
<1>6. CASE (count + 1) % z = 0
  <2>1. r + 1 = z
    <3>1. ASSUME r + 1 < z PROVE FALSE
      <4>1. r + 1 \in 0..(z - 1)
        BY <3>1, <1>4
      <4>2. (l * z + (r + 1)) % z = r + 1
        BY <4>1, <1>1, Remainder
      <4>3. QED
        BY <4>2, <1>4, <1>6
    <3>2. QED
      BY <3>1, <1>4, <1>1
  <2>2. low < n /\ low + z <= n
    BY <2>1, <1>1, <1>2, <1>3, <1>4
  <2>3. Upto((l + 1) - 1, z, n) = low /\ Upto(l + 1, z, n) = low + z
    <3>1. (l + 1) - 1 = l
      BY <1>1
    <3>2. Upto(l, z, n) = low
      BY <2>2, <1>1, <1>2 DEF Upto
    <3>3. Upto(l + 1, z, n) = low + z
      BY <2>2, <1>2 DEF Upto
    <3>4. QED
      BY <3>1, <3>2, <3>3
  <2>4. Cut(l + 1, z, n) = [k \in 1..((low + z) - low) |-> low + k]
    BY <2>3 DEF Cut
  <2>5. (low + z) - low = r + 1
    BY <1>2, <2>1, <1>1
  <2>6. batch1 = Cut(l + 1, z, n)
    BY <2>4, <2>5, <1>5
  <2>7. Len(Append(js, Jobs!Job(batch1))) = l + 1
    <3>1. OneMore(js, Append(js, Jobs!Job(batch1)), z, n)
      BY <2>2, <2>6, <1>1, OneMoreJob
    <3>2. QED
      BY <3>1 DEF OneMore
  <2>8. Batching(Append(js, Jobs!Job(batch1)), <<>>, count + 1, z, n)
    <3> DEFINE more == Append(js, Jobs!Job(batch1))
    <3>1. Len(more) * z = count + 1
      BY <2>1, <2>7, <1>2, <1>4
    <3> HIDE DEF more
    <3>2. 1..((count + 1) - Len(more) * z) = {}
      BY <3>1
    <3>3. <<>> = [k \in 1..((count + 1) - Len(more) * z) |-> Len(more) * z + k]
      <4> DEFINE low2 == Len(more) * z
                 none == 1..((count + 1) - low2)
      <4>1. none = {}
        BY <3>2
      <4> HIDE DEF low2, none
      <4>2. [k \in none |-> low2 + k] = <<>>
        BY <4>1
      <4>3. QED
        BY <4>2 DEF low2, none
    <3>4. count + 1 <= n /\ count + 1 < Len(more) * z + z
      BY <3>1, <1>1
    <3>5. Batching(more, <<>>, count + 1, z, n)
      BY <3>1, <3>3, <3>4 DEF Batching
    <3>6. QED
      BY <3>5 DEF more
  <2>9. QED
    BY <2>2, <2>6, <2>8, <1>6 DEF batch1
<1>7. CASE (count + 1) % z # 0
  <2>1. r + 1 # z
    <3>1. ASSUME r + 1 = z PROVE FALSE
      <4>1. count + 1 = (l + 1) * z + 0
        BY <3>1, <1>2, <1>4
      <4>2. 0 \in 0..(z - 1) /\ l + 1 \in Nat
        BY <1>1
      <4>3. ((l + 1) * z + 0) % z = 0
        BY <4>2, <1>1, Remainder
      <4>4. QED
        BY <4>1, <4>3, <1>7
    <3>2. QED
      BY <3>1
  <2>2. low <= count + 1 /\ count + 1 <= n /\ count + 1 < low + z
    BY <2>1, <1>2, <1>3, <1>4
  <2>3. (count + 1) - low = r + 1
    BY <1>2, <1>4
  <2>4. Batching(js, batch1, count + 1, z, n)
    BY <2>2, <2>3, <1>5 DEF Batching
  <2>5. QED
    BY <2>4, <1>7 DEF batch1
<1>8. QED
  BY <1>6, <1>7

\* The last batch is what is left, if anything is, and then the jobs have the file.
LEMMA LastFits ==
  ASSUME NEW z \in Nat \ {0}, NEW n \in Nat \ {0}, NEW js, NEW left,
         JobsFit(js, z, n), Batching(js, left, n, z, n)
  PROVE  IF n % z # 0
         THEN Len(js) * z < n /\ left = Cut(Len(js) + 1, z, n) /\ n <= (Len(js) + 1) * z
         ELSE n <= Len(js) * z
<1> DEFINE l == Len(js)
           low == l * z
           r == n - low
<1>1. l \in Nat
  BY DEF JobsFit
<1>2. low \in Nat /\ (l + 1) * z = low + z
  BY <1>1, Multiples
<1>3. low <= n /\ n < low + z /\ left = [k \in 1..r |-> low + k]
  BY DEF Batching
<1>4. r \in 0..(z - 1) /\ n = low + r
  BY <1>2, <1>3
<1>5. n % z = r
  <2> HIDE DEF r
  <2>1. (l * z + r) % z = r
    BY <1>1, <1>4, Remainder
  <2>2. QED
    BY <2>1, <1>4
<1>6. CASE r = 0
  BY <1>5, <1>6, <1>4, <1>2
<1>7. CASE r # 0
  <2>1. low < n /\ n <= (l + 1) * z /\ n < (l + 1) * z
    BY <1>7, <1>2, <1>3, <1>4
  <2>2. (l + 1) - 1 = l
    BY <1>1
  <2>3. Upto(l, z, n) = low
    BY <2>1, <1>2 DEF Upto
  <2>4. Upto(l + 1, z, n) = n
    BY <2>1, <1>2 DEF Upto
  <2>5. Cut(l + 1, z, n) = [k \in 1..(n - low) |-> low + k]
    BY <2>2, <2>3, <2>4 DEF Cut
  <2>6. left = Cut(l + 1, z, n)
    BY <2>5, <1>3
  <2>7. QED
    BY <2>1, <2>6, <1>5, <1>7
<1>8. QED
  BY <1>6, <1>7

\* A step of a job, or its end in a circle, changes nothing of the batches: the job
\* is still one of its batch.
LEMMA JobMoves ==
  ASSUME NEW z \in Nat \ {0}, NEW n \in Nat, NEW b \in DOMAIN jobs,
         JobsFit(jobs, z, n), Jobs!JobStep(b) \/ Jobs!Circle(b)
  PROVE  \E job : JobFits(job, b, z, n) /\ jobs' = [jobs EXCEPT ![b] = job]
<1> DEFINE old == jobs[b]
           size == Len(Cut(b, z, n))
<1>1. jobs \in Seq(JobRecords) /\ b \in 1..Len(jobs) /\ JobFits(old, b, z, n)
  BY DEF JobsFit
<1>2. /\ (b - 1) * z < n
      /\ old \in JobRecords
      /\ old.batch = Cut(b, z, n)
      /\ old.at \in 1..(size + 1)
      /\ old.pc \in {"lookup", "get", "put", "putting"} => old.at <= size
  BY <1>1 DEF JobFits
<1>3. size \in Nat
  <2>1. b \in Nat \ {0}
    BY <1>1
  <2>2. QED
    BY <2>1, <1>2, BatchIs
<1>4. Len(old.batch) = size
  BY <1>2
<1> HIDE DEF size
\* Only the place of the job in its work changes.
<1>5. ASSUME NEW pc, Jobs!At(b, pc),
             pc \in {"next", "circling", "done", "died"}
               \/ (pc \in {"lookup", "get", "put", "putting"} /\ old.at <= size)
      PROVE  \E job : JobFits(job, b, z, n) /\ jobs' = [jobs EXCEPT ![b] = job]
  <2> DEFINE job == [old EXCEPT !.pc = pc]
  <2>1. job \in JobRecords /\ job.batch = old.batch /\ job.at = old.at /\ job.pc = pc
    BY <1>2, <1>5 DEF JobRecords
  <2>2. jobs' = [jobs EXCEPT ![b] = job]
    BY <1>1, <1>5 DEF Jobs!At
  <2> HIDE DEF job
  <2>3. JobFits(job, b, z, n)
    BY <1>2, <1>5, <2>1 DEF JobFits, size
  <2>4. QED
    BY <2>2, <2>3
<1>6. ASSUME Jobs!Found(b), old.at <= size
      PROVE  \E job : JobFits(job, b, z, n) /\ jobs' = [jobs EXCEPT ![b] = job]
  <2> DEFINE job == IF old.looks < 2
                    THEN [old EXCEPT !.looks = old.looks + 1, !.pc = "lookup"]
                    ELSE [old EXCEPT !.looks = 1, !.at = old.at + 1, !.pc = "next"]
  <2>0. Len(<<"SBARQ", "NP">>) = 2
    OBVIOUS
  <2>1. jobs' = [jobs EXCEPT ![b] = job]
    BY <1>1, <1>6, <2>0 DEF Jobs!Found
  <2>2. CASE old.looks < 2
    <3>1. job = [old EXCEPT !.looks = old.looks + 1, !.pc = "lookup"]
      BY <2>2
    <3>2. old.looks + 1 = 2
      BY <2>2, <1>2 DEF JobRecords
    <3> HIDE DEF job
    <3>3. job \in JobRecords /\ job.batch = old.batch /\ job.at = old.at /\ job.pc = "lookup"
      BY <1>2, <3>1, <3>2 DEF JobRecords
    <3>4. JobFits(job, b, z, n)
      BY <1>2, <1>6, <3>3 DEF JobFits, size
    <3>5. QED
      BY <2>1, <3>4
  <2>3. CASE ~ (old.looks < 2)
    <3>1. job = [old EXCEPT !.looks = 1, !.at = old.at + 1, !.pc = "next"]
      BY <2>3
    <3>2. old.at + 1 \in 1..(size + 1) /\ old.at + 1 \in Nat
      BY <1>2, <1>3, <1>6
    <3> HIDE DEF job
    <3>3. job \in JobRecords /\ job.batch = old.batch /\ job.at = old.at + 1
          /\ job.pc = "next"
      BY <1>2, <3>1, <3>2 DEF JobRecords
    <3>4. JobFits(job, b, z, n)
      BY <1>2, <3>2, <3>3 DEF JobFits, size
    <3>5. QED
      BY <2>1, <3>4
  <2>4. QED
    BY <2>2, <2>3
<1>7. CASE Jobs!Start(b)
  BY <1>5, <1>7 DEF Jobs!Start
<1>8. CASE Jobs!NextSentence(b)
  <2> DEFINE pc == IF input[jobs[b].batch[jobs[b].at]] = "word" THEN "died" ELSE "lookup"
  <2>1. Jobs!At(b, pc) /\ old.at <= Len(old.batch)
    BY <1>8 DEF Jobs!NextSentence
  <2>2. pc \in {"died", "lookup"} /\ old.at <= size
    BY <2>1, <1>4
  <2> HIDE DEF pc
  <2>3. QED
    BY <1>5, <2>1, <2>2
<1>9. CASE Jobs!Lookup(b)
  <2>1. old.pc = "lookup" /\ (Jobs!At(b, "get") \/ Jobs!At(b, "put"))
    BY <1>9 DEF Jobs!Lookup
  <2>2. QED
    BY <1>2, <1>5, <2>1
<1>10. CASE Jobs!Get(b)
  <2>1. old.pc = "get" /\ (Jobs!Found(b) \/ Jobs!At(b, "died"))
    BY <1>10 DEF Jobs!Get
  <2>2. QED
    BY <1>2, <1>5, <1>6, <2>1
<1>11. CASE Jobs!PutBegins(b)
  <2>1. old.pc = "put" /\ Jobs!At(b, "putting")
    BY <1>11 DEF Jobs!PutBegins
  <2>2. QED
    BY <1>2, <1>5, <2>1
<1>12. CASE Jobs!PutEnds(b)
  <2>1. old.pc = "putting" /\ Jobs!Found(b)
    BY <1>12 DEF Jobs!PutEnds
  <2>2. QED
    BY <1>2, <1>6, <2>1
<1>13. CASE Jobs!Done(b)
  BY <1>5, <1>13 DEF Jobs!Done
<1>14. CASE Jobs!Circle(b)
  BY <1>5, <1>14 DEF Jobs!Circle
<1>15. QED
  BY <1>7, <1>8, <1>9, <1>10, <1>11, <1>12, <1>13, <1>14 DEF Jobs!JobStep

\* What a step of a job leaves alone, and what it may change of what the jobs share.
LEMMA JobShares ==
  ASSUME NEW b \in DOMAIN jobs, Jobs!JobStep(b) \/ Jobs!Circle(b), FileFits,
         JobsFit(jobs, Jobs!batchSize, Len(input)), ParsesFit(table, jobs)
  PROVE  /\ UNCHANGED <<input, phase, at, batch, output>>
         /\ FileFits'
         /\ DOMAIN table' \subseteq 1..Len(jobs)
         /\ \A c \in DOMAIN table' : table'[c] = jobs[c].batch
<1>1. jobs \in Seq(JobRecords) /\ b \in 1..Len(jobs)
      /\ jobs[b].looks \in {1, 2}
  BY DEF JobsFit, JobFits, JobRecords
<1>2. UNCHANGED <<input, phase, at, batch, output>>
  BY DEF Jobs!JobStep, Jobs!Circle, Jobs!Start, Jobs!NextSentence, Jobs!Lookup, Jobs!Get,
         Jobs!PutBegins, Jobs!PutEnds, Jobs!Done, Jobs!ReadOnly, Jobs!Only
<1>3. model' \subseteq {"SBARQ", "NP"} /\ flag' \in BOOLEAN
  <2>0. model \subseteq {"SBARQ", "NP"} /\ flag \in BOOLEAN
    BY DEF FileFits
  <2>1. CASE Jobs!PutEnds(b)
    <3>1. Jobs!Asked(b) \in {"SBARQ", "NP"}
      BY <1>1 DEF Jobs!Asked
    <3>2. flag' = flag
          /\ (model' = model \cup {Jobs!Asked(b)} \/ model' \in SUBSET model)
      BY <2>1 DEF Jobs!PutEnds
    <3>3. QED
      BY <2>0, <3>1, <3>2
  <2>2. CASE Jobs!PutBegins(b)
    <3>1. model' = model /\ flag' = (flag \/ Jobs!Putting # {})
      BY <2>2 DEF Jobs!PutBegins
    <3>2. flag' \in BOOLEAN
      BY <2>0, <3>1
    <3>3. QED
      BY <2>0, <3>1, <3>2
  <2>3. CASE ~ Jobs!PutEnds(b) /\ ~ Jobs!PutBegins(b)
    <3>1. UNCHANGED <<model, flag>>
      BY <2>3 DEF Jobs!JobStep, Jobs!Circle, Jobs!Start, Jobs!NextSentence, Jobs!Lookup,
                  Jobs!Get, Jobs!Done, Jobs!ReadOnly, Jobs!Only
    <3>2. QED
      BY <2>0, <3>1
  <2>4. QED
    BY <2>1, <2>2, <2>3
<1>4. FileFits'
  BY <1>2, <1>3 DEF FileFits
<1>5. /\ DOMAIN table' \subseteq 1..Len(jobs)
      /\ \A c \in DOMAIN table' : table'[c] = jobs[c].batch
  <2>0. DOMAIN table \subseteq 1..Len(jobs) /\ \A c \in DOMAIN table : table[c] = jobs[c].batch
    BY DEF ParsesFit
  <2>1. CASE Jobs!Done(b)
    <3>1. table' = [c \in DOMAIN table \cup {b} |->
                      IF c = b THEN jobs[b].batch ELSE table[c]]
      BY <2>1 DEF Jobs!Done
    <3>2. QED
      BY <2>0, <3>1, <1>1
  <2>2. CASE ~ Jobs!Done(b)
    <3>1. table' = table
      BY <2>2 DEF Jobs!JobStep, Jobs!Circle, Jobs!Start, Jobs!NextSentence, Jobs!Lookup,
                  Jobs!Get, Jobs!PutBegins, Jobs!PutEnds, Jobs!ReadOnly, Jobs!Only
    <3>2. QED
      BY <2>0, <3>1
  <2>3. QED
    BY <2>1, <2>2
<1>6. QED
  BY <1>2, <1>4, <1>5

\* The number of the batch to write is that of the batches written.
LEMMA WrittenIs ==
  ASSUME NEW z \in Nat \ {0}, NEW n \in Nat, NEW m \in 0..Len(jobs),
         JobsFit(jobs, z, n), output = First(Upto(m, z, n))
  PROVE  Jobs!Written = m
<1>1. jobs \in Seq(JobRecords) /\ Len(jobs) \in Nat /\ DOMAIN jobs = 1..Len(jobs)
  BY DEF JobsFit
<1>2. m \in Nat /\ m * z \in Nat
  BY <1>1, Multiples
<1>3. Upto(m, z, n) \in Nat /\ Upto(m, z, n) <= m * z
  BY <1>2 DEF Upto
<1>4. /\ DOMAIN output = 1..Upto(m, z, n)
      /\ \A i \in 1..Upto(m, z, n) : output[i] = i
  BY <1>3 DEF First
<1>5. ASSUME NEW b \in DOMAIN jobs
      PROVE  (\E i \in DOMAIN output : output[i] = Head(jobs[b].batch)) <=> b <= m
  <2>1. b \in Nat \ {0} /\ (b - 1) * z < n /\ jobs[b].batch = Cut(b, z, n)
    BY <1>1 DEF JobsFit, JobFits
  <2>2. (b - 1) * z \in Nat /\ Head(jobs[b].batch) = (b - 1) * z + 1
    <3>1. (b - 1) * z \in Nat /\ Head(Cut(b, z, n)) = (b - 1) * z + 1
      BY <2>1, BatchIs
    <3>2. QED
      BY <3>1, <2>1
  <2>3. Head(jobs[b].batch) = (b - 1) * z + 1
    BY <2>2
  <2>4. b - 1 \in Nat
    BY <2>1
  <2>5. CASE b <= m
    <3>1. (b - 1) * z + z <= m * z
      BY <2>4, <2>5, <1>2, Multiples
    <3>2. (b - 1) * z + 1 \in 1..Upto(m, z, n)
      BY <3>1, <2>1, <2>2, <1>2 DEF Upto
    <3>3. QED
      BY <3>2, <2>3, <1>4, <2>5
  <2>6. CASE ~ (b <= m)
    <3>1. m * z <= (b - 1) * z
      <4>1. m <= b - 1
        BY <2>1, <2>6, <1>2
      <4>2. QED
        BY <4>1, <2>4, <1>2, Multiples
    <3>2. (b - 1) * z + 1 \notin 1..Upto(m, z, n)
      BY <3>1, <2>2, <1>2, <1>3
    <3>3. ASSUME NEW i \in DOMAIN output, output[i] = Head(jobs[b].batch) PROVE FALSE
      <4>1. i \in 1..Upto(m, z, n) /\ output[i] = i
        BY <1>4
      <4>2. QED
        BY <3>2, <3>3, <4>1, <2>3
    <3>4. QED
      BY <3>3, <2>6
  <2>7. QED
    BY <2>5, <2>6
<1> DEFINE written == {b \in DOMAIN jobs :
                         \E i \in DOMAIN output : output[i] = Head(jobs[b].batch)}
<1>6. written = 1..m
  <2>1. written = {b \in 1..Len(jobs) : b <= m}
    BY <1>1, <1>5
  <2>2. QED
    BY <2>1, <1>1, <1>2
<1>7. Cardinality(1..m) = m
  <2>1. m >= 1 => Cardinality(1..m) = m - 1 + 1
    BY <1>2, FS_Interval
  <2>2. m = 0 => Cardinality(1..m) = 0
    <3>1. m = 0 => 1..m = {}
      OBVIOUS
    <3>2. QED
      BY <3>1, FS_EmptySet
  <2>3. QED
    BY <2>1, <2>2, <1>2
<1>8. \A S : Jobs!Cardinality(S) = Cardinality(S)
  BY DEF Cardinality, Jobs!Cardinality
<1>9. Jobs!Written = Jobs!Cardinality(written)
  BY DEF Jobs!Written
<1>10. QED
  BY <1>6, <1>7, <1>8, <1>9

\* The main thread keeps the invariant...
LEMMA MainKeepsInv == JobsInv /\ Jobs!MainStep => JobsInv'
<1> SUFFICES ASSUME JobsInv, Jobs!MainStep PROVE JobsInv'
  OBVIOUS
<1> DEFINE z == Jobs!batchSize
           n == Len(input)
<1>1. /\ FileFits /\ JobsFit(jobs, z, n) /\ ParsesFit(table, jobs)
      /\ phase = "batching" => Batching(jobs, batch, at, z, n)
      /\ phase \in {"waiting", "writing", "ended"} => n > 0 /\ n <= Len(jobs) * z
      /\ \E m \in 0..Len(jobs) : WrittenFits(m, output, jobs, phase, z, n)
  BY DEF JobsInv
<1>2. n \in Nat /\ z \in Nat /\ (z = 0 <=> n = 0) /\ Len(jobs) \in Nat /\ at \in 0..n
  <2>1. n \in Nat /\ z \in Nat /\ (z = 0 <=> n = 0)
    BY <1>1, SizeOfBatch
  <2>2. Len(jobs) \in Nat
    BY <1>1 DEF JobsFit
  <2>3. at \in 0..n
    BY <1>1 DEF FileFits
  <2>4. QED
    BY <2>1, <2>2, <2>3
<1>3. PICK m \in 0..Len(jobs) : WrittenFits(m, output, jobs, phase, z, n)
  BY <1>1
<1>4. input' = input /\ z' = z /\ n' = n /\ UNCHANGED <<table, model, flag>>
  <2>1. input' = input /\ UNCHANGED <<table, model, flag>>
    BY DEF Jobs!MainStep, Jobs!Take, Jobs!LastBatch, Jobs!Awake, Jobs!Write
  <2>2. QED
    BY <2>1 DEF Jobs!batchSize
\* What is to be shown, in the terms of the sizes as they were.
<1>5. ASSUME FileFits', JobsFit(jobs', z, n), ParsesFit(table, jobs'),
             phase' = "batching" => Batching(jobs', batch', at', z, n),
             phase' \in {"waiting", "writing", "ended"} => n > 0 /\ n <= Len(jobs') * z,
             \E k \in 0..Len(jobs') : WrittenFits(k, output', jobs', phase', z, n)
      PROVE  JobsInv'
  BY <1>4, <1>5 DEF JobsInv
\* More jobs make no difference to the map, nor to an output that is empty.
<1>6. ASSUME NEW js, NEW main, Len(js) \in Nat, Len(jobs) <= Len(js),
             \A b \in 1..Len(jobs) : js[b] = jobs[b],
             phase \in {"batching", "waiting"}, main # "ended"
      PROVE  ParsesFit(table, js) /\ \E k \in 0..Len(js) : WrittenFits(k, output, js, main, z, n)
  <2>1. \A b \in 1..Len(jobs) : js[b].batch = jobs[b].batch
    BY <1>6
  <2>2. ParsesFit(table, js)
    BY <1>1, <1>2, <1>6, <2>1, ParsesStay
  <2>3. m = 0 /\ output = First(Upto(0, z, n))
    BY <1>3, <1>6 DEF WrittenFits
  <2>4. 0 \in 0..Len(js)
    BY <1>6
  <2>5. WrittenFits(0, output, js, main, z, n)
    BY <2>3, <1>6 DEF WrittenFits
  <2>6. QED
    BY <2>2, <2>4, <2>5
<1> HIDE DEF z, n
<1>7. CASE Jobs!Take
  <2> DEFINE batch1 == Append(batch, at + 1)
             more == Append(jobs, Jobs!Job(batch1))
  <2>1. /\ phase = "batching" /\ phase' = "batching" /\ at < n /\ at' = at + 1
        /\ output' = output
        /\ IF (at + 1) % z = 0 THEN jobs' = more /\ batch' = <<>>
                               ELSE jobs' = jobs /\ batch' = batch1
    BY <1>7 DEF Jobs!Take, n, z
  <2>2. IF (at + 1) % z = 0
        THEN /\ Len(jobs) * z < n
             /\ batch1 = Cut(Len(jobs) + 1, z, n)
             /\ Batching(more, <<>>, at + 1, z, n)
        ELSE Batching(jobs, batch1, at + 1, z, n)
    <3>1. at \in Nat /\ Batching(jobs, batch, at, z, n)
      BY <1>1, <1>2, <2>1
    <3>2. QED
      BY <1>1, <1>2, <2>1, <3>1, TakeFits
  <2>3. FileFits'
    <3>1. at' \in 0..n
      BY <1>2, <2>1
    <3>2. at' \in 0..Len(input)
      BY <3>1 DEF n
    <3>3. QED
      BY <1>1, <1>4, <2>1, <3>2 DEF FileFits
  <2>4. CASE (at + 1) % z = 0
    <3>1. z \in Nat \ {0}
      BY <1>2, <2>1
    <3>2. /\ JobsFit(more, z, n) /\ Len(more) = Len(jobs) + 1
          /\ \A b \in 1..Len(jobs) : more[b] = jobs[b]
      <4>1. batch1 = Cut(Len(jobs) + 1, z, n) /\ Len(jobs) * z < n
        BY <2>2, <2>4
      <4>2. more = Append(jobs, Jobs!Job(batch1))
        OBVIOUS
      <4> HIDE DEF more, batch1
      <4>3. QED
        <5>1. z \in Nat \ {0} /\ n \in Nat /\ JobsFit(jobs, z, n)
          BY <1>1, <1>2, <3>1
        <5>2. QED
          <6>1. OneMore(jobs, Append(jobs, Jobs!Job(batch1)), z, n)
            BY <4>1, <5>1, OneMoreJob
          <6>2. QED
            BY <4>2, <6>1 DEF OneMore
    <3>3. jobs' = more /\ batch' = <<>> /\ Batching(more, <<>>, at + 1, z, n)
      BY <2>1, <2>2, <2>4
    <3> HIDE DEF more
    <3>4. Len(more) \in Nat /\ Len(jobs) <= Len(more)
      BY <1>2, <3>2
    <3>5. /\ ParsesFit(table, more)
          /\ \E k \in 0..Len(more) : WrittenFits(k, output, more, "batching", z, n)
      BY <1>6, <2>1, <3>2, <3>4
    <3>6. QED
      BY <1>5, <2>1, <2>3, <3>2, <3>3, <3>5
  <2>5. CASE (at + 1) % z # 0
    <3>1. jobs' = jobs /\ batch' = batch1 /\ Batching(jobs, batch1, at + 1, z, n)
      BY <2>1, <2>2, <2>5
    <3>2. QED
      BY <1>1, <1>5, <2>1, <2>3, <3>1
  <2>6. QED
    BY <2>4, <2>5
<1>8. CASE Jobs!LastBatch
  <2>1. /\ phase = "batching" /\ at = n /\ UNCHANGED <<at, batch, output>>
        /\ IF z = 0 THEN phase' = "died" /\ jobs' = jobs
           ELSE /\ phase' = "waiting"
                /\ jobs' = IF at % z # 0 THEN Append(jobs, Jobs!Job(batch)) ELSE jobs
    BY <1>8 DEF Jobs!LastBatch, Jobs!Left, n, z
  <2>2. FileFits'
    BY <1>1, <1>4, <2>1 DEF FileFits
  <2>3. CASE z = 0
    <3>1. phase' = "died" /\ jobs' = jobs
      BY <2>1, <2>3
    <3>2. \E k \in 0..Len(jobs) : WrittenFits(k, output, jobs, "died", z, n)
      <4>1. m = 0
        BY <1>3, <2>1 DEF WrittenFits
      <4>2. WrittenFits(0, output, jobs, "died", z, n)
        BY <1>3, <4>1 DEF WrittenFits
      <4>3. QED
        BY <4>1, <4>2
    <3>3. QED
      BY <1>1, <1>5, <2>1, <2>2, <3>1, <3>2
  <2>4. CASE z # 0
    <3>1. z \in Nat \ {0} /\ n \in Nat \ {0} /\ phase' = "waiting"
      BY <1>2, <2>1, <2>4
    <3>2. Batching(jobs, batch, n, z, n)
      BY <1>1, <2>1
    <3>3. IF n % z # 0
          THEN /\ Len(jobs) * z < n /\ batch = Cut(Len(jobs) + 1, z, n)
               /\ n <= (Len(jobs) + 1) * z
          ELSE n <= Len(jobs) * z
      BY <1>1, <3>1, <3>2, LastFits
    <3> DEFINE more == Append(jobs, Jobs!Job(batch))
    <3>4. CASE n % z # 0
      <4>1. jobs' = more
        BY <2>1, <2>4, <3>4
      <4>2. /\ JobsFit(more, z, n) /\ Len(more) = Len(jobs) + 1
            /\ \A b \in 1..Len(jobs) : more[b] = jobs[b]
        <5>1. more = Append(jobs, Jobs!Job(batch))
          OBVIOUS
        <5>2. Len(jobs) * z < n /\ batch = Cut(Len(jobs) + 1, z, n)
          BY <3>3, <3>4
        <5> HIDE DEF more
        <5>3. QED
          <6>1. z \in Nat \ {0} /\ n \in Nat /\ JobsFit(jobs, z, n)
            BY <1>1, <1>2, <3>1
          <6>2. QED
            <7>1. OneMore(jobs, Append(jobs, Jobs!Job(batch)), z, n)
              BY <5>2, <6>1, OneMoreJob
            <7>2. QED
              BY <5>1, <7>1 DEF OneMore
      <4> HIDE DEF more
      <4>3. Len(more) \in Nat /\ Len(jobs) <= Len(more)
        BY <1>2, <4>2
      <4>4. /\ ParsesFit(table, more)
            /\ \E k \in 0..Len(more) : WrittenFits(k, output, more, "waiting", z, n)
        BY <1>6, <2>1, <4>2, <4>3
      <4>5. n > 0 /\ n <= Len(more) * z
        BY <3>1, <3>3, <3>4, <4>2
      <4>6. QED
        BY <1>5, <2>1, <2>2, <3>1, <4>1, <4>2, <4>4, <4>5
    <3>5. CASE n % z = 0
      <4>1. jobs' = jobs /\ n > 0 /\ n <= Len(jobs) * z
        BY <2>1, <2>4, <3>1, <3>3, <3>5
      <4>2. \E k \in 0..Len(jobs) : WrittenFits(k, output, jobs, "waiting", z, n)
        BY <1>2, <1>6, <2>1
      <4>3. QED
        BY <1>1, <1>5, <2>1, <2>2, <3>1, <4>1, <4>2
    <3>6. QED
      BY <3>4, <3>5
  <2>5. QED
    BY <2>3, <2>4
<1>9. CASE Jobs!Awake
  <2>1. /\ phase = "waiting" /\ phase' = "writing" /\ UNCHANGED <<at, batch, jobs, output>>
    BY <1>9 DEF Jobs!Awake
  <2>2. FileFits'
    BY <1>1, <1>4, <2>1 DEF FileFits
  <2>3. WrittenFits(m, output, jobs, "writing", z, n)
    BY <1>3 DEF WrittenFits
  <2>4. QED
    BY <1>1, <1>5, <2>1, <2>2, <2>3
<1>10. CASE Jobs!Write
  <2>1. /\ phase = "writing" /\ UNCHANGED <<at, batch, jobs>>
        /\ IF Jobs!Written = Len(jobs) THEN phase' = "ended" /\ output' = output
           ELSE IF Jobs!Written + 1 \in DOMAIN table
           THEN output' = output \o table[Jobs!Written + 1] /\ phase' = phase
           ELSE phase' = "died" /\ output' = output
    BY <1>10 DEF Jobs!Write, Jobs!batchNumber
  <2>2. n > 0 /\ n <= Len(jobs) * z /\ z \in Nat \ {0}
    BY <1>1, <1>2, <2>1
  <2>3. output = First(Upto(m, z, n))
    BY <1>3 DEF WrittenFits
  <2>4. Jobs!Written = m
    BY <1>1, <1>2, <2>2, <2>3, WrittenIs
  <2>5. FileFits'
    BY <1>1, <1>4, <2>1 DEF FileFits
  <2>6. CASE m = Len(jobs)
    <3>1. phase' = "ended" /\ output' = output
      BY <2>1, <2>4, <2>6
    <3>2. WrittenFits(m, output, jobs, "ended", z, n)
      BY <2>3, <2>6 DEF WrittenFits
    <3>3. QED
      BY <1>1, <1>5, <2>1, <2>2, <2>5, <3>1, <3>2
  <2>7. CASE m # Len(jobs) /\ m + 1 \notin DOMAIN table
    <3>1. phase' = "died" /\ output' = output
      BY <2>1, <2>4, <2>7
    <3>2. WrittenFits(m, output, jobs, "died", z, n)
      BY <2>3 DEF WrittenFits
    <3>3. QED
      BY <1>1, <1>5, <2>1, <2>5, <3>1, <3>2
  <2>8. CASE m # Len(jobs) /\ m + 1 \in DOMAIN table
    <3>1. phase' = "writing" /\ output' = output \o table[m + 1]
      BY <2>1, <2>4, <2>8
    <3>2. m + 1 \in 1..Len(jobs) /\ m \in Nat
      BY <1>2, <2>8
    <3>3. m * z < n /\ table[m + 1] = Cut(m + 1, z, n)
      <4>1. JobFits(jobs[m + 1], m + 1, z, n)
        BY <1>1, <3>2 DEF JobsFit
      <4>2. (m + 1) - 1 = m
        BY <3>2
      <4>3. m * z < n /\ jobs[m + 1].batch = Cut(m + 1, z, n)
        BY <4>1, <4>2 DEF JobFits
      <4>4. table[m + 1] = jobs[m + 1].batch
        BY <1>1, <2>8 DEF ParsesFit
      <4>5. QED
        BY <4>3, <4>4
    <3>4. output' = First(Upto(m + 1, z, n))
      BY <1>2, <2>2, <2>3, <3>1, <3>2, <3>3, InOrder
    <3>5. WrittenFits(m + 1, output', jobs, "writing", z, n) /\ m + 1 \in 0..Len(jobs)
      BY <3>2, <3>4 DEF WrittenFits
    <3>6. QED
      BY <1>1, <1>5, <2>1, <2>2, <2>5, <3>1, <3>5
  <2>9. QED
    BY <2>6, <2>7, <2>8
<1>11. QED
  BY <1>7, <1>8, <1>9, <1>10 DEF Jobs!MainStep

\* ... and so do the jobs, in any order.
LEMMA JobKeepsInv ==
  ASSUME JobsInv, NEW b \in DOMAIN jobs, Jobs!JobStep(b) \/ Jobs!Circle(b)
  PROVE  JobsInv'
<1> DEFINE z == Jobs!batchSize
           n == Len(input)
<1>1. /\ FileFits /\ JobsFit(jobs, z, n) /\ ParsesFit(table, jobs)
      /\ phase = "batching" => Batching(jobs, batch, at, z, n)
      /\ phase \in {"waiting", "writing", "ended"} => n > 0 /\ n <= Len(jobs) * z
      /\ \E m \in 0..Len(jobs) : WrittenFits(m, output, jobs, phase, z, n)
  BY DEF JobsInv
<1>2. n \in Nat /\ z \in Nat /\ (z = 0 <=> n = 0) /\ Len(jobs) \in Nat
      /\ jobs \in Seq(JobRecords) /\ b \in 1..Len(jobs)
  <2>1. n \in Nat /\ z \in Nat /\ (z = 0 <=> n = 0)
    BY <1>1, SizeOfBatch
  <2>2. Len(jobs) \in Nat /\ jobs \in Seq(JobRecords) /\ b \in 1..Len(jobs)
    BY <1>1 DEF JobsFit
  <2>3. QED
    BY <2>1, <2>2
<1>3. z \in Nat \ {0}
  <2>1. n = 0 => Len(jobs) = 0
    BY <1>1, <1>2, JobsNeedSentences
  <2>2. QED
    BY <2>1, <1>2
<1>4. /\ UNCHANGED <<input, phase, at, batch, output>>
      /\ FileFits'
      /\ DOMAIN table' \subseteq 1..Len(jobs)
      /\ \A c \in DOMAIN table' : table'[c] = jobs[c].batch
  BY <1>1, JobShares
<1>5. z' = z /\ n' = n
  BY <1>4 DEF Jobs!batchSize
<1> HIDE DEF z, n
<1>6. PICK job : JobFits(job, b, z, n) /\ jobs' = [jobs EXCEPT ![b] = job]
  BY <1>1, <1>2, <1>3, JobMoves
<1>7. job \in JobRecords /\ job.batch = Cut(b, z, n) /\ jobs[b].batch = Cut(b, z, n)
  <2>1. JobFits(jobs[b], b, z, n)
    BY <1>1, <1>2 DEF JobsFit
  <2>2. QED
    BY <1>6, <2>1 DEF JobFits
<1>8. /\ jobs' \in Seq(JobRecords) /\ Len(jobs') = Len(jobs)
      /\ \A c \in 1..Len(jobs) : jobs'[c] = IF c = b THEN job ELSE jobs[c]
  BY <1>2, <1>6, <1>7, ExceptSeq
<1>9. JobsFit(jobs', z, n)
  <2>1. ASSUME NEW c \in 1..Len(jobs) PROVE JobFits(jobs'[c], c, z, n)
    BY <1>1, <1>6, <1>8 DEF JobsFit
  <2>2. QED
    BY <1>8, <2>1 DEF JobsFit
<1>10. ParsesFit(table', jobs')
  <2>1. \A c \in 1..Len(jobs) : jobs'[c].batch = jobs[c].batch
    BY <1>7, <1>8
  <2>2. QED
    BY <1>4, <1>8, <2>1 DEF ParsesFit
<1>11. phase' = "batching" => Batching(jobs', batch', at', z, n)
  BY <1>1, <1>4, <1>8 DEF Batching
<1>12. \E m \in 0..Len(jobs') : WrittenFits(m, output', jobs', phase', z, n)
  BY <1>1, <1>4, <1>8 DEF WrittenFits
<1>13. QED
  <2>1. phase' \in {"waiting", "writing", "ended"} => n > 0 /\ n <= Len(jobs') * z
    BY <1>1, <1>4, <1>8
  <2>2. Jobs!batchSize' = z /\ Len(input)' = n
    BY <1>5 DEF z, n
  <2>3. QED
    BY <1>4, <1>9, <1>10, <1>11, <1>12, <2>1, <2>2 DEF JobsInv

\* In the invariant the output is in order, and no job waits for a thread.
LEMMA JobsAgree == JobsInv => Jobs!OutputInOrder /\ Jobs!TypeOK /\ Jobs!ThreadPerJob
<1> SUFFICES ASSUME JobsInv PROVE Jobs!OutputInOrder /\ Jobs!TypeOK /\ Jobs!ThreadPerJob
  OBVIOUS
<1> DEFINE z == Jobs!batchSize
           n == Len(input)
<1>1. /\ FileFits /\ JobsFit(jobs, z, n) /\ ParsesFit(table, jobs)
      /\ phase \in {"waiting", "writing", "ended"} => n > 0 /\ n <= Len(jobs) * z
      /\ \E m \in 0..Len(jobs) : WrittenFits(m, output, jobs, phase, z, n)
  BY DEF JobsInv
<1>2. /\ n \in Nat /\ z \in Nat /\ (z = 0 <=> n = 0) /\ Len(jobs) \in Nat
      /\ n <= nthreads * z /\ nthreads \in Nat \ {0}
  <2>1. n \in Nat /\ z \in Nat /\ (z = 0 <=> n = 0) /\ n <= nthreads * z
        /\ nthreads \in Nat \ {0}
    BY <1>1, SizeOfBatch
  <2>2. Len(jobs) \in Nat
    BY <1>1 DEF JobsFit
  <2>3. QED
    BY <2>1, <2>2
<1>3. jobs \in Seq(JobRecords) /\ DOMAIN jobs = 1..Len(jobs)
      /\ \A b \in DOMAIN jobs : JobFits(jobs[b], b, z, n)
  BY <1>1 DEF JobsFit
<1>4. DOMAIN input = 1..n
  BY <1>1 DEF FileFits
<1> HIDE DEF z, n
<1>5. ASSUME NEW b \in DOMAIN jobs
      PROVE  /\ z \in Nat \ {0} /\ b \in Nat \ {0} /\ (b - 1) * z < n
             /\ jobs[b].batch = Cut(b, z, n)
             /\ Cut(b, z, n) \in Seq(1..n) /\ Len(Cut(b, z, n)) \in Nat \ {0}
             /\ jobs[b].at \in 1..(Len(Cut(b, z, n)) + 1)
             /\ jobs[b].looks \in {1, 2}
  <2>1. b \in 1..Len(jobs)
    BY <1>3
  <2>2. z \in Nat \ {0} /\ b \in Nat \ {0}
    <3>1. n = 0 => Len(jobs) = 0
      BY <1>1, <1>2, JobsNeedSentences
    <3>2. QED
      BY <2>1, <3>1, <1>2
  <2>3. (b - 1) * z < n /\ jobs[b].batch = Cut(b, z, n)
        /\ jobs[b].at \in 1..(Len(Cut(b, z, n)) + 1) /\ jobs[b].looks \in {1, 2}
    BY <1>3 DEF JobFits, JobRecords
  <2>4. Cut(b, z, n) \in Seq(1..n) /\ Len(Cut(b, z, n)) \in Nat \ {0}
    BY <1>2, <2>2, <2>3, BatchIs
  <2>5. QED
    BY <2>2, <2>3, <2>4
<1>6. Jobs!ThreadPerJob
  <2>1. SUFFICES ASSUME nthreads < Len(jobs) PROVE FALSE
    BY <1>2 DEF Jobs!ThreadPerJob, Jobs!batchNumber
  <2> DEFINE b == Len(jobs)
  <2>2. b \in DOMAIN jobs
    BY <1>2, <1>3, <2>1
  <2>3. z \in Nat \ {0} /\ (b - 1) * z < n /\ b - 1 \in Nat
    BY <1>2, <1>5, <2>2
  <2>4. nthreads * z <= (b - 1) * z
    <3>1. nthreads <= b - 1
      BY <1>2, <2>1
    <3>2. QED
      BY <1>2, <2>3, <3>1, Multiples
  <2>5. nthreads * z \in Nat /\ (b - 1) * z \in Nat
    BY <1>2, <2>3, Multiples
  <2>6. QED
    BY <1>2, <2>3, <2>4, <2>5
<1>7. Jobs!TypeOK
  <2>1. ASSUME NEW b \in DOMAIN jobs
        PROVE  /\ jobs[b].batch \in Seq(DOMAIN input) \ {<<>>}
               /\ jobs[b].at \in 1..(Len(jobs[b].batch) + 1)
               /\ jobs[b].looks \in DOMAIN <<"SBARQ", "NP">>
    <3>1. jobs[b].batch \in Seq(DOMAIN input) /\ Len(jobs[b].batch) \in Nat \ {0}
          /\ jobs[b].at \in 1..(Len(jobs[b].batch) + 1)
      BY <1>4, <1>5
    <3>2. jobs[b].batch # <<>>
      BY <3>1, EmptySeq
    <3>3. DOMAIN <<"SBARQ", "NP">> = {1, 2}
      OBVIOUS
    <3>4. QED
      BY <1>5, <3>1, <3>2, <3>3
  <2>2. DOMAIN table \subseteq DOMAIN jobs
    BY <1>1, <1>3 DEF ParsesFit
  <2>3. model \subseteq {<<"SBARQ", "NP">>[x] : x \in DOMAIN <<"SBARQ", "NP">>}
    <3>1. model \subseteq {"SBARQ", "NP"}
      BY <1>1 DEF FileFits
    <3>2. /\ 1 \in DOMAIN <<"SBARQ", "NP">> /\ 2 \in DOMAIN <<"SBARQ", "NP">>
          /\ <<"SBARQ", "NP">>[1] = "SBARQ" /\ <<"SBARQ", "NP">>[2] = "NP"
      OBVIOUS
    <3>3. {"SBARQ", "NP"} \subseteq {<<"SBARQ", "NP">>[x] : x \in DOMAIN <<"SBARQ", "NP">>}
      BY <3>2
    <3>4. QED
      BY <3>1, <3>3
  <2>4. /\ phase \in {"batching", "waiting", "writing", "ended", "died"}
        /\ at \in 0..Len(input) /\ flag \in BOOLEAN
    BY <1>1 DEF FileFits
  <2>5. QED
    BY <2>1, <2>2, <2>3, <2>4 DEF Jobs!TypeOK
<1>8. Jobs!OutputInOrder
  <2>1. PICK m \in 0..Len(jobs) : WrittenFits(m, output, jobs, phase, z, n)
    BY <1>1
  <2>2. output = First(Upto(m, z, n)) /\ (phase = "ended" => m = Len(jobs))
    BY <2>1 DEF WrittenFits
  <2>3. m * z \in Nat
    BY <1>2
  <2>4. Upto(m, z, n) \in Nat
    BY <1>2, <2>3 DEF Upto
  <2>5. /\ DOMAIN output = 1..Upto(m, z, n) /\ Len(output) = Upto(m, z, n)
        /\ \A i \in 1..Upto(m, z, n) : output[i] = i
    BY <2>2, <2>4 DEF First
  <2>6. ASSUME phase = "ended" PROVE Upto(m, z, n) = n
    <3>1. n <= m * z
      BY <1>1, <2>2, <2>6
    <3>2. QED
      BY <3>1, <2>3, <1>2 DEF Upto
  <2>7. QED
    BY <2>5, <2>6 DEF Jobs!OutputInOrder, n
<1>9. QED
  BY <1>6, <1>7, <1>8

\* The parser client, whatever the number of its threads, keeps the batches it has cut
\* and writes them in the order they have been cut in.
THEOREM JobsInvariance == Spec => [](program = "jobs" => JobsInv)
<1> DEFINE I == program = "jobs" => JobsInv
<1>1. Init => I
  BY JobsInit DEF Init
<1>2. I /\ [Next]_vars => I'
  <2>1. SUFFICES ASSUME I, [Next]_vars, program' = "jobs" PROVE JobsInv'
    OBVIOUS
  <2>2. CASE UNCHANGED vars
    <3>1. JobsInv
      BY <2>1, <2>2 DEF vars
    <3>2. QED
      BY <2>2, <3>1 DEF vars, JobsInv, FileFits, Jobs!batchSize
  <2>3. CASE MainStep
    BY <2>1, <2>3, MainKeepsInv DEF MainStep
  <2>4. CASE Compute
    BY <2>1, <2>4 DEF Compute
  <2>5. ASSUME NEW b \in 1..(MaxSentences + 1), JobStep(b) \/ Circle(b) PROVE JobsInv'
    BY <2>1, <2>5, JobKeepsInv DEF JobStep, Circle
  <2>6. QED
    BY <2>1, <2>2, <2>3, <2>4, <2>5 DEF Next
<1>3. QED
  BY <1>1, <1>2, PTL DEF Spec

\* Parser client: whatever becomes of the jobs, the output is in the order of the
\* input, and whole when the program ends well.
THEOREM OutputSafe == Spec => []OutputInOrder
<1>1. (program = "jobs" => JobsInv) => OutputInOrder
  BY JobsAgree DEF OutputInOrder
<1>2. QED
  BY <1>1, JobsInvariance, PTL

\* Parser client: no job waits for the thread of another, and every job is within its
\* batch, which is never empty.
THEOREM ThreadForEveryJob ==
  Spec => [](program = "jobs" => Jobs!TypeOK /\ Jobs!ThreadPerJob)
<1>1. (program = "jobs" => JobsInv) => (program = "jobs" => Jobs!TypeOK /\ Jobs!ThreadPerJob)
  BY JobsAgree
<1>2. QED
  BY <1>1, JobsInvariance, PTL

-----------------------------------------------------------------------------
(* Numbers.                                                                *)

\* A set of numbers has a least one.
LEMMA LeastNumber ==
  ASSUME NEW T \in SUBSET Nat, T # {}
  PROVE  \E x \in T : \A y \in T : x <= y
<1> DEFINE Below == {1..x : x \in T}
<1>1. Below # {} /\ Below \subseteq FiniteSubsetsOf(Nat)
  <2>1. ASSUME NEW x \in T PROVE IsFiniteSet(1..x) /\ 1..x \subseteq Nat
    BY FS_Interval
  <2>2. QED
    BY <2>1 DEF FiniteSubsetsOf
<1>2. PICK b \in Below : \A c \in Below : <<c, b>> \notin StrictSubsetOrdering(Nat)
  BY <1>1, FS_StrictSubsetOrderingWellFounded, WFMin
<1>3. PICK x \in T : b = 1..x
  OBVIOUS
<1>4. ASSUME NEW y \in T, y < x PROVE FALSE
  <2>1. 1..y \subseteq 1..x /\ x \in 1..x /\ x \notin 1..y
    BY <1>4
  <2>2. <<1..y, b>> \in StrictSubsetOrdering(Nat)
    BY <1>3, <2>1 DEF StrictSubsetOrdering
  <2>3. QED
    BY <1>2, <2>2
<1>5. QED
  BY <1>4

\* Of several numbers between two, there is a greatest.
LEMMA GreatestBetween ==
  ASSUME NEW a \in Int, NEW b \in Int, NEW V \in SUBSET (a..b), V # {}
  PROVE  \E m \in V : \A y \in V : y <= m
<1> DEFINE T == {b - y : y \in V}
<1>1. T \in SUBSET Nat /\ T # {}
  <2>1. \A y \in V : y \in a..b /\ b - y \in Nat
    OBVIOUS
  <2>2. QED
    BY <2>1
<1>2. PICK x \in T : \A y \in T : x <= y
  <2> HIDE DEF T
  <2>1. QED
    BY <1>1, LeastNumber
<1>3. PICK m \in V : x = b - m
  OBVIOUS
<1>4. ASSUME NEW y \in V PROVE y <= m
  <2>1. x <= b - y /\ y \in a..b /\ m \in a..b
    BY <1>2
  <2>2. QED
    BY <1>3, <2>1
<1>5. QED
  BY <1>4

\* What holds of 0 and passes from n to n + 1 holds of every number.
LEMMA Induction ==
  ASSUME NEW S \in SUBSET Nat, 0 \in S, \A n \in S : n + 1 \in S
  PROVE  S = Nat
<1>1. SUFFICES ASSUME Nat \ S # {} PROVE FALSE
  OBVIOUS
<1>2. PICK x \in Nat \ S : \A y \in Nat \ S : x <= y
  BY <1>1, LeastNumber
<1>3. x - 1 \in S
  BY <1>2
<1>4. QED
  BY <1>2, <1>3

\* What holds of 1 and passes from n to n + 1 holds of every number from 1 on.
LEMMA InductionFrom1 ==
  ASSUME NEW S, 1 \in S, \A n \in Nat \ {0} : n \in S => n + 1 \in S
  PROVE  \A n \in Nat \ {0} : n \in S
<1> DEFINE N == {n \in Nat : n + 1 \in S}
<1>1. 0 \in N
  OBVIOUS
<1>2. \A n \in N : n + 1 \in N
  OBVIOUS
<1>3. N = Nat
  <2>1. N \in SUBSET Nat
    OBVIOUS
  <2> HIDE DEF N
  <2>2. QED
    BY <1>1, <1>2, <2>1, Induction
<1>4. ASSUME NEW n \in Nat \ {0} PROVE n \in S
  <2>1. n - 1 \in Nat /\ (n - 1) + 1 = n
    OBVIOUS
  <2>2. n - 1 \in N
    BY <1>3, <2>1
  <2>3. QED
    BY <2>1, <2>2
<1>5. QED
  BY <1>4

\* Of several numbers in a row, there is a last of the greatest.
LEMMA LastGreatest ==
  ASSUME NEW n \in Nat \ {0}, NEW f, \A x \in 1..n : f[x] \in Int
  PROVE  \E x \in 1..n : \A y \in 1..n : f[y] <= f[x] /\ (y > x => f[y] < f[x])
<1> DEFINE Last(m) == \E x \in 1..m : \A y \in 1..m : f[y] <= f[x] /\ (y > x => f[y] < f[x])
           S == {m \in Nat \ {0} : m <= n => Last(m)}
<1>1. 1 \in S
  OBVIOUS
<1>2. ASSUME NEW m \in Nat \ {0}, m \in S PROVE m + 1 \in S
  <2>1. SUFFICES ASSUME m + 1 <= n PROVE Last(m + 1)
    OBVIOUS
  <2>2. PICK x \in 1..m : \A y \in 1..m : f[y] <= f[x] /\ (y > x => f[y] < f[x])
    BY <1>2, <2>1
  <2>3. f[x] \in Int /\ f[m + 1] \in Int /\ \A y \in 1..m : f[y] \in Int
    BY <2>1
  <2>4. CASE f[m + 1] >= f[x]
    <3>1. \A y \in 1..(m + 1) : f[y] <= f[m + 1] /\ ~(y > m + 1)
      BY <2>2, <2>3, <2>4
    <3>2. QED
      BY <3>1
  <2>5. CASE f[m + 1] < f[x]
    <3>1. \A y \in 1..(m + 1) : f[y] <= f[x] /\ (y > x => f[y] < f[x])
      BY <2>2, <2>3, <2>5
    <3>2. x \in 1..(m + 1)
      OBVIOUS
    <3>3. QED
      BY <3>1, <3>2
  <2>6. QED
    BY <2>3, <2>4, <2>5
<1> HIDE DEF Last
<1>3. \A m \in Nat \ {0} : m \in S
  <2> HIDE DEF S
  <2>1. QED
    BY <1>1, <1>2, InductionFrom1
<1>4. Last(n)
  BY <1>3
<1>5. QED
  BY <1>4 DEF Last

-----------------------------------------------------------------------------
(* The chart: trees, spans and keys.                                       *)

\* The spans with a nonterminal each, and the length of one.
Spans == (0..(input - 1)) \X (0..(input - 1)) \X Parser!Nonterminals
Key(s) == Parser!getKey(s[1], s[2], s[3])

\* The parser's sentence, its rules and the hash codes of its nonterminals.
SentenceFits ==
  /\ input \in 1..MaxLength
  /\ batch \in [Parser!Nonterminals -> Int]
  /\ model \subseteq Parser!Nonterminals \X Parser!Nonterminals \X Parser!Nonterminals
  /\ estimates \in [Parser!Nonterminals -> [0..(input - 1) -> {Parser!MIN, -1}]]

\* The values of the trees over a span that a function of the shorter ones gives.
Over(f, s) ==
  IF s[1] = s[2] THEN {estimates[s[3]][s[1]]} \ {Parser!MIN}
  ELSE UNION {{Parser!RuleEstimate(r[2], r[3]) + v[1] + v[2] :
                 v \in f[<<s[1], k, r[2]>>] \X f[<<k + 1, s[2], r[3]>>]} :
              r \in {q \in model : q[1] = s[3]}, k \in s[1]..(s[2] - 1)}

\* Numbers of words, nonterminals and so on.
LEMMA SentenceIs ==
  ASSUME SentenceFits
  PROVE  /\ input \in Nat /\ input > 0 /\ input <= 256 /\ NTs \in Nat /\ NTs > 0
         /\ Parser!Nonterminals = 0..(NTs - 1) /\ Parser!MIN = -1000
         /\ SBARQ \in Parser!Nonterminals
<1>1. SBARQ \in 0..(NTs - 1) /\ NTs \in Nat \ {0} /\ MaxLength \in Nat \ {0} /\ MaxLength <= 256
  BY LanguageAssumption, EstimatesAssumption
<1>2. input \in 1..MaxLength
  BY DEF SentenceFits
<1>3. QED
  BY <1>1, <1>2 DEF Parser!Nonterminals, Parser!MIN

\* A number below 256 and what it is added to can be told from the sum.
LEMMA Digits ==
  \A a, b, c, d : a \in Int /\ b \in Int /\ c \in 0..255 /\ d \in 0..255
                  /\ a * 256 + c = b * 256 + d => a = b /\ c = d
OBVIOUS

\* What is shifted by eight bits twice has been shifted by sixteen.
LEMMA Shifted ==
  \A a, b, c : a \in Int /\ b \in Int /\ c \in Int
               => (a * 256 + b) * 256 + c = a * 65536 + b * 256 + c
OBVIOUS

\* The number below 256 is what is left of the sum when it is divided by 256.
LEMMA LastDigit ==
  ASSUME NEW a \in Int, NEW c \in 0..255
  PROVE  (a * 256 + c) % 256 = c
OBVIOUS

\* A key is made of the part of the hash code that is kept and the ends of a span.
LEMMA KeyIs ==
  ASSUME SentenceFits, NEW s \in Spans
  PROVE  /\ s[1] \in 0..255 /\ s[2] \in 0..255 /\ Parser!Kept(s[3]) \in Int
         /\ Key(s) = (Parser!Kept(s[3]) * 256 + s[1]) * 256 + s[2]
<1>1. /\ s[1] \in 0..(input - 1) /\ s[2] \in 0..(input - 1) /\ s[3] \in Parser!Nonterminals
      /\ input \in Nat /\ input <= 256
  BY SentenceIs DEF Spans
<1>2. s[1] \in 0..255 /\ s[2] \in 0..255
  BY <1>1
<1>3. Parser!Kept(s[3]) \in Int
  <2>1. batch[s[3]] \in Int
    BY <1>1 DEF SentenceFits
  <2>2. QED
    BY <2>1 DEF Parser!Kept
<1>4. Key(s) = Parser!Kept(s[3]) * 65536 + s[1] * 256 + s[2]
  BY DEF Key, Parser!getKey
<1>5. QED
  BY <1>2, <1>3, <1>4, Shifted

\* Only nonterminals that are alike share a key, and only over the same span.
LEMMA KeysDiffer ==
  ASSUME SentenceFits, NEW s \in Spans, NEW t \in Spans, Key(s) = Key(t)
  PROVE  /\ s[1] = t[1] /\ s[2] = t[2] /\ Parser!Kept(s[3]) = Parser!Kept(t[3])
         /\ Parser!HashesDiffer => s = t
<1> DEFINE x == Parser!Kept(s[3])
           y == Parser!Kept(t[3])
<1>1. /\ s[1] \in 0..255 /\ s[2] \in 0..255 /\ x \in Int
      /\ t[1] \in 0..255 /\ t[2] \in 0..255 /\ y \in Int
      /\ (x * 256 + s[1]) * 256 + s[2] = (y * 256 + t[1]) * 256 + t[2]
  BY KeyIs
<1> HIDE DEF x, y
<1>2. x * 256 + s[1] \in Int /\ y * 256 + t[1] \in Int
  BY <1>1
<1>3. x * 256 + s[1] = y * 256 + t[1] /\ s[2] = t[2]
  BY ONLY <1>1, <1>2, Digits
<1>4. x = y /\ s[1] = t[1]
  <2> DEFINE i == s[1]
             j == t[1]
  <2>1. x \in Int /\ y \in Int /\ i \in 0..255 /\ j \in 0..255 /\ x * 256 + i = y * 256 + j
    BY <1>1, <1>3
  <2> HIDE DEF i, j
  <2>2. x = y /\ i = j
    BY ONLY <2>1, Digits
  <2>3. QED
    BY <2>2 DEF i, j
<1>5. /\ s[3] \in Parser!Nonterminals /\ t[3] \in Parser!Nonterminals
      /\ s = <<s[1], s[2], s[3]>> /\ t = <<t[1], t[2], t[3]>>
  BY DEF Spans
<1>6. Parser!HashesDiffer => s[3] = t[3]
  BY <1>4, <1>5 DEF Parser!HashesDiffer, x, y
<1>7. QED
  BY <1>3, <1>4, <1>5, <1>6 DEF x, y

\* The two parts of a span that is cut at k, with the nonterminals of a rule.
LEMMA PartsOf ==
  ASSUME SentenceFits, NEW s \in Spans, NEW r \in model, NEW k \in s[1]..(s[2] - 1)
  PROVE  /\ <<s[1], k, r[2]>> \in Spans /\ <<k + 1, s[2], r[3]>> \in Spans
         /\ k \in Nat /\ s[1] <= k /\ k < s[2] /\ s[1] \in Nat /\ s[2] \in Nat /\ s[2] < input
         /\ r[1] \in Parser!Nonterminals /\ r[2] \in Parser!Nonterminals
         /\ r[3] \in Parser!Nonterminals
<1>1. input \in Nat /\ s[1] \in 0..(input - 1) /\ s[2] \in 0..(input - 1)
  BY SentenceIs DEF Spans
<1>2. /\ r[1] \in Parser!Nonterminals /\ r[2] \in Parser!Nonterminals
      /\ r[3] \in Parser!Nonterminals
  BY DEF SentenceFits
<1>3. k \in 0..(input - 1) /\ k + 1 \in 0..(input - 1)
  BY <1>1
<1>4. QED
  BY <1>1, <1>2, <1>3 DEF Spans

\* What is over a span depends on the shorter ones only.
LEMMA OverSame ==
  ASSUME SentenceFits, NEW s \in Spans, NEW f, NEW g,
         \A t \in Spans : t[2] - t[1] < s[2] - s[1] => f[t] = g[t]
  PROVE  Over(f, s) = Over(g, s)
<1>1. ASSUME s[1] # s[2], NEW r \in {q \in model : q[1] = s[3]}, NEW k \in s[1]..(s[2] - 1)
      PROVE  /\ f[<<s[1], k, r[2]>>] = g[<<s[1], k, r[2]>>]
             /\ f[<<k + 1, s[2], r[3]>>] = g[<<k + 1, s[2], r[3]>>]
  <2>1. /\ <<s[1], k, r[2]>> \in Spans /\ <<k + 1, s[2], r[3]>> \in Spans
        /\ k \in Nat /\ s[1] <= k /\ k < s[2] /\ s[1] \in Nat /\ s[2] \in Nat
    BY PartsOf
  <2>2. k - s[1] < s[2] - s[1] /\ s[2] - (k + 1) < s[2] - s[1]
    BY <2>1
  <2> DEFINE a == <<s[1], k, r[2]>>
             b == <<k + 1, s[2], r[3]>>
  <2>3. a[1] = s[1] /\ a[2] = k /\ b[1] = k + 1 /\ b[2] = s[2] /\ a \in Spans /\ b \in Spans
    BY <2>1
  <2> HIDE DEF a, b
  <2>4. f[a] = g[a] /\ f[b] = g[b]
    BY <2>2, <2>3
  <2>5. QED
    BY <2>4 DEF a, b
<1>2. CASE s[1] = s[2]
  BY <1>2 DEF Over
<1>3. CASE s[1] # s[2]
  <2> DEFINE F(h, r, k) == {Parser!RuleEstimate(r[2], r[3]) + v[1] + v[2] :
                              v \in h[<<s[1], k, r[2]>>] \X h[<<k + 1, s[2], r[3]>>]}
             R == {q \in model : q[1] = s[3]}
             K == s[1]..(s[2] - 1)
  <2>1. \A r \in R, k \in K : F(f, r, k) = F(g, r, k)
    BY <1>1, <1>3
  <2>2. /\ Over(f, s) = UNION {F(f, r, k) : r \in R, k \in K}
        /\ Over(g, s) = UNION {F(g, r, k) : r \in R, k \in K}
    BY <1>3 DEF Over
  <2> HIDE DEF F, R, K
  <2>3. {F(f, r, k) : r \in R, k \in K} = {F(g, r, k) : r \in R, k \in K}
    BY <2>1
  <2>4. QED
    BY <2>2, <2>3
<1>4. QED
  BY <1>2, <1>3

\* The values of the trees over a span are made from those over its parts.
LEMMA TreesStep ==
  ASSUME SentenceFits
  PROVE  \A s \in Spans : Parser!Trees[s] = Over(Parser!Trees, s)
<1> DEFINE Small(m) == {s \in Spans : s[2] - s[1] <= m}
           Are(f, m) == f = [s \in Small(m) |-> Over(f, s)]
           N == {m \in Nat : \E f : Are(f, m)}
<1>0. input \in Nat /\ \A s \in Spans : s[1] \in 0..(input - 1) /\ s[2] \in 0..(input - 1)
  BY SentenceIs DEF Spans
<1>1. 0 \in N
  <2> DEFINE g == [s \in Spans |-> {}]
             f == [s \in Small(0) |-> Over(g, s)]
  <2>1. ASSUME NEW s \in Small(0) PROVE Over(g, s) = Over(f, s)
    <3>1. s \in Spans /\ s[2] <= s[1] /\ s[1] \in Nat /\ s[2] \in Nat
      BY <1>0
    <3>2. CASE s[1] = s[2]
      BY <3>2 DEF Over
    <3>3. CASE s[1] # s[2]
      <4>1. s[1]..(s[2] - 1) = {}
        BY <3>1
      <4>2. ASSUME NEW h PROVE Over(h, s) = {}
        <5> DEFINE F(r, k) == {Parser!RuleEstimate(r[2], r[3]) + v[1] + v[2] :
                                 v \in h[<<s[1], k, r[2]>>] \X h[<<k + 1, s[2], r[3]>>]}
                   R == {q \in model : q[1] = s[3]}
                   K == s[1]..(s[2] - 1)
        <5>1. Over(h, s) = UNION {F(r, k) : r \in R, k \in K}
          BY <3>3 DEF Over
        <5>2. K = {}
          BY <4>1
        <5> HIDE DEF F, R, K
        <5>3. QED
          BY <5>1, <5>2
      <4> HIDE DEF g, f
      <4>3. QED
        BY <4>2
    <3>4. QED
      BY <3>2, <3>3
  <2>2. f = [s \in Small(0) |-> Over(g, s)]
    OBVIOUS
  <2> HIDE DEF f, g, Small
  <2>3. f = [s \in Small(0) |-> Over(f, s)]
    BY <2>1, <2>2
  <2>4. QED
    BY <2>3
<1>2. ASSUME NEW m \in N PROVE m + 1 \in N
  <2>1. m \in Nat
    OBVIOUS
  <2>2. PICK f : Are(f, m)
    OBVIOUS
  <2> DEFINE g == [s \in Small(m + 1) |-> Over(f, s)]
  <2>3. ASSUME NEW s \in Small(m) PROVE s \in Small(m + 1) /\ f[s] = g[s]
    <3>1. s \in Small(m + 1)
      BY <1>0, <2>1
    <3> HIDE DEF Small
    <3>2. f[s] = Over(f, s)
      BY <2>2
    <3>3. QED
      BY <3>1, <3>2
  <2>4. ASSUME NEW s \in Small(m + 1) PROVE Over(f, s) = Over(g, s)
    <3>1. s \in Spans
      OBVIOUS
    <3>2. ASSUME NEW t \in Spans, t[2] - t[1] < s[2] - s[1] PROVE f[t] = g[t]
      <4>1. s[2] - s[1] <= m + 1
        OBVIOUS
      <4>2. t \in Small(m)
        BY <1>0, <2>1, <3>1, <3>2, <4>1
      <4>3. QED
        BY <2>3, <4>2
    <3> HIDE DEF g
    <3>3. QED
      BY <3>1, <3>2, OverSame
  <2>5. g = [s \in Small(m + 1) |-> Over(f, s)]
    OBVIOUS
  <2> HIDE DEF g, Small
  <2>6. g = [s \in Small(m + 1) |-> Over(g, s)]
    BY <2>4, <2>5
  <2>7. QED
    BY <2>1, <2>6
<1>3. N = Nat
  <2>1. N \in SUBSET Nat
    OBVIOUS
  <2> HIDE DEF N
  <2>2. QED
    BY <1>1, <1>2, <2>1, Induction
<1>4. PICK f : Are(f, input)
  BY <1>0, <1>3
<1>5. Small(input) = Spans
  BY <1>0
<1>6. f = [s \in Spans |-> Over(f, s)]
  <2> HIDE DEF Small
  <2>1. QED
    BY <1>4, <1>5
<1>7. Parser!Trees = CHOOSE T : T = [s \in Spans |-> Over(T, s)]
  BY DEF Parser!Trees, Over, Spans
<1>8. Parser!Trees = [s \in Spans |-> Over(Parser!Trees, s)]
  BY <1>6, <1>7
<1>9. QED
  BY <1>8

\* A value by rule r, of two trees that meet after word k.
ByRule(f, s, t, r, k) ==
  /\ r[1] = s[3]
  /\ \E x \in f[<<s[1], k, r[2]>>] : \E y \in f[<<k + 1, s[2], r[3]>>] :
       t = Parser!RuleEstimate(r[2], r[3]) + x + y

\* What is over a word, and over more than one.
LEMMA OverIs ==
  ASSUME NEW f, NEW s
  PROVE  /\ s[1] = s[2] => Over(f, s) = {estimates[s[3]][s[1]]} \ {Parser!MIN}
         /\ s[1] # s[2] => \A t : t \in Over(f, s) <=>
              \E r \in model : \E k \in s[1]..(s[2] - 1) : ByRule(f, s, t, r, k)
<1>1. ASSUME s[1] = s[2] PROVE Over(f, s) = {estimates[s[3]][s[1]]} \ {Parser!MIN}
  BY <1>1 DEF Over
<1>2. ASSUME s[1] # s[2], NEW t
      PROVE  t \in Over(f, s) <=>
               \E r \in model : \E k \in s[1]..(s[2] - 1) : ByRule(f, s, t, r, k)
  <2> DEFINE F(r, k) == {Parser!RuleEstimate(r[2], r[3]) + v[1] + v[2] :
                           v \in f[<<s[1], k, r[2]>>] \X f[<<k + 1, s[2], r[3]>>]}
             R == {q \in model : q[1] = s[3]}
             K == s[1]..(s[2] - 1)
  <2>1. Over(f, s) = UNION {F(r, k) : r \in R, k \in K}
    BY <1>2 DEF Over
  <2>2. ASSUME NEW r, NEW k
        PROVE  t \in F(r, k) <=>
                 \E x \in f[<<s[1], k, r[2]>>] : \E y \in f[<<k + 1, s[2], r[3]>>] :
                   t = Parser!RuleEstimate(r[2], r[3]) + x + y
    <3> DEFINE A == f[<<s[1], k, r[2]>>]
               B == f[<<k + 1, s[2], r[3]>>]
               e == Parser!RuleEstimate(r[2], r[3])
    <3>1. F(r, k) = {e + v[1] + v[2] : v \in A \X B}
      OBVIOUS
    <3> HIDE DEF A, B, e, F
    <3>2. t \in F(r, k) <=> \E x \in A : \E y \in B : t = e + x + y
      <4>1. ASSUME t \in F(r, k) PROVE \E x \in A : \E y \in B : t = e + x + y
        <5>1. PICK v \in A \X B : t = e + v[1] + v[2]
          BY <3>1, <4>1
        <5>2. v[1] \in A /\ v[2] \in B
          BY <5>1
        <5>3. QED
          BY <5>1, <5>2
      <4>2. ASSUME NEW x \in A, NEW y \in B, t = e + x + y PROVE t \in F(r, k)
        <5> DEFINE v == <<x, y>>
        <5>1. v \in A \X B /\ v[1] = x /\ v[2] = y
          OBVIOUS
        <5> HIDE DEF v
        <5>2. t = e + v[1] + v[2]
          BY <4>2, <5>1
        <5>3. QED
          BY <3>1, <5>1, <5>2
      <4>3. QED
        BY <4>1, <4>2
    <3>3. QED
      BY <3>2 DEF A, B, e
  <2> HIDE DEF F
  <2>3. t \in Over(f, s) <=> \E r \in R : \E k \in K : t \in F(r, k)
    <3> HIDE DEF R, K
    <3>1. QED
      BY <2>1
  <2>4. \A r, k : r \in R /\ t \in F(r, k) <=> r \in model /\ ByRule(f, s, t, r, k)
    BY <2>2 DEF ByRule
  <2> HIDE DEF R
  <2>5. QED
    BY <2>3, <2>4
<1>3. QED
  BY <1>1, <1>2

\* The values of trees are negative, and not very.
LEMMA TreesAre ==
  ASSUME SentenceFits
  PROVE  \A s \in Spans : s[1] <= s[2] =>
           Parser!Trees[s] \subseteq (-1 - 3 * (s[2] - s[1]))..-1
<1> DEFINE T == Parser!Trees
           Fine(s) == T[s] \subseteq (-1 - 3 * (s[2] - s[1]))..-1
           N == {m \in Nat : \A s \in Spans : s[1] <= s[2] /\ s[2] - s[1] <= m => Fine(s)}
<1>0. /\ input \in Nat /\ Parser!MIN = -1000
      /\ \A s \in Spans : /\ s[1] \in 0..(input - 1) /\ s[2] \in 0..(input - 1)
                          /\ s[3] \in Parser!Nonterminals /\ T[s] = Over(T, s)
  BY SentenceIs, TreesStep DEF Spans
<1>1. ASSUME NEW s \in Spans, s[1] = s[2] PROVE Fine(s)
  <2>1. T[s] = {estimates[s[3]][s[1]]} \ {Parser!MIN}
    BY <1>0, <1>1, OverIs
  <2>2. estimates[s[3]][s[1]] \in {Parser!MIN, -1}
    BY <1>0 DEF SentenceFits
  <2>3. -1 - 3 * (s[2] - s[1]) = -1
    BY <1>0, <1>1
  <2>4. QED
    BY <2>1, <2>2, <2>3
<1>2. 0 \in N
  <2>1. SUFFICES ASSUME NEW s \in Spans, s[1] <= s[2], s[2] - s[1] <= 0 PROVE Fine(s)
    OBVIOUS
  <2>2. QED
    BY <1>0, <1>1, <2>1
<1>3. ASSUME NEW m \in N PROVE m + 1 \in N
  <2>1. m \in Nat /\ \A s \in Spans : s[1] <= s[2] /\ s[2] - s[1] <= m => Fine(s)
    OBVIOUS
  <2>2. ASSUME NEW s \in Spans, s[1] < s[2], s[2] - s[1] <= m + 1, NEW t \in T[s]
        PROVE  t \in (-1 - 3 * (s[2] - s[1]))..-1
    <3>1. t \in Over(T, s) /\ s[1] # s[2]
      BY <1>0, <2>2
    <3>2. PICK r \in model, k \in s[1]..(s[2] - 1) : ByRule(T, s, t, r, k)
      BY <3>1, OverIs
    <3> DEFINE a == <<s[1], k, r[2]>>
               b == <<k + 1, s[2], r[3]>>
    <3>3. PICK x \in T[a], y \in T[b] : t = Parser!RuleEstimate(r[2], r[3]) + x + y
      BY <3>2 DEF ByRule
    <3>4. /\ a \in Spans /\ b \in Spans /\ k \in Nat /\ s[1] <= k /\ k < s[2]
          /\ s[1] \in Nat /\ s[2] \in Nat
      BY PartsOf
    <3>5. a[1] = s[1] /\ a[2] = k /\ b[1] = k + 1 /\ b[2] = s[2]
      OBVIOUS
    <3> HIDE DEF a, b, T
    <3>6. Fine(a) /\ Fine(b)
      BY <2>1, <2>2, <3>4, <3>5
    <3>7. x \in (-1 - 3 * (k - s[1]))..-1 /\ y \in (-1 - 3 * (s[2] - (k + 1)))..-1
      BY <3>5, <3>6
    <3>8. Parser!RuleEstimate(r[2], r[3]) \in {-1, -2}
      BY DEF Parser!RuleEstimate
    <3>9. \A i, j, l, e, p, q : /\ i \in Nat /\ j \in Nat /\ l \in Nat /\ i <= l /\ l < j
                                /\ e \in {-1, -2}
                                /\ p \in (-1 - 3 * (l - i))..-1
                                /\ q \in (-1 - 3 * (j - (l + 1)))..-1
                                => e + p + q \in (-1 - 3 * (j - i))..-1
      OBVIOUS
    <3>10. QED
      BY <3>3, <3>4, <3>7, <3>8, <3>9
  <2>3. ASSUME NEW s \in Spans, s[1] <= s[2], s[2] - s[1] <= m + 1 PROVE Fine(s)
    <3>1. CASE s[1] = s[2]
      BY <1>1, <3>1
    <3>2. CASE s[1] # s[2]
      <4>1. s[1] < s[2]
        BY <1>0, <2>3, <3>2
      <4>2. QED
        BY <2>2, <2>3, <4>1
    <3>3. QED
      BY <3>1, <3>2
  <2>4. m + 1 \in Nat
    BY <2>1
  <2> HIDE DEF Fine
  <2>5. QED
    BY <2>3, <2>4
<1>4. N = Nat
  <2>1. N \in SUBSET Nat
    OBVIOUS
  <2> HIDE DEF N
  <2>2. QED
    BY <1>2, <1>3, <2>1, Induction
<1>5. ASSUME NEW s \in Spans, s[1] <= s[2] PROVE Fine(s)
  <2>1. s[2] - s[1] \in Nat
    BY <1>0, <1>5
  <2>2. s[2] - s[1] \in N /\ s[2] - s[1] <= s[2] - s[1]
    BY <1>4, <2>1
  <2> HIDE DEF Fine
  <2>3. QED
    BY <1>5, <2>2
<1>6. QED
  BY <1>5

\* It is what Max returns.
LEMMA GreatestIs ==
  ASSUME NEW V \in SUBSET Int, NEW m \in V, \A y \in V : y <= m
  PROVE  Parser!Max(V) = m
<1>1. ASSUME NEW x \in V, \A y \in V : x >= y PROVE x = m
  <2>1. x \in Int /\ m \in Int /\ x >= m /\ x <= m
    BY <1>1
  <2>2. QED
    BY <2>1
<1>2. \A y \in V : m >= y
  OBVIOUS
<1>3. (CHOOSE x \in V : \A y \in V : x >= y) = m
  BY <1>1, <1>2
<1>4. QED
  BY <1>3 DEF Parser!Max

\* The best of the trees over a span.
BestOf(s) == Parser!Best(s[1], s[2], s[3])

\* A span that has trees has a best one; one that has none has the least number.
LEMMA BestIs ==
  ASSUME SentenceFits, NEW s \in Spans, s[1] <= s[2]
  PROVE  /\ BestOf(s) \in Parser!MIN..-1
         /\ Parser!Trees[s] = {} <=> BestOf(s) = Parser!MIN
         /\ Parser!Trees[s] # {} =>
              BestOf(s) \in Parser!Trees[s] /\ \A t \in Parser!Trees[s] : t <= BestOf(s)
<1> DEFINE T == Parser!Trees[s]
           low == -1 - 3 * (s[2] - s[1])
<1>1. /\ input \in Nat /\ input <= 256 /\ Parser!MIN = -1000
      /\ s[1] \in 0..(input - 1) /\ s[2] \in 0..(input - 1) /\ s = <<s[1], s[2], s[3]>>
  BY SentenceIs DEF Spans
<1>2. T \subseteq low..-1
  BY TreesAre
<1>3. low \in Int /\ low > -1000
  BY <1>1
<1>4. BestOf(s) = IF T = {} THEN -1000 ELSE Parser!Max(T)
  BY <1>1 DEF BestOf, Parser!Best
<1> HIDE DEF T, low
<1>5. CASE T = {}
  BY <1>1, <1>4, <1>5 DEF T
<1>6. CASE T # {}
  <2>0. T \in SUBSET (low..-1) /\ -1 \in Int
    BY <1>2
  <2>1. PICK m \in T : \A y \in T : y <= m
    <3> DEFINE top == -1
    <3>1. low \in Int /\ top \in Int /\ T \in SUBSET (low..top)
      BY <1>3, <2>0
    <3> HIDE DEF top
    <3>2. QED
      BY ONLY <1>6, <3>1, GreatestBetween
  <2>2. T \in SUBSET Int
    BY <1>2, <1>3
  <2>3. Parser!Max(T) = m
    BY <2>1, <2>2, GreatestIs
  <2>4. BestOf(s) = m /\ m \in low..-1
    BY <1>2, <1>4, <1>6, <2>3
  <2>5. m \in Parser!MIN..-1 /\ m # Parser!MIN
    BY <1>1, <1>3, <2>4
  <2>6. QED
    BY <1>6, <2>1, <2>4, <2>5 DEF T
<1>7. QED
  BY <1>5, <1>6

\* Over a word there is one tree, or none.
LEMMA BestWord ==
  ASSUME SentenceFits, NEW s \in Spans, s[1] = s[2]
  PROVE  BestOf(s) = estimates[s[3]][s[1]]
<1>1. /\ input \in Nat /\ Parser!MIN = -1000
      /\ s[1] \in 0..(input - 1) /\ s[2] \in 0..(input - 1) /\ s[3] \in Parser!Nonterminals
  BY SentenceIs DEF Spans
<1>2. s[1] <= s[2]
  BY <1>1
<1>3. Parser!Trees[s] = {estimates[s[3]][s[1]]} \ {Parser!MIN}
  BY TreesStep, OverIs
<1>4. estimates[s[3]][s[1]] \in {Parser!MIN, -1}
  BY <1>1 DEF SentenceFits
<1>5. QED
  BY <1>2, <1>3, <1>4, BestIs

\* The value of the trees by rule r whose parts are the best that meet after word k.
ViaRule(s, r, k) ==
  Parser!RuleEstimate(r[2], r[3]) + BestOf(<<s[1], k, r[2]>>) + BestOf(<<k + 1, s[2], r[3]>>)

\* There are such trees.
Joined(s, r, k) == /\ r[1] = s[3]
                   /\ BestOf(<<s[1], k, r[2]>>) > Parser!MIN
                   /\ BestOf(<<k + 1, s[2], r[3]>>) > Parser!MIN

\* Two parts that have trees are joined to a tree, and none by this rule, split in
\* this place, is better than that of the best two.
LEMMA JoinedIs ==
  ASSUME SentenceFits, NEW s \in Spans, s[1] < s[2],
         NEW r \in model, NEW k \in s[1]..(s[2] - 1), r[1] = s[3]
  PROVE  /\ BestOf(<<s[1], k, r[2]>>) \in Parser!MIN..-1
         /\ BestOf(<<k + 1, s[2], r[3]>>) \in Parser!MIN..-1
         /\ Joined(s, r, k) => ViaRule(s, r, k) \in Parser!Trees[s]
         /\ \A t : ByRule(Parser!Trees, s, t, r, k)
                     => Joined(s, r, k) /\ t <= ViaRule(s, r, k)
<1> DEFINE a == <<s[1], k, r[2]>>
           b == <<k + 1, s[2], r[3]>>
           e == Parser!RuleEstimate(r[2], r[3])
           A == Parser!Trees[a]
           B == Parser!Trees[b]
<1>1. /\ a \in Spans /\ b \in Spans /\ k \in Nat /\ s[1] <= k /\ k < s[2]
      /\ s[1] \in Nat /\ s[2] \in Nat
  BY PartsOf
<1>2. a[1] <= a[2] /\ b[1] <= b[2]
  BY <1>1
<1>3. e \in {-1, -2} /\ Parser!MIN = -1000
  BY SentenceIs DEF Parser!RuleEstimate
<1>4. ViaRule(s, r, k) = e + BestOf(a) + BestOf(b)
  BY DEF ViaRule
<1>5. Joined(s, r, k) <=> BestOf(a) > Parser!MIN /\ BestOf(b) > Parser!MIN
  BY DEF Joined
<1>6. \A t : ByRule(Parser!Trees, s, t, r, k) <=> \E x \in A : \E y \in B : t = e + x + y
  BY DEF ByRule
<1>7. \A t : t \in Parser!Trees[s] <=>
        \E q \in model : \E l \in s[1]..(s[2] - 1) : ByRule(Parser!Trees, s, t, q, l)
  <2>1. s[1] # s[2] /\ Parser!Trees[s] = Over(Parser!Trees, s)
    BY <1>1, TreesStep
  <2>2. QED
    BY <2>1, OverIs
<1>8. A \subseteq Int /\ B \subseteq Int
  <2>1. A \subseteq (-1 - 3 * (a[2] - a[1]))..-1 /\ B \subseteq (-1 - 3 * (b[2] - b[1]))..-1
    BY <1>1, <1>2, TreesAre
  <2> HIDE DEF A, B
  <2>2. QED
    BY <2>1
<1> HIDE DEF a, b, e
<1>9. /\ BestOf(a) \in Parser!MIN..-1 /\ BestOf(b) \in Parser!MIN..-1
      /\ A = {} <=> BestOf(a) = Parser!MIN
      /\ B = {} <=> BestOf(b) = Parser!MIN
      /\ A # {} => BestOf(a) \in A /\ \A t \in A : t <= BestOf(a)
      /\ B # {} => BestOf(b) \in B /\ \A t \in B : t <= BestOf(b)
  BY <1>1, <1>2, BestIs
<1> HIDE DEF A, B
<1>10. ASSUME Joined(s, r, k) PROVE ViaRule(s, r, k) \in Parser!Trees[s]
  <2>1. BestOf(a) \in A /\ BestOf(b) \in B
    BY <1>3, <1>5, <1>9, <1>10
  <2>2. QED
    BY <1>4, <1>6, <1>7, <2>1
<1>11. ASSUME NEW t, ByRule(Parser!Trees, s, t, r, k)
       PROVE  Joined(s, r, k) /\ t <= ViaRule(s, r, k)
  <2>1. PICK x \in A, y \in B : t = e + x + y
    BY <1>6, <1>11
  <2>2. x <= BestOf(a) /\ y <= BestOf(b) /\ x \in Int /\ y \in Int
    BY <1>8, <1>9
  <2>3. BestOf(a) > Parser!MIN /\ BestOf(b) > Parser!MIN
    BY <1>3, <1>9
  <2>4. BestOf(a) \in Int /\ BestOf(b) \in Int /\ e \in Int
    BY <1>3, <1>9
  <2>5. t <= ViaRule(s, r, k)
    BY <1>4, <2>1, <2>2, <2>4
  <2>6. QED
    BY <1>5, <2>3, <2>5
<1>12. QED
  BY <1>9, <1>10, <1>11 DEF a, b

\* The best over a span comes from the best over its parts.
LEMMA BestFromParts ==
  ASSUME SentenceFits, NEW s \in Spans, s[1] < s[2], NEW v,
         \/ /\ v = Parser!MIN
            /\ \A r \in model : \A k \in s[1]..(s[2] - 1) : ~Joined(s, r, k)
         \/ /\ \E r \in model : \E k \in s[1]..(s[2] - 1) :
                 Joined(s, r, k) /\ v = ViaRule(s, r, k)
            /\ \A r \in model : \A k \in s[1]..(s[2] - 1) :
                 Joined(s, r, k) => ViaRule(s, r, k) <= v
  PROVE  BestOf(s) = v
<1> DEFINE T == Parser!Trees[s]
<1>1. s[1] \in Nat /\ s[2] \in Nat
  BY SentenceIs DEF Spans
<1>2. /\ BestOf(s) \in Parser!MIN..-1
      /\ T = {} <=> BestOf(s) = Parser!MIN
      /\ T # {} => BestOf(s) \in T /\ \A t \in T : t <= BestOf(s)
  BY <1>1, BestIs
<1>3. \A t : t \in T <=>
        \E r \in model : \E k \in s[1]..(s[2] - 1) : ByRule(Parser!Trees, s, t, r, k)
  <2>1. s[1] # s[2] /\ T = Over(Parser!Trees, s)
    BY <1>1, TreesStep
  <2> HIDE DEF T
  <2>2. QED
    BY <2>1, OverIs
<1>4. T \subseteq Int
  <2>1. T \subseteq (-1 - 3 * (s[2] - s[1]))..-1
    BY <1>1, TreesAre
  <2> HIDE DEF T
  <2>2. QED
    BY <2>1
<1> HIDE DEF T
<1>5. ASSUME NEW t \in T
      PROVE  \E r \in model : \E k \in s[1]..(s[2] - 1) :
               Joined(s, r, k) /\ t <= ViaRule(s, r, k)
  <2>1. PICK r \in model, k \in s[1]..(s[2] - 1) : ByRule(Parser!Trees, s, t, r, k)
    BY <1>3
  <2>2. r[1] = s[3]
    BY <2>1 DEF ByRule
  <2>3. QED
    BY <2>1, <2>2, JoinedIs
<1>6. CASE /\ v = Parser!MIN
           /\ \A r \in model : \A k \in s[1]..(s[2] - 1) : ~Joined(s, r, k)
  <2>1. T = {}
    BY <1>5, <1>6
  <2>2. QED
    BY <1>2, <1>6, <2>1
<1>7. CASE /\ \E r \in model : \E k \in s[1]..(s[2] - 1) :
                Joined(s, r, k) /\ v = ViaRule(s, r, k)
           /\ \A r \in model : \A k \in s[1]..(s[2] - 1) :
                Joined(s, r, k) => ViaRule(s, r, k) <= v
  <2>1. v \in T
    <3>1. PICK r \in model, k \in s[1]..(s[2] - 1) : Joined(s, r, k) /\ v = ViaRule(s, r, k)
      BY <1>7
    <3>2. r[1] = s[3]
      BY <3>1 DEF Joined
    <3>3. QED
      BY <3>1, <3>2, JoinedIs DEF T
  <2>2. ASSUME NEW t \in T PROVE t <= v
    <3>1. PICK r \in model, k \in s[1]..(s[2] - 1) : Joined(s, r, k) /\ t <= ViaRule(s, r, k)
      BY <1>5
    <3>2. ViaRule(s, r, k) <= v /\ ViaRule(s, r, k) \in T
      <4>1. r[1] = s[3]
        BY <3>1 DEF Joined
      <4>2. QED
        BY <1>7, <3>1, <4>1, JoinedIs DEF T
    <3>3. t \in Int /\ v \in Int /\ ViaRule(s, r, k) \in Int
      BY <1>4, <2>1, <3>2
    <3>4. QED
      BY <3>1, <3>2, <3>3
  <2>3. BestOf(s) \in T /\ v <= BestOf(s)
    BY <1>2, <2>1
  <2>4. BestOf(s) <= v /\ BestOf(s) \in Int /\ v \in Int
    BY <1>4, <2>1, <2>2, <2>3
  <2>5. QED
    BY <2>3, <2>4
<1>8. QED
  BY <1>6, <1>7

-----------------------------------------------------------------------------
(* The chart and how it is filled.                                         *)

\* The cell the loops of fillInvariants have come to.
CellFits(c) ==
  /\ c \in [l : 1..input, i : 0..(input - 1), X : Parser!Nonterminals]
  /\ c.l < input => c.i + c.l < input

\* The spans the chart can have before that cell: words, and what has been filled.
Done(c, s) == \/ s[1] = s[2]
              \/ s[1] < s[2] /\ s[2] - s[1] < c.l
              \/ s[1] < s[2] /\ s[2] - s[1] = c.l /\ (s[1] < c.i \/ (s[1] = c.i /\ s[3] < c.X))

\* Pie p of span s points to those of its two parts in chart t, which rule r joins.
PointsTo(t, s, p, r, k) ==
  LET a == Key(<<s[1], k, r[2]>>)
      b == Key(<<k + 1, s[2], r[3]>>)
  IN /\ a \in DOMAIN t /\ p.bpLeft = t[a] /\ t[a].value > Parser!MIN
     /\ b \in DOMAIN t /\ p.bpRight = t[b] /\ t[b].value > Parser!MIN
     /\ p.value = Parser!RuleEstimate(r[2], r[3]) + t[a].value + t[b].value

\* The values of the trees over a span, and the least number.
Values(s) == {Parser!MIN} \cup (-1 - 3 * (s[2] - s[1]))..-1

\* The Pie of a span, in chart t: that of a nonterminal with its key, which points to the
\* Pies of two parts that give its value, if it has one and more than a word.  If the keys
\* tell the nonterminals apart, its value is that of the best tree.
PieFits(t, s) ==
  LET p == t[Key(s)]
  IN /\ p # Parser!null /\ p.start = s[1] /\ p.NT \in Parser!Nonterminals
     /\ Key(<<s[1], s[2], p.NT>>) = Key(s)
     /\ p.value \in Values(s)
     /\ s[1] = s[2] \/ p.value = Parser!MIN => p.bpLeft = Parser!null
     /\ s[1] < s[2] /\ p.value > Parser!MIN =>
          \E r \in model : \E k \in s[1]..(s[2] - 1) : PointsTo(t, s, p, r, k)
     /\ Parser!HashesDiffer => p.value = BestOf(s)

\* Chart t holds the Pies of words and of what the loops have come by before cell c, and
\* no others.
ChartFits(t, c) ==
  /\ \A key \in DOMAIN t : \E s \in Spans : s[1] <= s[2] /\ Done(c, s) /\ key = Key(s)
  /\ \A s \in Spans : s[1] <= s[2] /\ Key(s) \in DOMAIN t => PieFits(t, s)
  /\ \A s \in Spans : s[1] < s[2] /\ Done(c, s) => Key(s) \in DOMAIN t

\* The inductive invariant of the parser: the chart fits up to the cell that is next, and
\* has a Pie for the whole sentence when a tree has been returned.
ChartInv ==
  /\ SentenceFits /\ CellFits(at) /\ ChartFits(table, at)
  /\ phase \in {"parsing", "parsed", "NullPointerException"}
  /\ phase = "parsed" => Key(<<0, input - 1, SBARQ>>) \in DOMAIN table

\* The chart is empty at first.
LEMMA ChartStarts == ASSUME Parser!Init PROVE ChartInv
<1>1. input \in 1..MaxLength /\ table = <<>> /\ phase = "parsing" /\ SentenceFits
  <2>1. Hashes \subseteq Int
    BY LanguageAssumption
  <2>2. batch \in [Parser!Nonterminals -> Int]
    <3>1. batch \in [Parser!Nonterminals -> Hashes]
      BY DEF Parser!Init
    <3>2. QED
      BY <2>1, <3>1
  <2>3. QED
    BY <2>2 DEF Parser!Init, SentenceFits
<1>2. at.l = 1 /\ at.i = 0 /\ at.X = 0 /\ at = [l |-> 1, i |-> 0, X |-> 0]
  BY DEF Parser!Init
<1>3. CellFits(at)
  BY <1>1, <1>2, SentenceIs DEF CellFits
<1>4. ASSUME NEW s \in Spans, s[1] < s[2], Done(at, s) PROVE FALSE
  <2>1. s[1] \in Nat /\ s[2] \in Nat /\ s[3] \in Nat
    BY <1>1, SentenceIs DEF Spans
  <2>2. QED
    BY <1>2, <1>4, <2>1 DEF Done
<1>5. DOMAIN table = {}
  BY <1>1
<1>6. ChartFits(table, at)
  BY <1>4, <1>5 DEF ChartFits
<1>7. QED
  BY <1>1, <1>3, <1>6 DEF ChartInv

\* The loops go on to another cell of the chart.
LEMMA NextCellIs ==
  ASSUME SentenceFits, CellFits(at), at.l < input
  PROVE  /\ CellFits(Parser!NextCell(at))
         /\ \A s \in Spans : s[1] < s[2] =>
              (Done(Parser!NextCell(at), s)
                 <=> Done(at, s) \/ (s[1] = at.i /\ s[2] - s[1] = at.l /\ s[3] = at.X))
<1> DEFINE c == Parser!NextCell(at)
<1>1. /\ NTs \in Nat \ {0} /\ input \in Nat \ {0} /\ Parser!Nonterminals = 0..(NTs - 1)
      /\ at.l \in 1..input /\ at.i \in 0..(input - 1) /\ at.X \in 0..(NTs - 1)
      /\ at.i + at.l < input
      /\ at \in [l : 1..input, i : 0..(input - 1), X : Parser!Nonterminals]
  BY SentenceIs DEF CellFits
<1>2. \A s \in Spans : s[1] \in 0..(input - 1) /\ s[2] \in 0..(input - 1) /\ s[3] \in 0..(NTs - 1)
  BY <1>1 DEF Spans
<1>3. CASE at.X < NTs - 1
  <2>1. c = [at EXCEPT !.X = at.X + 1]
    BY <1>1, <1>3 DEF Parser!NextCell
  <2>2. at.X + 1 \in Parser!Nonterminals
    BY <1>1, <1>3
  <2> HIDE DEF c
  <2>3. c.l = at.l /\ c.i = at.i /\ c.X = at.X + 1
        /\ c \in [l : 1..input, i : 0..(input - 1), X : Parser!Nonterminals]
    BY <1>1, <2>1, <2>2
  <2>4. CellFits(c)
    BY <1>1, <2>3 DEF CellFits
  <2>5. ASSUME NEW s \in Spans, s[1] < s[2]
        PROVE  Done(c, s) <=> Done(at, s) \/ (s[1] = at.i /\ s[2] - s[1] = at.l /\ s[3] = at.X)
    BY <1>1, <1>2, <2>3, <2>5 DEF Done
  <2>6. QED
    BY <2>4, <2>5 DEF c
<1>4. CASE at.X = NTs - 1 /\ at.i + at.l < input - 1
  <2>1. c = [at EXCEPT !.X = 0, !.i = at.i + 1]
    BY <1>1, <1>4 DEF Parser!NextCell
  <2>2. 0 \in Parser!Nonterminals /\ at.i + 1 \in 0..(input - 1)
    BY <1>1, <1>4
  <2> DEFINE d == [at EXCEPT !.X = 0]
  <2>3. d \in [l : 1..input, i : 0..(input - 1), X : Parser!Nonterminals]
        /\ d.l = at.l /\ d.i = at.i /\ d.X = 0
    BY <1>1, <2>2
  <2>4. [at EXCEPT !.X = 0, !.i = at.i + 1] = [d EXCEPT !.i = at.i + 1]
    OBVIOUS
  <2> HIDE DEF d, c
  <2>5. c.l = at.l /\ c.i = at.i + 1 /\ c.X = 0
        /\ c \in [l : 1..input, i : 0..(input - 1), X : Parser!Nonterminals]
    BY <2>1, <2>2, <2>3, <2>4
  <2>6. CellFits(c)
    BY <1>1, <1>4, <2>5 DEF CellFits
  <2>7. ASSUME NEW s \in Spans, s[1] < s[2]
        PROVE  Done(c, s) <=> Done(at, s) \/ (s[1] = at.i /\ s[2] - s[1] = at.l /\ s[3] = at.X)
    <3>1. Done(c, s) <=> \/ s[2] - s[1] < at.l
                         \/ s[2] - s[1] = at.l /\ (s[1] < at.i + 1 \/ (s[1] = at.i + 1 /\ s[3] < 0))
      BY <1>2, <2>5, <2>7 DEF Done
    <3>2. Done(at, s) <=> \/ s[2] - s[1] < at.l
                          \/ s[2] - s[1] = at.l /\ (s[1] < at.i \/ (s[1] = at.i /\ s[3] < at.X))
      BY <1>2, <2>7 DEF Done
    <3>3. s[1] \in Int /\ at.i \in Int /\ s[3] \in 0..at.X /\ at.X \in Int
      BY <1>1, <1>2, <1>4
    <3>4. QED
      BY <3>1, <3>2, <3>3
  <2>8. QED
    BY <2>6, <2>7 DEF c
<1>5. CASE at.X = NTs - 1 /\ at.i + at.l = input - 1
  <2>1. c = [l |-> at.l + 1, i |-> 0, X |-> 0]
    BY <1>1, <1>5 DEF Parser!NextCell
  <2> HIDE DEF c
  <2>2. c.l = at.l + 1 /\ c.i = 0 /\ c.X = 0
        /\ c \in [l : 1..input, i : 0..(input - 1), X : Parser!Nonterminals]
    BY <1>1, <2>1
  <2>3. CellFits(c)
    BY <1>1, <2>2 DEF CellFits
  <2>4. ASSUME NEW s \in Spans, s[1] < s[2]
        PROVE  Done(c, s) <=> Done(at, s) \/ (s[1] = at.i /\ s[2] - s[1] = at.l /\ s[3] = at.X)
    <3>1. Done(c, s) <=> \/ s[2] - s[1] < at.l + 1
                         \/ s[2] - s[1] = at.l + 1 /\ (s[1] < 0 \/ (s[1] = 0 /\ s[3] < 0))
      BY <1>2, <2>2, <2>4 DEF Done
    <3>2. Done(at, s) <=> \/ s[2] - s[1] < at.l
                          \/ s[2] - s[1] = at.l /\ (s[1] < at.i \/ (s[1] = at.i /\ s[3] < at.X))
      BY <1>2, <2>4 DEF Done
    <3>3. /\ s[1] \in Nat /\ s[2] \in Int /\ s[2] < input /\ input \in Int
          /\ at.i \in Int /\ at.l \in Int /\ at.i + at.l = input - 1
          /\ s[3] \in 0..at.X /\ at.X \in Int
      BY <1>1, <1>2, <1>5
    <3>4. s[2] - s[1] = at.l => s[1] <= at.i
      BY <3>3
    <3>5. QED
      BY <3>1, <3>2, <3>3, <3>4
  <2>5. QED
    BY <2>3, <2>4 DEF c
<1>6. QED
  BY <1>1, <1>3, <1>4, <1>5

\* Two that share a key share a Pie.
LEMMA PieOfKey ==
  ASSUME SentenceFits, NEW t, NEW s \in Spans, NEW q \in Spans, Key(q) = Key(s), PieFits(t, s)
  PROVE  PieFits(t, q)
<1>1. s[1] = q[1] /\ s[2] = q[2] /\ (Parser!HashesDiffer => s = q)
  BY KeysDiffer
<1>2. \A p, r, k : PointsTo(t, q, p, r, k) <=> PointsTo(t, s, p, r, k)
  BY <1>1 DEF PointsTo
<1>3. Values(q) = Values(s)
  BY <1>1 DEF Values
<1>4. QED
  BY <1>1, <1>2, <1>3 DEF PieFits

\* A Pie still fits when the chart changes, if it stays and the shorter ones do.
LEMMA PieStays ==
  ASSUME SentenceFits, NEW t, NEW u, NEW s \in Spans, u[Key(s)] = t[Key(s)],
         \A q \in Spans : q[2] - q[1] < s[2] - s[1] /\ Key(q) \in DOMAIN t
           => Key(q) \in DOMAIN u /\ u[Key(q)] = t[Key(q)],
         PieFits(t, s)
  PROVE  PieFits(u, s)
<1> DEFINE p == t[Key(s)]
<1>1. u[Key(s)] = p
  OBVIOUS
<1>2. /\ p # Parser!null /\ p.start = s[1] /\ p.NT \in Parser!Nonterminals
      /\ Key(<<s[1], s[2], p.NT>>) = Key(s) /\ p.value \in Values(s)
      /\ s[1] = s[2] \/ p.value = Parser!MIN => p.bpLeft = Parser!null
      /\ Parser!HashesDiffer => p.value = BestOf(s)
  BY DEF PieFits
<1>3. ASSUME s[1] < s[2], p.value > Parser!MIN
      PROVE  \E r \in model : \E k \in s[1]..(s[2] - 1) : PointsTo(u, s, p, r, k)
  <2>1. PICK r \in model, k \in s[1]..(s[2] - 1) : PointsTo(t, s, p, r, k)
    BY <1>3 DEF PieFits
  <2> DEFINE a == <<s[1], k, r[2]>>
             b == <<k + 1, s[2], r[3]>>
  <2>2. /\ a \in Spans /\ b \in Spans /\ k \in Nat /\ s[1] <= k /\ k < s[2]
        /\ s[1] \in Nat /\ s[2] \in Nat
    BY PartsOf
  <2>3. a[1] = s[1] /\ a[2] = k /\ b[1] = k + 1 /\ b[2] = s[2]
    OBVIOUS
  <2>4. Key(a) \in DOMAIN t /\ Key(b) \in DOMAIN t
    BY <2>1 DEF PointsTo
  <2> HIDE DEF a, b, p
  <2>5. a[2] - a[1] < s[2] - s[1] /\ b[2] - b[1] < s[2] - s[1]
    BY <2>2, <2>3
  <2>6. /\ Key(a) \in DOMAIN u /\ u[Key(a)] = t[Key(a)]
        /\ Key(b) \in DOMAIN u /\ u[Key(b)] = t[Key(b)]
    BY <2>2, <2>4, <2>5
  <2>7. PointsTo(u, s, p, r, k)
    BY <2>1, <2>6 DEF PointsTo, a, b
  <2>8. QED
    BY <2>7
<1> HIDE DEF p
<1>4. QED
  BY <1>1, <1>2, <1>3 DEF PieFits

\* The Pie that pie() makes for a word, for a nonterminal with the key.
LEMMA WordPieFits ==
  ASSUME SentenceFits, NEW s \in Spans, s[1] = s[2], NEW t, NEW X \in Parser!Nonterminals,
         Key(<<s[1], s[2], X>>) = Key(s),
         t[Key(s)] = Parser!Pie(s[1], X, estimates[X][s[1]], Parser!null, Parser!null)
  PROVE  PieFits(t, s)
<1> DEFINE p == t[Key(s)]
           q == <<s[1], s[2], X>>
<1>1. /\ p.start = s[1] /\ p.NT = X /\ p.value = estimates[X][s[1]]
      /\ p.bpLeft = Parser!null
  BY DEF Parser!Pie
<1>2. p # Parser!null
  <2>1. DOMAIN p = {"start", "NT", "value", "bpLeft", "bpRight"}
    BY DEF Parser!Pie
  <2>2. DOMAIN <<>> = {}
    OBVIOUS
  <2> HIDE DEF p
  <2>3. QED
    BY <2>1, <2>2 DEF Parser!null
<1>3. /\ ~(s[1] < s[2]) /\ s[1] \in 0..(input - 1) /\ s[2] - s[1] = 0
  BY SentenceIs DEF Spans
<1>4. p.value \in Values(s)
  <2>1. estimates[X][s[1]] \in {Parser!MIN, -1}
    BY <1>3 DEF SentenceFits
  <2>2. -1 \in (-1 - 3 * (s[2] - s[1]))..-1
    BY <1>3
  <2>3. QED
    BY <1>1, <2>1, <2>2 DEF Values
<1>5. Parser!HashesDiffer => p.value = BestOf(s)
  <2>1. q \in Spans /\ q[3] = X
    BY DEF Spans
  <2>2. Parser!HashesDiffer => s[3] = X
    BY <2>1, KeysDiffer
  <2>3. QED
    BY <1>1, <2>2, BestWord
<1> HIDE DEF p, q
<1>6. QED
  BY <1>1, <1>2, <1>3, <1>4, <1>5 DEF PieFits, p

\* The word of a key.
LEMMA WordIs ==
  ASSUME SentenceFits, NEW k \in 0..(input - 1), NEW X \in Parser!Nonterminals
  PROVE  Parser!WordOf(Parser!getKey(k, k, X)) = k
<1> DEFINE s == <<k, k, X>>
<1>1. s \in Spans /\ s[1] = k /\ s[2] = k /\ s[3] = X /\ Key(s) = Parser!getKey(k, k, X)
  BY DEF Spans, Key
<1> HIDE DEF s
<1>2. k \in 0..255 /\ Parser!Kept(X) \in Int /\ Key(s) = (Parser!Kept(X) * 256 + k) * 256 + k
  BY <1>1, KeyIs
<1>3. Parser!Kept(X) * 256 + k \in Int
  BY <1>2
<1>4. Key(s) % 256 = k
  BY <1>2, <1>3, LastDigit
<1>5. QED
  BY <1>1, <1>4 DEF Parser!WordOf

\* The chart that a cell is filled from has the words of its span, too.
LEMMA WordsFit ==
  ASSUME SentenceFits, ChartFits(table, at),
         NEW i \in 0..(input - 1), NEW j \in 0..(input - 1), NEW f \in Parser!FirstAsked(i, j)
  PROVE  /\ ChartFits(Parser!Words(f), at)
         /\ \A k \in i..j : \A X \in Parser!Nonterminals :
              Key(<<k, k, X>>) \in DOMAIN Parser!Words(f)
<1> DEFINE chart == Parser!Words(f)
           keys == {Parser!getKey(k, k, X) : k \in i..j, X \in Parser!Nonterminals} \ DOMAIN table
           WordPie(key) == Parser!Pie(Parser!WordOf(key), f[key],
                                   estimates[f[key]][Parser!WordOf(key)], Parser!null, Parser!null)
           Word(s, X) == Parser!Pie(s[1], X, estimates[X][s[1]], Parser!null, Parser!null)
<1>0. /\ f \in [keys -> Parser!Nonterminals] /\ DOMAIN f = keys
      /\ \A key \in keys :
           Parser!getKey(Parser!WordOf(key), Parser!WordOf(key), f[key]) = key
  BY DEF Parser!FirstAsked
<1>1. chart = [key \in DOMAIN table \cup keys |->
                 IF key \in keys THEN WordPie(key) ELSE table[key]]
  BY <1>0 DEF Parser!Words
<1>2. input \in Nat /\ \A k \in i..j : k \in 0..(input - 1)
  BY SentenceIs
<1>3. \A k, X : Key(<<k, k, X>>) = Parser!getKey(k, k, X)
  BY DEF Key
<1>4. ASSUME NEW key \in keys
      PROVE  \E s \in Spans : /\ s[1] = s[2] /\ key = Key(s)
                              /\ \E X \in Parser!Nonterminals :
                                   Key(<<s[1], s[2], X>>) = Key(s) /\ WordPie(key) = Word(s, X)
  <2>1. PICK k \in i..j, X \in Parser!Nonterminals : key = Parser!getKey(k, k, X)
    OBVIOUS
  <2>2. Parser!WordOf(key) = k
    BY <1>2, <2>1, WordIs
  <2> DEFINE s == <<k, k, X>>
             Y == f[key]
  <2>3. s \in Spans /\ s[1] = k /\ s[2] = k /\ key = Key(s)
    BY <1>2, <1>3, <2>1 DEF Spans
  <2>4. Y \in Parser!Nonterminals /\ Parser!getKey(k, k, Y) = key
    <3> HIDE DEF keys
    <3>1. QED
      BY <1>0, <2>2
  <2>5. WordPie(key) = Word(s, Y)
    BY <2>2, <2>3
  <2>6. Key(<<s[1], s[2], Y>>) = Key(s)
    BY <1>3, <2>3, <2>4
  <2> HIDE DEF s, Word, WordPie, Y, keys
  <2>7. QED
    BY <2>3, <2>4, <2>5, <2>6
<1> HIDE DEF WordPie, chart, Word, keys
<1>5. /\ DOMAIN chart = DOMAIN table \cup keys
      /\ \A key \in DOMAIN table : chart[key] = table[key]
      /\ \A key \in keys : chart[key] = WordPie(key)
  <2>1. \A key \in DOMAIN table : key \notin keys
    BY DEF keys
  <2>2. QED
    BY <1>1, <2>1
<1>6. ASSUME NEW key \in DOMAIN chart
      PROVE  \E s \in Spans : s[1] <= s[2] /\ Done(at, s) /\ key = Key(s)
  <2>1. CASE key \in DOMAIN table
    BY <2>1 DEF ChartFits
  <2>2. CASE key \in keys
    <3>1. PICK s \in Spans : s[1] = s[2] /\ key = Key(s)
      BY <1>4, <2>2
    <3>2. s[1] <= s[2] /\ Done(at, s)
      BY <1>2, <3>1 DEF Done, Spans
    <3>3. QED
      BY <3>1, <3>2
  <2>3. QED
    BY <1>5, <2>1, <2>2
<1>7. ASSUME NEW s \in Spans, s[1] <= s[2], Key(s) \in DOMAIN chart PROVE PieFits(chart, s)
  <2>1. CASE Key(s) \in DOMAIN table
    <3>1. PieFits(table, s)
      BY <1>7, <2>1 DEF ChartFits
    <3>2. \A q \in Spans : Key(q) \in DOMAIN table
                             => Key(q) \in DOMAIN chart /\ chart[Key(q)] = table[Key(q)]
      BY <1>5
    <3>3. chart[Key(s)] = table[Key(s)]
      BY <1>5, <2>1
    <3>4. QED
      BY <3>1, <3>2, <3>3, PieStays
  <2>2. CASE Key(s) \in keys
    <3>1. PICK q \in Spans : /\ q[1] = q[2] /\ Key(s) = Key(q)
                             /\ \E X \in Parser!Nonterminals :
                                  /\ Key(<<q[1], q[2], X>>) = Key(q)
                                  /\ WordPie(Key(s)) = Word(q, X)
      BY <1>4, <2>2
    <3>2. PICK X \in Parser!Nonterminals :
            Key(<<q[1], q[2], X>>) = Key(q) /\ WordPie(Key(s)) = Word(q, X)
      BY <3>1
    <3>3. chart[Key(q)] = Word(q, X)
      BY <1>5, <2>2, <3>1, <3>2
    <3>4. PieFits(chart, q)
      BY <3>1, <3>2, <3>3, WordPieFits DEF Word
    <3>5. QED
      BY <3>1, <3>4, PieOfKey
  <2>3. QED
    BY <1>5, <1>7, <2>1, <2>2
<1>8. ASSUME NEW s \in Spans, s[1] < s[2], Done(at, s) PROVE Key(s) \in DOMAIN chart
  BY <1>5, <1>8 DEF ChartFits
<1>9. ASSUME NEW k \in i..j, NEW X \in Parser!Nonterminals
      PROVE  Key(<<k, k, X>>) \in DOMAIN chart
  BY <1>3, <1>5 DEF keys
<1>10. ChartFits(chart, at)
  BY <1>6, <1>7, <1>8 DEF ChartFits
<1>11. QED
  BY <1>9, <1>10 DEF chart

\* A sum of an estimate and two values.
LEMMA TermsAdded ==
  ASSUME NEW y, NEW z, NEW v \in Parser!MIN..-1, NEW w \in Parser!MIN..-1
  PROVE  Parser!Sum(<<Parser!RuleEstimate(y, z), v, w>>) =
           IF v = Parser!MIN \/ w = Parser!MIN THEN Parser!MIN
           ELSE Parser!RuleEstimate(y, z) + v + w
<1> DEFINE e == Parser!RuleEstimate(y, z)
           s == <<e, v, w>>
<1>1. e \in {-1, -2} /\ Parser!MIN = -1000
  BY DEF Parser!RuleEstimate, Parser!MIN
<1>2. s[1] = e /\ s[2] = v /\ s[3] = w /\ DOMAIN s = {1, 2, 3}
  OBVIOUS
<1> HIDE DEF s, e
<1>3. Parser!MIN \in {s[x] : x \in DOMAIN s} <=> v = Parser!MIN \/ w = Parser!MIN
  BY <1>1, <1>2
<1>4. QED
  BY <1>2, <1>3 DEF Parser!Sum, s, e

\* The Pies that a cell is filled from.
PartsThere(t, s) ==
  \A r \in model : \A k \in s[1]..(s[2] - 1) :
    Key(<<s[1], k, r[2]>>) \in DOMAIN t /\ Key(<<k + 1, s[2], r[3]>>) \in DOMAIN t

\* A number that is among the values over a span is not small, or it is the least.
LEMMA ValuesAre ==
  ASSUME SentenceFits, NEW s \in Spans, s[1] <= s[2], NEW v \in Values(s)
  PROVE  /\ v \in Parser!MIN..-1
         /\ v = Parser!MIN \/ (v > Parser!MIN /\ v \in (-1 - 3 * (s[2] - s[1]))..-1)
<1>1. /\ Parser!MIN = -1000 /\ s[1] \in Nat /\ s[2] \in Nat /\ s[2] - s[1] < 256
  BY SentenceIs DEF Spans
<1>2. v = Parser!MIN \/ v \in (-1 - 3 * (s[2] - s[1]))..-1
  BY DEF Values
<1>3. -1 - 3 * (s[2] - s[1]) > -1000 /\ -1 - 3 * (s[2] - s[1]) \in Int
  BY <1>1
<1>4. QED
  BY <1>1, <1>2, <1>3

\* What the loops find by a rule and a split: the sum of two values if there are such, which
\* is that of the best trees that they join if the keys tell the nonterminals apart.
LEMMA FoundIs ==
  ASSUME SentenceFits, NEW t, NEW c, ChartFits(t, c), NEW s \in Spans, s[1] < s[2],
         PartsThere(t, s), NEW r \in model, NEW k \in s[1]..(s[2] - 1), r[1] = s[3],
         NEW v, v = Parser!Sum(<<Parser!RuleEstimate(r[2], r[3]),
                                 t[Parser!getKey(s[1], k, r[2])].value,
                                 t[Parser!getKey(k + 1, s[2], r[3])].value>>)
  PROVE  /\ v \in Int
         /\ v > Parser!MIN =>
              /\ t[Key(<<s[1], k, r[2]>>)].value > Parser!MIN
              /\ t[Key(<<k + 1, s[2], r[3]>>)].value > Parser!MIN
              /\ v = Parser!RuleEstimate(r[2], r[3]) + t[Key(<<s[1], k, r[2]>>)].value
                       + t[Key(<<k + 1, s[2], r[3]>>)].value
              /\ v \in Values(s)
         /\ Parser!HashesDiffer => /\ v > Parser!MIN <=> Joined(s, r, k)
                                   /\ Joined(s, r, k) => v = ViaRule(s, r, k)
<1> DEFINE a == <<s[1], k, r[2]>>
           b == <<k + 1, s[2], r[3]>>
           e == Parser!RuleEstimate(r[2], r[3])
           x == t[Key(a)].value
           y == t[Key(b)].value
<1>1. /\ a \in Spans /\ b \in Spans /\ a[1] <= a[2] /\ b[1] <= b[2]
      /\ s[1] \in Nat /\ s[2] \in Nat /\ s[1] <= s[2] /\ Parser!MIN = -1000
      /\ k \in Nat /\ s[1] <= k /\ k < s[2]
      /\ a[1] = s[1] /\ a[2] = k /\ b[1] = k + 1 /\ b[2] = s[2]
  BY PartsOf, SentenceIs
<1>2. Key(a) \in DOMAIN t /\ Key(b) \in DOMAIN t
  BY DEF PartsThere
<1>3. Parser!getKey(s[1], k, r[2]) = Key(a) /\ Parser!getKey(k + 1, s[2], r[3]) = Key(b)
  BY DEF Key
<1>4. /\ Joined(s, r, k) <=> BestOf(a) > Parser!MIN /\ BestOf(b) > Parser!MIN
      /\ ViaRule(s, r, k) = e + BestOf(a) + BestOf(b)
  BY DEF Joined, ViaRule
<1>5. e \in {-1, -2}
  BY DEF Parser!RuleEstimate
<1>6. v = Parser!Sum(<<e, x, y>>)
  BY <1>3
<1> HIDE DEF a, b
<1>7. PieFits(t, a) /\ PieFits(t, b)
  BY <1>1, <1>2 DEF ChartFits
<1>8. x \in Values(a) /\ y \in Values(b)
  BY <1>7 DEF PieFits
<1> HIDE DEF x, y
<1>9. /\ x \in Parser!MIN..-1 /\ y \in Parser!MIN..-1
      /\ x = Parser!MIN \/ (x > Parser!MIN /\ x \in (-1 - 3 * (k - s[1]))..-1)
      /\ y = Parser!MIN \/ (y > Parser!MIN /\ y \in (-1 - 3 * (s[2] - (k + 1)))..-1)
  BY <1>1, <1>8, ValuesAre
<1>10. v = IF x = Parser!MIN \/ y = Parser!MIN THEN Parser!MIN ELSE e + x + y
  BY <1>6, <1>9, TermsAdded
<1>11. \A h, i, l, o, p, q : /\ h \in Nat /\ i \in Nat /\ l \in Nat /\ h <= l /\ l < i
                             /\ o \in {-1, -2}
                             /\ p \in (-1 - 3 * (l - h))..-1
                             /\ q \in (-1 - 3 * (i - (l + 1)))..-1
                             => o + p + q \in (-1 - 3 * (i - h))..-1
  OBVIOUS
<1>12. CASE x = Parser!MIN \/ y = Parser!MIN
  <2>1. v = -1000
    BY <1>1, <1>10, <1>12
  <2>2. ~(x > Parser!MIN /\ y > Parser!MIN)
    BY <1>1, <1>12
  <2>3. Parser!HashesDiffer => x = BestOf(a) /\ y = BestOf(b)
    BY <1>7 DEF PieFits, x, y
  <2>4. Parser!HashesDiffer => ~Joined(s, r, k)
    BY <1>4, <2>2, <2>3
  <2>5. v \in Int /\ ~(v > Parser!MIN)
    BY <1>1, <2>1
  <2>6. QED
    BY <2>4, <2>5
<1>13. CASE x # Parser!MIN /\ y # Parser!MIN
  <2>1. x > Parser!MIN /\ y > Parser!MIN /\ v = e + x + y
    BY <1>9, <1>10, <1>13
  <2>2. v \in (-1 - 3 * (s[2] - s[1]))..-1
    BY <1>1, <1>5, <1>9, <1>11, <1>13, <2>1
  <2>3. v \in Values(s)
    BY <2>2 DEF Values
  <2>4. v \in Int /\ v > Parser!MIN
    <3>1. s[2] - s[1] < 256
      BY SentenceIs DEF Spans
    <3>2. -1 - 3 * (s[2] - s[1]) > -1000 /\ -1 - 3 * (s[2] - s[1]) \in Int
      BY <1>1, <3>1
    <3>3. QED
      BY <1>1, <2>2, <3>2
  <2>5. Parser!HashesDiffer => x = BestOf(a) /\ y = BestOf(b)
    BY <1>7 DEF PieFits, x, y
  <2>6. Parser!HashesDiffer => Joined(s, r, k) /\ v = ViaRule(s, r, k)
    BY <1>4, <2>1, <2>5
  <2>7. QED
    BY <2>1, <2>3, <2>4, <2>6 DEF x, y, a, b, e
<1>14. QED
  BY <1>12, <1>13

\* The Pie that fillInvariants makes for a span, and the chart with it.
Makes(t, s, p) ==
  LET possible == {x \in Parser!Candidates(t, s[1], s[2], s[3]) : x.value > Parser!MIN}
  IN \/ possible = {} /\ p = Parser!Pie(s[1], s[3], Parser!MIN, Parser!null, Parser!null)
     \/ \E best \in possible :
          /\ \A x \in possible : x.value <= best.value
          /\ p = Parser!Pie(s[1], s[3], best.value, t[Parser!getKey(s[1], best.k, best.y)],
                            t[Parser!getKey(best.k + 1, s[2], best.z)])
With(t, s, p) == [key \in DOMAIN t \cup {Key(s)} |-> IF key = Key(s) THEN p ELSE t[key]]

\* It fits.
LEMMA FilledPieFits ==
  ASSUME SentenceFits, NEW t, NEW c, ChartFits(t, c), NEW s \in Spans, s[1] < s[2],
         PartsThere(t, s), NEW p, Makes(t, s, p)
  PROVE  PieFits(With(t, s, p), s)
<1> DEFINE possible == {x \in Parser!Candidates(t, s[1], s[2], s[3]) : x.value > Parser!MIN}
           u == With(t, s, p)
<1>0. \/ possible = {} /\ p = Parser!Pie(s[1], s[3], Parser!MIN, Parser!null, Parser!null)
      \/ \E best \in possible :
           /\ \A x \in possible : x.value <= best.value
           /\ p = Parser!Pie(s[1], s[3], best.value, t[Parser!getKey(s[1], best.k, best.y)],
                             t[Parser!getKey(best.k + 1, s[2], best.z)])
  BY DEF Makes
<1> DEFINE K == s[1]..(s[2] - 1)
           Left(r, k) == t[Key(<<s[1], k, r[2]>>)]
           Right(r, k) == t[Key(<<k + 1, s[2], r[3]>>)]
           Value(r, k) == Parser!Sum(<<Parser!RuleEstimate(r[2], r[3]),
                                       t[Parser!getKey(s[1], k, r[2])].value,
                                       t[Parser!getKey(k + 1, s[2], r[3])].value>>)
           Found(r, k) == [k |-> k, y |-> r[2], z |-> r[3], value |-> Value(r, k)]
<1>1. /\ Parser!MIN = -1000 /\ s[1] \in Nat /\ s[2] \in Nat /\ s[1] # s[2]
      /\ s[3] \in Parser!Nonterminals /\ s = <<s[1], s[2], s[3]>>
  BY SentenceIs DEF Spans
<1>2. Parser!Candidates(t, s[1], s[2], s[3]) =
        {Found(r, k) : r \in {q \in model : q[1] = s[3]}, k \in K}
  BY DEF Parser!Candidates, Parser!Splits
<1>3. \A r \in model : \A k \in K : r[1] = s[3] =>
        /\ Value(r, k) \in Int
        /\ Value(r, k) > Parser!MIN =>
             /\ Left(r, k).value > Parser!MIN /\ Right(r, k).value > Parser!MIN
             /\ Value(r, k) = Parser!RuleEstimate(r[2], r[3]) + Left(r, k).value
                                + Right(r, k).value
             /\ Value(r, k) \in Values(s)
        /\ Parser!HashesDiffer => /\ Value(r, k) > Parser!MIN <=> Joined(s, r, k)
                                  /\ Joined(s, r, k) => Value(r, k) = ViaRule(s, r, k)
  BY FoundIs
<1>4. \A r, k : /\ Found(r, k).k = k /\ Found(r, k).y = r[2] /\ Found(r, k).z = r[3]
                /\ Found(r, k).value = Value(r, k)
  OBVIOUS
<1> HIDE DEF Value, Found, Left, Right
<1>5. ASSUME NEW x \in possible
      PROVE  \E r \in model : \E k \in K :
               /\ r[1] = s[3] /\ x.value = Value(r, k) /\ x.value > Parser!MIN
               /\ x.k = k /\ x.y = r[2] /\ x.z = r[3]
  <2>1. PICK r \in {q \in model : q[1] = s[3]}, k \in K : x = Found(r, k)
    BY <1>2
  <2>2. x.value > Parser!MIN /\ r \in model /\ r[1] = s[3]
    OBVIOUS
  <2>3. /\ x.value = Value(r, k) /\ x.k = k /\ x.y = r[2] /\ x.z = r[3]
    BY <1>4, <2>1
  <2> HIDE DEF possible, K
  <2>4. QED
    BY <2>2, <2>3
<1>6. ASSUME Parser!HashesDiffer, NEW r \in model, NEW k \in K, Joined(s, r, k)
      PROVE  \E x \in possible : x.value = ViaRule(s, r, k)
  <2>1. r[1] = s[3]
    BY <1>6 DEF Joined
  <2>2. Found(r, k) \in Parser!Candidates(t, s[1], s[2], s[3])
    <3> HIDE DEF K
    <3>1. QED
      BY <1>2, <2>1
  <2>3. Found(r, k).value > Parser!MIN /\ Found(r, k).value = ViaRule(s, r, k)
    BY <1>3, <1>4, <1>6, <2>1
  <2>4. QED
    BY <2>2, <2>3
<1>7. /\ u[Key(s)] = p /\ DOMAIN t \subseteq DOMAIN u
      /\ \A key \in DOMAIN t : key # Key(s) => u[key] = t[key]
  BY DEF With
<1> HIDE DEF u
<1>8. /\ p # Parser!null /\ p.start = s[1] /\ p.NT = s[3]
      /\ p.NT \in Parser!Nonterminals /\ Key(<<s[1], s[2], p.NT>>) = Key(s)
  <2>1. PICK v, l, h : p = Parser!Pie(s[1], s[3], v, l, h)
    BY <1>0
  <2>2. DOMAIN p = {"start", "NT", "value", "bpLeft", "bpRight"} /\ p.start = s[1] /\ p.NT = s[3]
    BY <2>1 DEF Parser!Pie
  <2>3. DOMAIN <<>> = {}
    OBVIOUS
  <2>4. p # Parser!null
    BY <2>2, <2>3 DEF Parser!null
  <2>5. QED
    BY <1>1, <2>2, <2>4
<1>9. CASE possible = {}
  <2>1. p = Parser!Pie(s[1], s[3], Parser!MIN, Parser!null, Parser!null)
    BY <1>0, <1>9
  <2>2. p.value = Parser!MIN /\ p.bpLeft = Parser!null
    BY <2>1 DEF Parser!Pie
  <2>3. Parser!HashesDiffer => \A r \in model : \A k \in K : ~Joined(s, r, k)
    BY <1>6, <1>9
  <2>4. Parser!HashesDiffer => BestOf(s) = Parser!MIN
    BY <2>3, BestFromParts
  <2>5. ~(p.value > Parser!MIN) /\ p.value \in Values(s)
    BY <1>1, <2>2 DEF Values
  <2>6. QED
    BY <1>7, <1>8, <2>2, <2>4, <2>5 DEF PieFits, u
<1>10. CASE possible # {}
  <2>1. PICK best \in possible :
          /\ \A x \in possible : x.value <= best.value
          /\ p = Parser!Pie(s[1], s[3], best.value, t[Parser!getKey(s[1], best.k, best.y)],
                            t[Parser!getKey(best.k + 1, s[2], best.z)])
    BY <1>0, <1>10
  <2>2. PICK r \in model, k \in K :
          /\ r[1] = s[3] /\ best.value = Value(r, k) /\ best.value > Parser!MIN
          /\ best.k = k /\ best.y = r[2] /\ best.z = r[3]
    BY <1>5
  <2> DEFINE a == <<s[1], k, r[2]>>
             b == <<k + 1, s[2], r[3]>>
  <2>3. p.value = best.value /\ p.bpLeft = t[Key(a)] /\ p.bpRight = t[Key(b)]
    BY <2>1, <2>2 DEF Parser!Pie, Key
  <2>4. /\ Key(a) \in DOMAIN t /\ Key(b) \in DOMAIN t /\ a \in Spans /\ b \in Spans
        /\ k \in Nat /\ s[1] <= k /\ k < s[2]
        /\ a[1] = s[1] /\ a[2] = k /\ b[1] = k + 1 /\ b[2] = s[2]
    BY PartsOf DEF PartsThere
  <2>5. /\ t[Key(a)].value > Parser!MIN /\ t[Key(b)].value > Parser!MIN
        /\ p.value = Parser!RuleEstimate(r[2], r[3]) + t[Key(a)].value + t[Key(b)].value
        /\ p.value \in Values(s)
    BY <1>3, <2>2, <2>3 DEF Left, Right
  <2>6. /\ Key(a) \in DOMAIN u /\ u[Key(a)] = t[Key(a)]
        /\ Key(b) \in DOMAIN u /\ u[Key(b)] = t[Key(b)]
    <3> HIDE DEF a, b
    <3>1. a[2] # s[2] /\ b[1] # s[1]
      BY <1>1, <2>4
    <3>2. Key(a) # Key(s) /\ Key(b) # Key(s)
      BY <2>4, <3>1, KeysDiffer
    <3>3. QED
      BY <1>7, <2>4, <3>2
  <2>7. PointsTo(u, s, p, r, k)
    BY <2>3, <2>5, <2>6 DEF PointsTo
  <2>8. Parser!HashesDiffer => BestOf(s) = p.value
    <3>1. SUFFICES ASSUME Parser!HashesDiffer PROVE BestOf(s) = p.value
      OBVIOUS
    <3> DEFINE v == p.value
    <3>2. Joined(s, r, k) /\ v = ViaRule(s, r, k)
      BY <1>3, <2>2, <2>3, <3>1
    <3>3. \A q \in model : \A l \in K : Joined(s, q, l) => ViaRule(s, q, l) <= v
      BY <1>6, <2>1, <2>3, <3>1
    <3>4. \E q \in model : \E l \in K : Joined(s, q, l) /\ v = ViaRule(s, q, l)
      BY <3>2
    <3> HIDE DEF v
    <3>5. BestOf(s) = v
      BY <3>3, <3>4, BestFromParts
    <3>6. QED
      BY <3>5 DEF v
  <2>9. p.value # Parser!MIN
    BY <1>1, <2>2, <2>3
  <2>10. u[Key(s)] = p
    BY <1>7
  <2> HIDE DEF a, b, possible
  <2>11. PieFits(u, s)
    BY <1>1, <1>8, <2>5, <2>7, <2>8, <2>9, <2>10 DEF PieFits
  <2>12. QED
    BY <2>11 DEF u
<1>11. QED
  BY <1>9, <1>10

\* The chart's properties are those of a sentence and rules that stay.
LEMMA ChartSame ==
  ASSUME UNCHANGED <<input, estimates, model, batch>>
  PROVE  /\ SentenceFits' <=> SentenceFits
         /\ CellFits(at)' <=> CellFits(at')
         /\ ChartFits(table, at)' <=> ChartFits(table', at')
         /\ Key(<<0, input - 1, SBARQ>>)' = Key(<<0, input - 1, SBARQ>>)
<1>1. Spans' = Spans
  BY DEF Spans
<1>2. Parser!Trees' = Parser!Trees
  BY DEF Parser!Trees
<1>3. \A q : BestOf(q)' = BestOf(q)
  BY <1>2 DEF BestOf, Parser!Best
<1>4. \A X : Parser!Kept(X)' = Parser!Kept(X)
  BY DEF Parser!Kept
<1>5. \A q : Key(q)' = Key(q)
  BY <1>4 DEF Key, Parser!getKey
<1>6. Parser!HashesDiffer' <=> Parser!HashesDiffer
  BY <1>4 DEF Parser!HashesDiffer
<1>7. \A q : PieFits(table, q)' <=> PieFits(table', q)
  <2>1. \A q, p, r, k : PointsTo(table, q, p, r, k)' <=> PointsTo(table', q, p, r, k)
    BY <1>5 DEF PointsTo
  <2>2. \A q : Values(q)' = Values(q)
    BY DEF Values
  <2>3. QED
    BY <1>3, <1>5, <1>6, <2>1, <2>2 DEF PieFits
<1>8. \A q : Done(at, q)' <=> Done(at', q)
  BY DEF Done
<1>9. ChartFits(table, at)' <=> ChartFits(table', at')
  BY <1>1, <1>5, <1>7, <1>8 DEF ChartFits
<1>10. SentenceFits' <=> SentenceFits
  BY DEF SentenceFits
<1>11. CellFits(at)' <=> CellFits(at')
  BY DEF CellFits
<1>12. Key(<<0, input - 1, SBARQ>>)' = Key(<<0, input - 1, SBARQ>>)
  BY <1>4 DEF Key, Parser!getKey
<1>13. QED
  BY <1>9, <1>10, <1>11, <1>12

\* One more cell of the chart is filled.
LEMMA ChartFills == ASSUME ChartInv, Parser!Fill PROVE ChartInv'
<1> DEFINE i == at.i
           j == at.i + at.l
<1>0. PICK first \in Parser!FirstAsked(i, j) :
        LET chart == Parser!Words(first)
            possible == {c \in Parser!Candidates(chart, i, j, at.X) : c.value > Parser!MIN}
            this == Parser!getKey(i, j, at.X)
            Put(p) == table' = [key \in DOMAIN chart \cup {this} |->
                                  IF key = this THEN p ELSE chart[key]]
        IN IF Parser!Missing(chart, i, j)
           THEN UNCHANGED <<table, at>>
           ELSE /\ IF possible = {}
                   THEN Put(Parser!Pie(i, at.X, Parser!MIN, Parser!null, Parser!null))
                   ELSE \E best \in possible :
                          /\ \A c \in possible : c.value <= best.value
                          /\ Put(Parser!Pie(i, at.X, best.value,
                                         chart[Parser!getKey(i, best.k, best.y)],
                                         chart[Parser!getKey(best.k + 1, j, best.z)]))
                /\ at' = Parser!NextCell(at) /\ UNCHANGED phase
  BY DEF Parser!Fill
<1> DEFINE chart == Parser!Words(first)
           possible == {c \in Parser!Candidates(chart, i, j, at.X) : c.value > Parser!MIN}
           this == Parser!getKey(i, j, at.X)
           Put(p) == table' = [key \in DOMAIN chart \cup {this} |->
                                 IF key = this THEN p ELSE chart[key]]
           s == <<i, j, at.X>>
<1>1. /\ at.l < input /\ UNCHANGED <<input, estimates, model, batch>> /\ phase = "parsing"
      /\ IF Parser!Missing(chart, i, j)
         THEN UNCHANGED <<table, at>>
         ELSE /\ IF possible = {}
                 THEN Put(Parser!Pie(i, at.X, Parser!MIN, Parser!null, Parser!null))
                 ELSE \E best \in possible :
                        /\ \A c \in possible : c.value <= best.value
                        /\ Put(Parser!Pie(i, at.X, best.value,
                                       chart[Parser!getKey(i, best.k, best.y)],
                                       chart[Parser!getKey(best.k + 1, j, best.z)]))
              /\ at' = Parser!NextCell(at) /\ UNCHANGED phase
  BY <1>0 DEF Parser!Fill
<1>2. /\ SentenceFits /\ CellFits(at) /\ ChartFits(table, at)
      /\ input \in Nat /\ Parser!Nonterminals = 0..(NTs - 1)
  BY SentenceIs DEF ChartInv
<1>3. /\ at.l \in Nat /\ at.l > 0 /\ i \in Nat /\ j \in Nat /\ i + at.l = j /\ i < j /\ j < input
      /\ i \in 0..(input - 1) /\ j \in 0..(input - 1) /\ at.X \in Parser!Nonterminals
  BY <1>1, <1>2 DEF CellFits
<1>4. /\ ChartFits(chart, at)
      /\ \A k \in i..j : \A X \in Parser!Nonterminals : Key(<<k, k, X>>) \in DOMAIN chart
  BY <1>2, <1>3, WordsFit
<1>5. s \in Spans /\ s[1] = i /\ s[2] = j /\ s[3] = at.X /\ Key(s) = this
  BY <1>3 DEF Spans, Key
<1> HIDE DEF chart, s
<1>6. ASSUME NEW a \in i..j, NEW b \in a..j, NEW X \in Parser!Nonterminals, b - a < at.l
      PROVE  Key(<<a, b, X>>) \in DOMAIN chart
  <2> DEFINE q == <<a, b, X>>
  <2>1. q \in Spans /\ q[1] = a /\ q[2] = b /\ a \in Nat /\ b \in Nat
    <3> HIDE DEF i, j
    <3>1. a \in 0..(input - 1) /\ b \in 0..(input - 1) /\ a \in Nat /\ b \in Nat
      BY <1>2, <1>3
    <3>2. QED
      BY <3>1 DEF Spans
  <2>2. CASE a = b
    BY <1>4, <2>2
  <2>3. CASE a < b
    <3> HIDE DEF q
    <3>1. Done(at, q)
      BY <1>6, <2>1, <2>3 DEF Done
    <3>2. Key(q) \in DOMAIN chart
      BY <1>4, <2>1, <2>3, <3>1 DEF ChartFits
    <3>3. QED
      BY <3>2 DEF q
  <2>4. QED
    BY <2>1, <2>2, <2>3
<1>7. ~Parser!Missing(chart, i, j)
  <2>1. ASSUME NEW k \in i..(j - 1), NEW X \in Parser!Nonterminals
        PROVE  /\ Parser!getKey(i, k, X) \in DOMAIN chart
               /\ Parser!getKey(k + 1, j, X) \in DOMAIN chart
    <3>1. /\ i \in i..j /\ k \in i..j /\ k - i < at.l
          /\ k + 1 \in i..j /\ j \in (k + 1)..j /\ j - (k + 1) < at.l
      BY <1>3
    <3>2. Key(<<i, k, X>>) \in DOMAIN chart /\ Key(<<k + 1, j, X>>) \in DOMAIN chart
      BY <1>6, <3>1
    <3>3. QED
      BY <3>2 DEF Key
  <2>2. QED
    BY <2>1 DEF Parser!Missing, Parser!Splits
<1>8. PartsThere(chart, s)
  <2>1. ASSUME NEW r \in model, NEW k \in s[1]..(s[2] - 1)
        PROVE  /\ Key(<<s[1], k, r[2]>>) \in DOMAIN chart
               /\ Key(<<k + 1, s[2], r[3]>>) \in DOMAIN chart
    <3>1. r[2] \in Parser!Nonterminals /\ r[3] \in Parser!Nonterminals
      BY <1>2 DEF SentenceFits
    <3>2. /\ i \in i..j /\ k \in i..j /\ k - i < at.l
          /\ k + 1 \in i..j /\ j \in (k + 1)..j /\ j - (k + 1) < at.l
      BY <1>3, <1>5
    <3>3. QED
      BY <1>5, <1>6, <3>1, <3>2
  <2>2. QED
    BY <2>1 DEF PartsThere
<1>9. \A q \in Spans : q[1] <= q[2] /\ Key(q) \in DOMAIN chart => q[2] - q[1] <= at.l
  <2>1. SUFFICES ASSUME NEW q \in Spans, q[1] <= q[2], Key(q) \in DOMAIN chart
                 PROVE  q[2] - q[1] <= at.l
    OBVIOUS
  <2>2. PICK o \in Spans : Done(at, o) /\ Key(q) = Key(o)
    BY <1>4, <2>1 DEF ChartFits
  <2>3. o[1] = q[1] /\ o[2] = q[2] /\ q[1] \in Nat /\ q[2] \in Nat
    BY <1>2, <2>2, KeysDiffer DEF Spans
  <2>4. QED
    BY <1>3, <2>2, <2>3 DEF Done
<1>10. PICK p : /\ Put(p)
                /\ \/ possible = {} /\ p = Parser!Pie(i, at.X, Parser!MIN, Parser!null, Parser!null)
                   \/ \E best \in possible :
                        /\ \A x \in possible : x.value <= best.value
                        /\ p = Parser!Pie(i, at.X, best.value,
                                          chart[Parser!getKey(i, best.k, best.y)],
                                          chart[Parser!getKey(best.k + 1, j, best.z)])
  BY <1>1, <1>7
<1>11. at' = Parser!NextCell(at) /\ phase' = "parsing"
  BY <1>1, <1>7
<1>12. PieFits(table', s)
  <2>1. table' = With(chart, s, p)
    BY <1>5, <1>10 DEF With
  <2>2. Makes(chart, s, p)
    BY <1>5, <1>10 DEF Makes
  <2>3. s[1] < s[2]
    BY <1>3, <1>5
  <2>4. PieFits(With(chart, s, p), s)
    BY <1>2, <1>4, <1>5, <1>8, <2>2, <2>3, FilledPieFits
  <2>5. QED
    BY <2>1, <2>4
<1>13. /\ DOMAIN table' = DOMAIN chart \cup {Key(s)}
       /\ \A key \in DOMAIN chart : key # Key(s) => table'[key] = chart[key]
  BY <1>5, <1>10
<1>14. /\ CellFits(at')
       /\ \A q \in Spans : q[1] < q[2] => (Done(at', q) <=> Done(at, q) \/ q = s)
  <2>1. CellFits(at')
    BY <1>1, <1>2, <1>11, NextCellIs
  <2>2. ASSUME NEW q \in Spans, q[1] < q[2]
        PROVE  Done(at', q) <=> Done(at, q) \/ q = s
    <3>1. Done(at', q) <=> Done(at, q) \/ (q[1] = at.i /\ q[2] - q[1] = at.l /\ q[3] = at.X)
      BY <1>1, <1>2, <1>11, <2>2, NextCellIs
    <3>2. q = <<q[1], q[2], q[3]>> /\ q[1] \in Nat /\ q[2] \in Nat /\ s = <<i, j, at.X>>
      BY <1>2, SentenceIs DEF Spans, s
    <3>3. q = s <=> q[1] = i /\ q[2] = j /\ q[3] = at.X
      BY <1>5, <3>2
    <3>4. q[2] = j <=> q[2] - i = at.l
      BY <1>3, <3>2
    <3>5. QED
      BY <3>1, <3>3, <3>4
  <2>3. QED
    BY <2>1, <2>2
<1>15. ChartFits(table', at')
  <2>1. ASSUME NEW key \in DOMAIN table'
        PROVE  \E q \in Spans : q[1] <= q[2] /\ Done(at', q) /\ key = Key(q)
    <3>1. PICK q \in Spans : q[1] <= q[2] /\ key = Key(q) /\ (Done(at, q) \/ q = s)
      <4>1. CASE key = Key(s)
        BY <1>3, <1>5, <4>1
      <4>2. CASE key \in DOMAIN chart
        BY <1>4, <4>2 DEF ChartFits
      <4>3. QED
        BY <1>13, <4>1, <4>2
    <3>2. CASE q[1] = q[2]
      BY <3>1, <3>2 DEF Done
    <3>3. CASE q[1] # q[2]
      <4>1. q[1] < q[2]
        BY <1>2, <3>1, <3>3 DEF Spans
      <4>2. QED
        BY <1>14, <3>1, <4>1
    <3>4. QED
      BY <3>2, <3>3
  <2>2. ASSUME NEW q \in Spans, q[1] <= q[2], Key(q) \in DOMAIN table' PROVE PieFits(table', q)
    <3> DEFINE u == table'
    <3>1. CASE Key(q) = Key(s)
      <4>1. PieFits(u, s)
        BY <1>12
      <4> HIDE DEF u
      <4>2. PieFits(u, q)
        BY <1>2, <1>5, <3>1, <4>1, PieOfKey
      <4>3. QED
        BY <4>2 DEF u
    <3>2. CASE Key(q) # Key(s)
      <4>1. Key(q) \in DOMAIN chart
        BY <1>13, <2>2, <3>2
      <4>2. PieFits(chart, q)
        BY <1>4, <2>2, <4>1 DEF ChartFits
      <4>3. u[Key(q)] = chart[Key(q)]
        BY <1>13, <3>2, <4>1
      <4>4. ASSUME NEW o \in Spans, o[2] - o[1] < q[2] - q[1], Key(o) \in DOMAIN chart
            PROVE  Key(o) \in DOMAIN u /\ u[Key(o)] = chart[Key(o)]
        <5>1. q[2] - q[1] <= at.l /\ s[2] - s[1] = at.l
          BY <1>3, <1>5, <1>9, <2>2, <4>1
        <5>2. /\ o[1] \in Nat /\ o[2] \in Nat /\ q[1] \in Nat /\ q[2] \in Nat
          BY <1>2 DEF Spans
        <5>3. o[2] - o[1] < s[2] - s[1]
          BY <1>3, <4>4, <5>1, <5>2
        <5>4. o[1] # s[1] \/ o[2] # s[2]
          BY <1>3, <1>5, <5>2, <5>3
        <5>5. Key(o) # Key(s)
          BY <1>2, <1>5, <5>4, KeysDiffer
        <5>6. QED
          BY <1>13, <4>4, <5>5
      <4> HIDE DEF u
      <4>5. PieFits(u, q)
        BY <1>2, <4>2, <4>3, <4>4, PieStays
      <4>6. QED
        BY <4>5 DEF u
    <3>3. QED
      BY <3>1, <3>2
  <2>3. ASSUME NEW q \in Spans, q[1] < q[2], Done(at', q) PROVE Key(q) \in DOMAIN table'
    <3>1. CASE q = s
      BY <1>13, <3>1
    <3>2. CASE q # s
      <4>1. Done(at, q)
        BY <1>14, <2>3, <3>2
      <4>2. Key(q) \in DOMAIN chart
        BY <1>4, <2>3, <4>1 DEF ChartFits
      <4>3. QED
        BY <1>13, <4>2
    <3>3. QED
      BY <3>1, <3>2
  <2>4. QED
    BY <2>1, <2>2, <2>3 DEF ChartFits
<1>16. QED
  BY <1>1, <1>2, <1>11, <1>14, <1>15, ChartSame DEF ChartInv

\* Every step of the parser keeps its invariant.
LEMMA ChartKeeps == ASSUME ChartInv, Parser!Next PROVE ChartInv'
<1>1. CASE Parser!Fill
  BY <1>1, ChartFills
<1>2. CASE Parser!Parse
  <2>1. /\ UNCHANGED <<input, estimates, model, batch>> /\ table' = table /\ at' = at
        /\ phase' = IF Parser!getKey(0, input - 1, SBARQ) \in DOMAIN table
                    THEN "parsed" ELSE "NullPointerException"
    BY <1>2 DEF Parser!Parse
  <2>2. Parser!getKey(0, input - 1, SBARQ) = Key(<<0, input - 1, SBARQ>>)
    BY DEF Key
  <2>3. SentenceFits' /\ CellFits(at)' /\ ChartFits(table, at)'
    BY <2>1, ChartSame DEF ChartInv
  <2>4. Key(<<0, input - 1, SBARQ>>)' = Key(<<0, input - 1, SBARQ>>)
    BY <2>1, ChartSame
  <2>5. phase' \in {"parsing", "parsed", "NullPointerException"}
        /\ (phase' = "parsed" => Key(<<0, input - 1, SBARQ>>)' \in DOMAIN table')
    BY <2>1, <2>2, <2>4
  <2>6. QED
    BY <2>3, <2>5 DEF ChartInv
<1>3. QED
  BY <1>1, <1>2 DEF Parser!Next

\* The parser stays within its types, and the chart has the best values.
LEMMA ChartIsBest == ASSUME ChartInv PROVE Parser!TypeOK /\ Parser!ChartBest
<1>1. /\ SentenceFits /\ CellFits(at) /\ ChartFits(table, at) /\ phase # "exit"
      /\ input \in Nat /\ input > 0
  BY SentenceIs DEF ChartInv
<1>2. ASSUME NEW s \in Spans, s[1] <= s[2], Key(s) \in DOMAIN table
      PROVE  /\ Parser!HashesDiffer => table[Key(s)].value = BestOf(s)
             /\ table[Key(s)].value \in Parser!MIN..-1
  <2>1. PieFits(table, s)
    BY <1>1, <1>2 DEF ChartFits
  <2>2. table[Key(s)].value \in Values(s)
    BY <2>1 DEF PieFits
  <2>3. QED
    BY <1>1, <1>2, <2>1, <2>2, ValuesAre DEF PieFits
<1>3. ASSUME NEW key \in DOMAIN table PROVE table[key].value \in Parser!MIN..-1
  <2>1. PICK s \in Spans : s[1] <= s[2] /\ key = Key(s)
    BY <1>1 DEF ChartFits
  <2>2. QED
    BY <1>2, <2>1
<1>4. at.l \in 1..input /\ at.i \in 0..input /\ at.X \in Parser!Nonterminals
  BY <1>1 DEF CellFits
<1>5. Parser!TypeOK
  BY <1>1, <1>3, <1>4 DEF SentenceFits, Parser!TypeOK
<1>6. ASSUME Parser!HashesDiffer, NEW q \in Parser!Filled, NEW X \in Parser!Nonterminals
      PROVE  table[Parser!getKey(q[1], q[2], X)].value = Parser!Best(q[1], q[2], X)
  <2> DEFINE s == <<q[1], q[2], X>>
  <2>1. /\ q[1] \in 0..(input - 1) /\ q[2] \in 0..(input - 1) /\ q[1] < q[2]
        /\ q[2] - q[1] < at.l
    BY DEF Parser!Filled
  <2>2. s \in Spans /\ s[1] = q[1] /\ s[2] = q[2] /\ s[3] = X
    BY <2>1 DEF Spans
  <2>3. Key(s) = Parser!getKey(q[1], q[2], X) /\ BestOf(s) = Parser!Best(q[1], q[2], X)
    BY DEF Key, BestOf
  <2> HIDE DEF s
  <2>4. s[1] < s[2] /\ s[1] <= s[2] /\ Done(at, s)
    BY <1>1, <2>1, <2>2 DEF Done
  <2>5. Key(s) \in DOMAIN table
    BY <1>1, <2>2, <2>4 DEF ChartFits
  <2>6. QED
    BY <1>2, <1>6, <2>2, <2>3, <2>4, <2>5
<1>7. QED
  BY <1>1, <1>5, <1>6 DEF Parser!ChartBest

-----------------------------------------------------------------------------
(* The tree that the chart's back pointers give.                           *)

\* A Pie that points to others points to those of the two parts of its span.
LEMMA PointsToParts ==
  ASSUME ChartInv, NEW s \in Spans, s[1] <= s[2], Key(s) \in DOMAIN table,
         NEW p, p = table[Key(s)], p.bpLeft # Parser!null
  PROVE  /\ s[1] < s[2] /\ p.value > Parser!MIN
         /\ \E r \in model : \E k \in s[1]..(s[2] - 1) :
              /\ PointsTo(table, s, p, r, k)
              /\ Key(<<s[1], k, r[2]>>) \in DOMAIN table
              /\ p.bpLeft = table[Key(<<s[1], k, r[2]>>)]
              /\ Key(<<k + 1, s[2], r[3]>>) \in DOMAIN table
              /\ p.bpRight = table[Key(<<k + 1, s[2], r[3]>>)]
<1>1. SentenceFits /\ PieFits(table, s)
  BY DEF ChartInv, ChartFits
<1>2. s[1] # s[2] /\ p.value # Parser!MIN /\ p.value \in Values(s)
  BY <1>1 DEF PieFits
<1>3. s[1] \in Nat /\ s[2] \in Nat
  BY <1>1, SentenceIs DEF Spans
<1>4. s[1] < s[2] /\ p.value > Parser!MIN
  BY <1>1, <1>2, <1>3, ValuesAre
<1>5. PICK r \in model, k \in s[1]..(s[2] - 1) : PointsTo(table, s, p, r, k)
  BY <1>1, <1>4 DEF PieFits
<1>6. QED
  BY <1>4, <1>5 DEF PointsTo

\* The Pies of spans of m words after the first, at most.
PiesUpto(m) ==
  {table[Key(s)] : s \in {q \in Spans : /\ q[1] <= q[2] /\ q[2] - q[1] <= m
                                       /\ Key(q) \in DOMAIN table}}

\* The two Pies that a Pie points to are of shorter spans.
LEMMA PartsShorter ==
  ASSUME ChartInv, NEW m \in Nat, NEW p \in PiesUpto(m), p.bpLeft # Parser!null
  PROVE  m > 0 /\ p.bpLeft \in PiesUpto(m - 1) /\ p.bpRight \in PiesUpto(m - 1)
<1>1. PICK s \in Spans : /\ s[1] <= s[2] /\ Key(s) \in DOMAIN table /\ s[2] - s[1] <= m
                        /\ p = table[Key(s)]
  BY DEF PiesUpto
<1>2. SentenceFits
  BY DEF ChartInv
<1>3. s[1] < s[2]
  BY <1>1, PointsToParts
<1>4. PICK r \in model, k \in s[1]..(s[2] - 1) :
              /\ Key(<<s[1], k, r[2]>>) \in DOMAIN table
              /\ p.bpLeft = table[Key(<<s[1], k, r[2]>>)]
              /\ Key(<<k + 1, s[2], r[3]>>) \in DOMAIN table
              /\ p.bpRight = table[Key(<<k + 1, s[2], r[3]>>)]
  BY <1>1, PointsToParts
<1> DEFINE a == <<s[1], k, r[2]>>
           b == <<k + 1, s[2], r[3]>>
<1>5. /\ a \in Spans /\ b \in Spans /\ k \in Nat /\ s[1] <= k /\ k < s[2]
      /\ s[1] \in Nat /\ s[2] \in Nat
  BY <1>2, PartsOf
<1>6. a[1] = s[1] /\ a[2] = k /\ b[1] = k + 1 /\ b[2] = s[2]
  OBVIOUS
<1> HIDE DEF a, b
<1>7. /\ a[1] <= a[2] /\ a[2] - a[1] <= m - 1 /\ b[1] <= b[2] /\ b[2] - b[1] <= m - 1 /\ m > 0
  BY <1>1, <1>5, <1>6
<1>8. Key(a) \in DOMAIN table /\ Key(b) \in DOMAIN table
      /\ p.bpLeft = table[Key(a)] /\ p.bpRight = table[Key(b)]
  BY <1>4 DEF a, b
<1>9. QED
  BY <1>5, <1>7, <1>8 DEF PiesUpto

\* All Pies of the chart are among them.
LEMMA PiesAre == ASSUME ChartInv PROVE PiesUpto(input) = Parser!Range(table)
<1>1. SentenceFits /\ ChartFits(table, at)
  BY DEF ChartInv
<1>2. \A s \in Spans : s[2] - s[1] <= input
  BY <1>1, SentenceIs DEF Spans
<1>3. ASSUME NEW key \in DOMAIN table PROVE table[key] \in PiesUpto(input)
  <2>1. PICK s \in Spans : s[1] <= s[2] /\ key = Key(s)
    BY <1>1 DEF ChartFits
  <2>2. QED
    BY <1>2, <2>1 DEF PiesUpto
<1>4. ASSUME NEW p \in PiesUpto(input) PROVE p \in Parser!Range(table)
  BY DEF PiesUpto, Parser!Range
<1>5. QED
  BY <1>3, <1>4 DEF Parser!Range

\* What is read from a Pie, the words and the value, by what is read from those below it.
Read(h, p) ==
  IF p.bpLeft = Parser!null THEN <<<<p.start>>, estimates[p.NT][p.start]>>
  ELSE <<h[p.bpLeft][1] \o h[p.bpRight][1],
         Parser!RuleEstimate(p.bpLeft.NT, p.bpRight.NT) + h[p.bpLeft][2] + h[p.bpRight][2]>>

\* All Pies of the chart can be read.
LEMMA ReadingExists ==
  ASSUME ChartInv
  PROVE  \E h : h = [p \in Parser!Range(table) |-> Read(h, p)]
<1> DEFINE Are(h, m) == h = [p \in PiesUpto(m) |-> Read(h, p)]
           N == {m \in Nat : \E h : Are(h, m)}
<1>1. 0 \in N
  <2> DEFINE g == [p \in PiesUpto(0) |-> <<>>]
             h == [p \in PiesUpto(0) |-> Read(g, p)]
  <2>1. ASSUME NEW p \in PiesUpto(0) PROVE Read(g, p) = Read(h, p)
    <3>1. p.bpLeft = Parser!null
      BY PartsShorter
    <3> HIDE DEF g, h
    <3>2. QED
      BY <3>1 DEF Read
  <2>2. h = [p \in PiesUpto(0) |-> Read(g, p)]
    OBVIOUS
  <2> HIDE DEF h, g
  <2>3. h = [p \in PiesUpto(0) |-> Read(h, p)]
    BY <2>1, <2>2
  <2>4. QED
    BY <2>3
<1>2. ASSUME NEW m \in N PROVE m + 1 \in N
  <2>1. m \in Nat
    OBVIOUS
  <2>2. PICK h : Are(h, m)
    OBVIOUS
  <2> DEFINE g == [p \in PiesUpto(m + 1) |-> Read(h, p)]
  <2>3. ASSUME NEW p \in PiesUpto(m) PROVE p \in PiesUpto(m + 1) /\ h[p] = g[p]
    <3>1. p \in PiesUpto(m + 1)
      <4>1. PICK s \in Spans : /\ s[1] <= s[2] /\ Key(s) \in DOMAIN table /\ s[2] - s[1] <= m
                              /\ p = table[Key(s)]
        BY DEF PiesUpto
      <4>2. s[1] \in Nat /\ s[2] \in Nat
        BY SentenceIs DEF ChartInv, Spans
      <4>3. s[2] - s[1] <= m + 1
        BY <2>1, <4>1, <4>2
      <4>4. QED
        BY <4>1, <4>3 DEF PiesUpto
    <3>2. h[p] = Read(h, p)
      BY <2>2
    <3>3. QED
      BY <3>1, <3>2
  <2>4. ASSUME NEW p \in PiesUpto(m + 1) PROVE Read(h, p) = Read(g, p)
    <3>1. CASE p.bpLeft = Parser!null
      <4> HIDE DEF g
      <4>1. QED
        BY <3>1 DEF Read
    <3>2. CASE p.bpLeft # Parser!null
      <4>1. p.bpLeft \in PiesUpto((m + 1) - 1) /\ p.bpRight \in PiesUpto((m + 1) - 1)
        BY <2>1, <3>2, PartsShorter
      <4>2. (m + 1) - 1 = m
        BY <2>1
      <4>3. h[p.bpLeft] = g[p.bpLeft] /\ h[p.bpRight] = g[p.bpRight]
        BY <2>3, <4>1, <4>2
      <4> HIDE DEF g
      <4>4. QED
        BY <3>2, <4>3 DEF Read
    <3>3. QED
      BY <3>1, <3>2
  <2>5. g = [p \in PiesUpto(m + 1) |-> Read(h, p)]
    OBVIOUS
  <2> HIDE DEF g
  <2>6. g = [p \in PiesUpto(m + 1) |-> Read(g, p)]
    BY <2>4, <2>5
  <2>7. QED
    BY <2>1, <2>6
<1>3. N = Nat
  <2>1. N \in SUBSET Nat
    OBVIOUS
  <2> HIDE DEF N
  <2>2. QED
    BY <1>1, <1>2, <2>1, Induction
<1>4. input \in Nat
  BY SentenceIs DEF ChartInv
<1>5. PICK h : Are(h, input)
  BY <1>3, <1>4
<1>6. PiesUpto(input) = Parser!Range(table)
  BY PiesAre
<1>7. h = [p \in Parser!Range(table) |-> Read(h, p)]
  BY <1>5, <1>6
<1>8. QED
  BY <1>7

\* The words under a Pie and its value are what is read.
LEMMA ReadingIs ==
  ASSUME ChartInv, NEW p \in Parser!Range(table)
  PROVE  /\ p.bpLeft = Parser!null =>
              /\ Parser!Leaves[p] = <<p.start>>
              /\ Parser!Value[p] = estimates[p.NT][p.start]
         /\ p.bpLeft # Parser!null =>
              /\ Parser!Leaves[p] = Parser!Leaves[p.bpLeft] \o Parser!Leaves[p.bpRight]
              /\ Parser!Value[p] = Parser!RuleEstimate(p.bpLeft.NT, p.bpRight.NT)
                                     + Parser!Value[p.bpLeft] + Parser!Value[p.bpRight]
<1> DEFINE R == Parser!Range(table)
<1>1. PICK h : h = [q \in R |-> Read(h, q)]
  BY ReadingExists
<1>2. \A q \in R : q.bpLeft # Parser!null => q.bpLeft \in R /\ q.bpRight \in R
  <2>1. SUFFICES ASSUME NEW q \in R, q.bpLeft # Parser!null PROVE q.bpLeft \in R /\ q.bpRight \in R
    OBVIOUS
  <2>2. q \in PiesUpto(input) /\ input \in Nat
    BY PiesAre, SentenceIs DEF ChartInv
  <2>3. q.bpLeft \in PiesUpto(input - 1) /\ q.bpRight \in PiesUpto(input - 1)
    BY <2>1, <2>2, PartsShorter
  <2>4. PiesUpto(input - 1) \subseteq R
    BY DEF PiesUpto, Parser!Range
  <2>5. QED
    BY <2>3, <2>4
<1> HIDE DEF R
<1>3. Parser!Leaves = [q \in R |-> IF q.bpLeft = Parser!null THEN <<q.start>>
                                  ELSE Parser!Leaves[q.bpLeft] \o Parser!Leaves[q.bpRight]]
  <2> DEFINE Is(f) == f = [q \in R |-> IF q.bpLeft = Parser!null THEN <<q.start>>
                                      ELSE f[q.bpLeft] \o f[q.bpRight]]
             f == [q \in R |-> h[q][1]]
  <2>1. Parser!Leaves = CHOOSE g : Is(g)
    BY DEF Parser!Leaves, R
  <2>2. ASSUME NEW q \in R
        PROVE  f[q] = IF q.bpLeft = Parser!null THEN <<q.start>> ELSE f[q.bpLeft] \o f[q.bpRight]
    <3>1. h[q] = Read(h, q) /\ f[q] = h[q][1]
      BY <1>1
    <3>2. q.bpLeft # Parser!null => f[q.bpLeft] = h[q.bpLeft][1] /\ f[q.bpRight] = h[q.bpRight][1]
      BY <1>2
    <3> HIDE DEF f
    <3>3. QED
      BY <3>1, <3>2 DEF Read
  <2>3. Is(f)
    <3>1. f = [q \in R |-> f[q]]
      OBVIOUS
    <3> HIDE DEF f
    <3>2. QED
      BY <2>2, <3>1
  <2> HIDE DEF Is, f
  <2>4. Is(Parser!Leaves)
    BY <2>1, <2>3
  <2>5. QED
    BY <2>4 DEF Is
<1>4. Parser!Value = [q \in R |-> IF q.bpLeft = Parser!null THEN estimates[q.NT][q.start]
                                 ELSE Parser!RuleEstimate(q.bpLeft.NT, q.bpRight.NT)
                                        + Parser!Value[q.bpLeft] + Parser!Value[q.bpRight]]
  <2> DEFINE Is(f) == f = [q \in R |-> IF q.bpLeft = Parser!null THEN estimates[q.NT][q.start]
                                      ELSE Parser!RuleEstimate(q.bpLeft.NT, q.bpRight.NT)
                                             + f[q.bpLeft] + f[q.bpRight]]
             f == [q \in R |-> h[q][2]]
  <2>1. Parser!Value = CHOOSE g : Is(g)
    BY DEF Parser!Value, R
  <2>2. ASSUME NEW q \in R
        PROVE  f[q] = IF q.bpLeft = Parser!null THEN estimates[q.NT][q.start]
                      ELSE Parser!RuleEstimate(q.bpLeft.NT, q.bpRight.NT)
                             + f[q.bpLeft] + f[q.bpRight]
    <3>1. h[q] = Read(h, q) /\ f[q] = h[q][2]
      BY <1>1
    <3>2. q.bpLeft # Parser!null => f[q.bpLeft] = h[q.bpLeft][2] /\ f[q.bpRight] = h[q.bpRight][2]
      BY <1>2
    <3> HIDE DEF f
    <3>3. QED
      BY <3>1, <3>2 DEF Read
  <2>3. Is(f)
    <3>1. f = [q \in R |-> f[q]]
      OBVIOUS
    <3> HIDE DEF f
    <3>2. QED
      BY <2>2, <3>1
  <2> HIDE DEF Is, f
  <2>4. Is(Parser!Value)
    BY <2>1, <2>3
  <2>5. QED
    BY <2>4 DEF Is
<1>5. p \in R
  BY DEF R
<1>6. QED
  BY <1>3, <1>4, <1>5

\* The words of a span, in their order.
Row(i, j) == [m \in 1..(j - i + 1) |-> i + m - 1]

\* The words of two adjacent spans are those of the span that they make up.
LEMMA RowsJoin ==
  ASSUME NEW i \in Nat, NEW k \in Nat, NEW j \in Nat, i <= k, k < j
  PROVE  Row(i, k) \o Row(k + 1, j) = Row(i, j)
<1> DEFINE a == Row(i, k)
           b == Row(k + 1, j)
           c == Row(i, j)
<1>1. /\ a \in Seq(Nat) /\ Len(a) = k - i + 1 /\ \A m \in 1..(k - i + 1) : a[m] = i + m - 1
  BY DEF Row
<1>2. /\ b \in Seq(Nat) /\ Len(b) = j - k /\ \A m \in 1..(j - k) : b[m] = k + m
  <2>1. j - (k + 1) + 1 = j - k
    OBVIOUS
  <2>2. b = [m \in 1..(j - k) |-> k + 1 + m - 1]
    BY <2>1 DEF Row
  <2>3. \A m \in 1..(j - k) : k + 1 + m - 1 = k + m
    OBVIOUS
  <2> HIDE DEF b
  <2>4. QED
    BY <2>2, <2>3
<1>3. /\ c \in Seq(Nat) /\ Len(c) = j - i + 1 /\ \A m \in 1..(j - i + 1) : c[m] = i + m - 1
  BY DEF Row
<1> HIDE DEF a, b, c
<1>4. /\ a \o b \in Seq(Nat) /\ Len(a \o b) = j - i + 1
      /\ \A m \in 1..(j - i + 1) : (a \o b)[m] = IF m <= k - i + 1 THEN a[m] ELSE b[m - (k - i + 1)]
  <2>1. /\ a \o b \in Seq(Nat) /\ Len(a \o b) = Len(a) + Len(b)
        /\ \A m \in 1..(Len(a) + Len(b)) : (a \o b)[m] = IF m <= Len(a) THEN a[m] ELSE b[m - Len(a)]
    BY <1>1, <1>2, ConcatProperties
  <2>2. Len(a) + Len(b) = j - i + 1
    BY <1>1, <1>2
  <2>3. QED
    BY <1>1, <2>1, <2>2
<1>5. ASSUME NEW m \in 1..(j - i + 1) PROVE (a \o b)[m] = c[m]
  <2>1. CASE m <= k - i + 1
    BY <1>1, <1>3, <1>4, <2>1
  <2>2. CASE ~(m <= k - i + 1)
    <3>1. m - (k - i + 1) \in 1..(j - k)
      BY <2>2
    <3>2. (a \o b)[m] = b[m - (k - i + 1)]
      BY <1>4, <2>2
    <3>3. b[m - (k - i + 1)] = k + (m - (k - i + 1))
      BY <1>2, <3>1
    <3>4. c[m] = i + m - 1
      BY <1>3
    <3>5. k + (m - (k - i + 1)) = i + m - 1
      OBVIOUS
    <3>6. QED
      BY <3>2, <3>3, <3>4, <3>5
  <2>3. QED
    BY <2>1, <2>2
<1>6. a \o b = c
  BY <1>3, <1>4, <1>5, SeqEqual
<1>7. QED
  BY <1>6 DEF a, b, c

\* The tree under a Pie that has a value covers its span, and if the keys tell the
\* nonterminals apart, it has that value.
LEMMA TreeCovers ==
  ASSUME ChartInv
  PROVE  \A s \in Spans : /\ s[1] <= s[2] /\ Key(s) \in DOMAIN table
                          /\ table[Key(s)].value > Parser!MIN
           => /\ Parser!Leaves[table[Key(s)]] = Row(s[1], s[2])
              /\ Parser!HashesDiffer => Parser!Value[table[Key(s)]] = BestOf(s)
<1> DEFINE Fine(s) == /\ Parser!Leaves[table[Key(s)]] = Row(s[1], s[2])
                      /\ Parser!HashesDiffer => Parser!Value[table[Key(s)]] = BestOf(s)
           Has(s) == s[1] <= s[2] /\ Key(s) \in DOMAIN table /\ table[Key(s)].value > Parser!MIN
           N == {m \in Nat : \A s \in Spans : Has(s) /\ s[2] - s[1] <= m => Fine(s)}
<1>1. /\ SentenceFits /\ Parser!MIN = -1000
      /\ \A s \in Spans : s[1] \in Nat /\ s[2] \in Nat
      /\ \A s \in Spans : Has(s) => PieFits(table, s) /\ table[Key(s)] \in Parser!Range(table)
  BY SentenceIs DEF ChartInv, ChartFits, Spans, Parser!Range
<1>0. ASSUME Parser!HashesDiffer, NEW s \in Spans, Has(s) PROVE table[Key(s)].NT = s[3]
  <2> DEFINE p == table[Key(s)]
             q == <<s[1], s[2], p.NT>>
  <2>1. p.NT \in Parser!Nonterminals /\ Key(q) = Key(s)
    BY <1>0, <1>1 DEF PieFits
  <2>2. q \in Spans /\ q[3] = p.NT
    BY <2>1 DEF Spans
  <2> HIDE DEF p, q
  <2>3. q = s
    BY <1>0, <1>1, <2>1, <2>2, KeysDiffer
  <2>4. QED
    BY <2>2, <2>3 DEF p
<1>2. ASSUME NEW s \in Spans, Has(s), s[1] = s[2] PROVE Fine(s)
  <2> DEFINE p == table[Key(s)]
  <2>0. PieFits(table, s) /\ p \in Parser!Range(table)
    BY <1>1, <1>2
  <2>1. /\ p.bpLeft = Parser!null /\ p.start = s[1]
        /\ Parser!HashesDiffer => p.NT = s[3]
    BY <1>0, <1>2, <2>0 DEF PieFits
  <2>2. /\ Parser!Leaves[p] = <<s[1]>>
        /\ Parser!HashesDiffer => Parser!Value[p] = estimates[s[3]][s[1]]
    <3> HIDE DEF p
    <3>1. QED
      BY <2>0, <2>1, ReadingIs
  <2>3. Row(s[1], s[2]) = <<s[1]>>
    <3> DEFINE i == s[1]
    <3>1. i \in Nat /\ s[2] = i
      BY <1>1, <1>2
    <3> HIDE DEF i
    <3>2. i - i + 1 = 1
      BY <3>1
    <3>3. Row(i, i) = [m \in 1..1 |-> i + m - 1]
      BY <3>2 DEF Row
    <3>4. [m \in 1..1 |-> i + m - 1] = <<i>>
      BY <3>1
    <3>5. QED
      BY <3>1, <3>3, <3>4 DEF i
  <2>4. BestOf(s) = estimates[s[3]][s[1]]
    BY <1>1, <1>2, BestWord
  <2>5. QED
    BY <2>2, <2>3, <2>4
<1>3. 0 \in N
  <2>1. ASSUME NEW s \in Spans, Has(s), s[2] - s[1] <= 0 PROVE s[1] = s[2]
    BY <1>1, <2>1
  <2> HIDE DEF Fine, Has
  <2>2. QED
    BY <1>2, <2>1
<1>4. ASSUME NEW m \in N PROVE m + 1 \in N
  <2>1. m \in Nat /\ \A s \in Spans : Has(s) /\ s[2] - s[1] <= m => Fine(s)
    OBVIOUS
  <2>2. ASSUME NEW s \in Spans, Has(s), s[2] - s[1] <= m + 1, s[1] # s[2] PROVE Fine(s)
    <3> DEFINE p == table[Key(s)]
    <3>1. s[1] < s[2] /\ p.value > Parser!MIN /\ (Parser!HashesDiffer => p.value = BestOf(s))
      <4>1. PieFits(table, s) /\ s[1] < s[2]
        BY <1>1, <2>2
      <4>2. QED
        BY <2>2, <4>1 DEF PieFits
    <3>2. PICK r \in model, k \in s[1]..(s[2] - 1) : PointsTo(table, s, p, r, k)
      <4>1. PieFits(table, s)
        BY <1>1, <2>2
      <4>2. QED
        BY <3>1, <4>1 DEF PieFits
    <3> DEFINE a == <<s[1], k, r[2]>>
               b == <<k + 1, s[2], r[3]>>
    <3>3. /\ a \in Spans /\ b \in Spans /\ k \in Nat /\ s[1] <= k /\ k < s[2]
          /\ s[1] \in Nat /\ s[2] \in Nat
      BY <1>1, PartsOf
    <3>4. /\ a[1] = s[1] /\ a[2] = k /\ a[3] = r[2] /\ b[1] = k + 1 /\ b[2] = s[2] /\ b[3] = r[3]
      OBVIOUS
    <3>5. /\ Key(a) \in DOMAIN table /\ p.bpLeft = table[Key(a)]
          /\ table[Key(a)].value > Parser!MIN
          /\ Key(b) \in DOMAIN table /\ p.bpRight = table[Key(b)]
          /\ table[Key(b)].value > Parser!MIN
          /\ p.value = Parser!RuleEstimate(r[2], r[3]) + table[Key(a)].value + table[Key(b)].value
      BY <3>2 DEF PointsTo
    <3>6. p \in Parser!Range(table)
      BY <1>1, <2>2
    <3> HIDE DEF a, b, p
    <3>7. a[1] <= a[2] /\ a[2] - a[1] <= m /\ b[1] <= b[2] /\ b[2] - b[1] <= m
      BY <2>1, <2>2, <3>3, <3>4
    <3>8. Has(a) /\ Has(b)
      BY <3>5, <3>7
    <3>9. Parser!HashesDiffer => /\ table[Key(a)].NT = r[2] /\ table[Key(b)].NT = r[3]
                                  /\ table[Key(a)].value = BestOf(a)
                                  /\ table[Key(b)].value = BestOf(b)
      <4>1. PieFits(table, a) /\ PieFits(table, b)
        BY <1>1, <3>3, <3>8
      <4>2. QED
        BY <1>0, <3>3, <3>4, <3>8, <4>1 DEF PieFits
    <3>10. table[Key(a)] # Parser!null
      <4>1. PieFits(table, a)
        BY <1>1, <3>3, <3>8
      <4>2. QED
        BY <4>1 DEF PieFits
    <3> HIDE DEF Has
    <3>11. Fine(a) /\ Fine(b)
      <4> HIDE DEF Fine
      <4>1. QED
        BY <2>1, <3>3, <3>7, <3>8
    <3>12. /\ p.bpLeft # Parser!null
           /\ Parser!HashesDiffer => p.bpLeft.NT = r[2] /\ p.bpRight.NT = r[3]
      BY <3>5, <3>9, <3>10
    <3>13. /\ Parser!Leaves[p] = Parser!Leaves[p.bpLeft] \o Parser!Leaves[p.bpRight]
           /\ Parser!Value[p] = Parser!RuleEstimate(p.bpLeft.NT, p.bpRight.NT)
                                  + Parser!Value[p.bpLeft] + Parser!Value[p.bpRight]
      BY <3>6, <3>12, ReadingIs
    <3>14. Parser!Leaves[p] = Row(s[1], k) \o Row(k + 1, s[2])
      BY <3>4, <3>5, <3>11, <3>13
    <3>15. Parser!Leaves[p] = Row(s[1], s[2])
      BY <3>3, <3>14, RowsJoin
    <3>16. Parser!HashesDiffer => Parser!Value[p] = p.value
      BY <3>5, <3>11, <3>12, <3>13, <3>9
    <3>17. QED
      BY <3>1, <3>15, <3>16 DEF p
  <2> HIDE DEF Fine, Has
  <2>3. ASSUME NEW s \in Spans, Has(s), s[2] - s[1] <= m + 1 PROVE Fine(s)
    BY <1>2, <2>2, <2>3
  <2>4. m + 1 \in Nat
    BY <2>1
  <2>5. QED
    BY <2>3, <2>4
<1>5. N = Nat
  <2>1. N \in SUBSET Nat
    OBVIOUS
  <2> HIDE DEF N
  <2>2. QED
    BY <1>3, <1>4, <2>1, Induction
<1>6. ASSUME NEW s \in Spans, Has(s) PROVE Fine(s)
  <2>1. s[2] - s[1] \in Nat /\ s[2] - s[1] <= s[2] - s[1]
    BY <1>1, <1>6
  <2>2. s[2] - s[1] \in N
    BY <1>5, <2>1
  <2> HIDE DEF Fine, Has
  <2>3. QED
    BY <1>6, <2>1, <2>2
<1>7. QED
  BY <1>6

\* The tree that is printed covers the sentence, and is the best if it can be told.
LEMMA TreeIsBest == ASSUME ChartInv PROVE Parser!TreeBest
<1> DEFINE s == <<0, input - 1, SBARQ>>
           root == table[Parser!getKey(0, input - 1, SBARQ)]
<1>1. SUFFICES ASSUME phase = "parsed"
               PROVE  LET told == Parser!HashesDiffer /\ Parser!Trees[s] # {}
                      IN /\ root.bpLeft # Parser!null \/ told =>
                              Parser!Leaves[root] = [k \in 1..input |-> k - 1]
                         /\ told => Parser!Value[root] = Parser!Best(0, input - 1, SBARQ)
  BY DEF Parser!TreeBest
<1>2. /\ SentenceFits /\ input \in Nat /\ input > 0 /\ Parser!MIN = -1000
      /\ SBARQ \in Parser!Nonterminals
  BY SentenceIs DEF ChartInv
<1>3. s \in Spans /\ s[1] = 0 /\ s[2] = input - 1 /\ s[3] = SBARQ
  BY <1>2 DEF Spans
<1>4. Key(s) \in DOMAIN table /\ root = table[Key(s)]
  BY <1>1 DEF ChartInv, Key
<1>5. BestOf(s) = Parser!Best(0, input - 1, SBARQ)
  BY DEF BestOf
<1> HIDE DEF s, root
<1>6. s[1] <= s[2]
  BY <1>2, <1>3
<1>7. PieFits(table, s)
  BY <1>3, <1>4, <1>6 DEF ChartInv, ChartFits
<1>8. Row(0, input - 1) = [k \in 1..input |-> k - 1]
  <2>1. (input - 1) - 0 + 1 = input /\ \A k \in 1..input : 0 + k - 1 = k - 1
    BY <1>2
  <2>2. QED
    BY <2>1 DEF Row
<1>9. root.value > Parser!MIN =>
        /\ Parser!Leaves[root] = [k \in 1..input |-> k - 1]
        /\ Parser!HashesDiffer => Parser!Value[root] = BestOf(s)
  BY <1>3, <1>4, <1>6, <1>8, TreeCovers
<1>10. ASSUME root.bpLeft # Parser!null PROVE root.value > Parser!MIN
  BY <1>3, <1>4, <1>6, <1>10, PointsToParts
<1>11. ASSUME Parser!HashesDiffer, Parser!Trees[s] # {}
       PROVE  root.value > Parser!MIN
  <2>1. BestOf(s) \in Parser!MIN..-1 /\ BestOf(s) # Parser!MIN
    BY <1>2, <1>3, <1>6, <1>11, BestIs
  <2>2. root.value = BestOf(s)
    BY <1>4, <1>7, <1>11 DEF PieFits
  <2>3. QED
    BY <1>2, <2>1, <2>2
<1>12. QED
  BY <1>5, <1>9, <1>10, <1>11

-----------------------------------------------------------------------------
(* The tagger.  Its table is known by the equations that its entries       *)
(* fulfil with those of the word before.                                   *)

\* The entries for the k-th word.
Level(k) == {k} \X (IF k = 1 THEN {"*"} ELSE Tagger!AllTags) \X Tagger!AllTags

\* What the logarithm of a value can be after k words.
Logs(k) == {v \in Int : v = Tagger!NegInfinity \/ v = Tagger!Lowest \/ (-3 * k <= v /\ v <= 0)}

\* The entries that an entry can come from.
Before(key) == {from \in Level(key[1] - 1) : from[3] = key[2]}

\* The value of an entry that comes from another.
Via(t, from, key) == Tagger!After(t[from].value, key[1], from[2], key[2], key[3])

\* An entry over a table has a value that it comes to, and none that it could come to
\* is greater.
EntryFits(e, t, key) ==
  /\ e.tag = key[3] /\ e.value \in Logs(key[1])
  /\ key[1] = 1 => e.value = Tagger!After(0, 1, "*", "*", key[3])
  /\ key[1] > 1 =>
       /\ e.backpointer \in Before(key)
       /\ e.value > Tagger!Lowest => e.value = Via(t, e.backpointer, key)
       /\ \A from \in Before(key) :
            Via(t, from, key) > Tagger!Lowest => Via(t, from, key) <= e.value

\* The entries on the way back from an entry, by word.
WayBack(p, t, key) ==
  /\ p \in [1..input -> DOMAIN t] /\ p[input] = key
  /\ \A k \in 1..input : p[k] \in Level(k) /\ (k > 1 => p[k - 1] = t[p[k]].backpointer)

\* The tags are those on the way back from the best of the last entries.
TracedBack ==
  (\E key \in Level(input) : Tagger!Stopped(key[2], key[3]) > Tagger!Lowest) =>
    \E key \in Level(input) :
      /\ \E p \in [1..input -> DOMAIN table] : /\ WayBack(p, table, key)
                                              /\ output = [k \in 1..input |-> table[p[k]].tag]
      /\ \A other \in Level(input) :
           Tagger!Stopped(other[2], other[3]) <= Tagger!Stopped(key[2], key[3])

\* The inductive invariant of the tagger: the table holds the words up to at, every entry
\* fits those of the word before it, and what has been returned was traced back.
TaggerInv ==
  /\ input \in 1..MaxWords /\ at \in 0..input /\ flag \in BOOLEAN
  /\ estimates \in [1..input -> [Tagger!AllTags -> {Tagger!NegInfinity, -1}]]
  /\ DOMAIN table = UNION {Level(k) : k \in 1..at}
  /\ \A key \in DOMAIN table : EntryFits(table[key], table, key)
  /\ output \in Seq(Tagger!AllTags)
  /\ flag => at = input /\ TracedBack

\* The tags, and their numbers.
LEMMA TagsAre ==
  /\ Tagger!AllTags = {"I-GENE", "O"}
  /\ Tagger!NegInfinity = -2000 /\ Tagger!Lowest = -1000 /\ Tagger!MIN_VALUE = 0
  /\ <<"I-GENE", "O">>[1] = "I-GENE" /\ <<"I-GENE", "O">>[2] = "O"
  /\ Len(<<"I-GENE", "O">>) = 2 /\ DOMAIN <<"I-GENE", "O">> = 1..2
  /\ "I-GENE" # "O" /\ "I-GENE" # "*" /\ "O" # "*"
<1>1. /\ <<"I-GENE", "O">>[1] = "I-GENE" /\ <<"I-GENE", "O">>[2] = "O"
      /\ Len(<<"I-GENE", "O">>) = 2 /\ DOMAIN <<"I-GENE", "O">> = 1..2
  OBVIOUS
<1>2. Tagger!AllTags = {<<"I-GENE", "O">>[1], <<"I-GENE", "O">>[2]}
  BY <1>1 DEF Tagger!AllTags, Tagger!Range
<1>3. QED
  BY <1>1, <1>2 DEF Tagger!NegInfinity, Tagger!Lowest, Tagger!MIN_VALUE

\* Pairs that share an element meet.
LEMMA Meeting ==
  \A p, q, a, b : (p = a \/ p = b \/ q = a \/ q = b) <=> {p, q} \cap {a, b} # {}
OBVIOUS

\* The sum of two logarithms.
LEMMA AddIs ==
  ASSUME NEW a \in Int, NEW b \in Int
  PROVE  /\ a = -2000 \/ b = -2000 => Tagger!Add(a, b) = -2000
         /\ a # -2000 /\ b # -2000 /\ (a = -1000 \/ b = -1000) => Tagger!Add(a, b) = -1000
         /\ a # -2000 /\ b # -2000 /\ a # -1000 /\ b # -1000 => Tagger!Add(a, b) = a + b
<1>0. Tagger!NegInfinity = -2000 /\ Tagger!Lowest = -1000
  BY TagsAre
<1>1. ASSUME a = -2000 \/ b = -2000 PROVE Tagger!Add(a, b) = -2000
  <2>1. /\ -2000 \in {a, b} /\ ~(-2000 \notin {a, b} /\ -1000 \in {a, b})
        /\ ~({-2000, -1000} \cap {a, b} = {})
    BY <1>1, Meeting
  <2>2. QED
    BY <1>0, <2>1 DEF Tagger!Add
<1>2. ASSUME a # -2000, b # -2000, a = -1000 \/ b = -1000 PROVE Tagger!Add(a, b) = -1000
  <2>1. /\ ~(-2000 \in {a, b}) /\ -2000 \notin {a, b} /\ -1000 \in {a, b}
        /\ ~({-2000, -1000} \cap {a, b} = {})
    BY <1>2, Meeting
  <2>2. QED
    BY <1>0, <2>1 DEF Tagger!Add
<1>3. ASSUME a # -2000, b # -2000, a # -1000, b # -1000 PROVE Tagger!Add(a, b) = a + b
  <2>1. /\ ~(-2000 \in {a, b}) /\ ~(-2000 \notin {a, b} /\ -1000 \in {a, b})
        /\ {-2000, -1000} \cap {a, b} = {}
    BY <1>3
  <2>2. QED
    BY <1>0, <2>1 DEF Tagger!Add
<1>4. QED
  BY <1>1, <1>2, <1>3

\* The sum of three.
LEMMA AddTwice ==
  \A x, g, e :
    /\ x \in Int /\ g \in Int /\ e \in Int /\ g # -1000 /\ e # -1000
    /\ x # -1000 /\ x # -2000 /\ g # -2000 => x + g # -1000 /\ x + g # -2000
    => Tagger!Add(Tagger!Add(x, g), e) =
         IF x = -2000 \/ g = -2000 \/ e = -2000 THEN -2000
         ELSE IF x = -1000 THEN -1000 ELSE x + g + e
<1> SUFFICES ASSUME NEW x \in Int, NEW g \in Int, NEW e \in Int, g # -1000, e # -1000,
                    x # -1000 /\ x # -2000 /\ g # -2000 => x + g # -1000 /\ x + g # -2000
             PROVE  Tagger!Add(Tagger!Add(x, g), e) =
                      IF x = -2000 \/ g = -2000 \/ e = -2000 THEN -2000
                      ELSE IF x = -1000 THEN -1000 ELSE x + g + e
  OBVIOUS
<1> DEFINE y == Tagger!Add(x, g)
<1>1. y = IF x = -2000 \/ g = -2000 THEN -2000 ELSE IF x = -1000 THEN -1000 ELSE x + g
  BY AddIs
<1>2. y \in Int /\ (y = -1000 <=> x = -1000 /\ g # -2000) /\ (y = -2000 <=> x = -2000 \/ g = -2000)
  BY <1>1
<1> HIDE DEF y
<1>3. Tagger!Add(y, e) = IF y = -2000 \/ e = -2000 THEN -2000
                         ELSE IF y = -1000 THEN -1000 ELSE y + e
  BY <1>2, AddIs
<1>4. QED
  BY <1>1, <1>2, <1>3 DEF y

\* The bound on the words keeps all sums above the numbers that stand for none.
LEMMA WordsFew ==
  ASSUME NEW n \in 1..MaxWords
  PROVE  n \in Nat /\ n > 0 /\ -3 * n > -998
<1>1. MaxWords \in Nat /\ 3 * MaxWords < 998
  BY LanguageAssumption, EstimatesAssumption DEF LanguageAssumption, EstimatesAssumption
<1>2. QED
  BY <1>1

\* One more word: its value is a logarithm again, it grows with the value before it,
\* and it is a sum if it stands for something.
LEMMA OneWordMore ==
  ASSUME NEW k \in 1..input, input \in 1..MaxWords,
         estimates \in [1..input -> [Tagger!AllTags -> {Tagger!NegInfinity, -1}]],
         NEW s, NEW u, NEW v \in Tagger!AllTags,
         NEW a \in Logs(k - 1), NEW b \in Logs(k - 1)
  PROVE  /\ Tagger!After(a, k, s, u, v) \in Logs(k)
         /\ a <= b => Tagger!After(a, k, s, u, v) <= Tagger!After(b, k, s, u, v)
         /\ Tagger!After(a, k, s, u, v) > Tagger!Lowest => a > Tagger!Lowest
<1> DEFINE g == Tagger!get3gramEstimate(s, u, v)
           e == estimates[k][v]
<1>1. g \in {0, -1, -2, -2000} /\ e \in {-2000, -1}
  BY TagsAre DEF Tagger!get3gramEstimate
<1>2. k \in Nat /\ k > 0 /\ -3 * k > -1000 /\ -3 * (k - 1) > -1000
  <2>1. k \in 1..MaxWords /\ k \in Nat /\ k > 0
    BY LanguageAssumption DEF LanguageAssumption
  <2>2. QED
    BY <2>1, WordsFew
<1>3. ASSUME NEW x \in Logs(k - 1)
      PROVE  /\ x \in Int /\ (x = -2000 \/ x = -1000 \/ (-3 * (k - 1) <= x /\ x <= 0))
             /\ Tagger!After(x, k, s, u, v) =
                  IF x = -2000 \/ g = -2000 \/ e = -2000 THEN -2000
                  ELSE IF x = -1000 THEN -1000 ELSE x + g + e
  <2>1. x \in Int /\ (x = -2000 \/ x = -1000 \/ (-3 * (k - 1) <= x /\ x <= 0))
    BY <1>3, TagsAre DEF Logs
  <2>2. Tagger!After(x, k, s, u, v) = Tagger!Add(Tagger!Add(x, g), e)
    BY DEF Tagger!After
  <2>3. g \in Int /\ e \in Int /\ g # -1000 /\ e # -1000
        /\ (x # -1000 /\ x # -2000 /\ g # -2000 => x + g # -1000 /\ x + g # -2000)
    BY <1>1, <1>2, <2>1
  <2> HIDE DEF g, e
  <2>4. QED
    BY <2>1, <2>2, <2>3, AddTwice
<1> HIDE DEF g, e
<1>4. ASSUME NEW x \in Logs(k - 1)
      PROVE  /\ Tagger!After(x, k, s, u, v) \in Logs(k)
             /\ Tagger!After(x, k, s, u, v) > Tagger!Lowest => x > Tagger!Lowest
  BY <1>1, <1>2, <1>3, TagsAre DEF Logs
<1>5. a <= b => Tagger!After(a, k, s, u, v) <= Tagger!After(b, k, s, u, v)
  BY <1>1, <1>2, <1>3
<1>6. QED
  BY <1>4, <1>5
\* The parts of a key.
LEMMA LevelIs ==
  ASSUME NEW k \in Nat, NEW key \in Level(k)
  PROVE  /\ key = <<k, key[2], key[3]>> /\ key[1] = k /\ key[3] \in Tagger!AllTags
         /\ k = 1 => key[2] = "*"
         /\ k # 1 => key[2] \in Tagger!AllTags
BY DEF Level

\* The keys of the entries before.
LEMMA BeforeIs ==
  ASSUME NEW k \in Nat, k > 1, NEW key \in Level(k)
  PROVE  /\ k - 1 \in Nat /\ k - 1 > 0 /\ Before(key) \subseteq Level(k - 1)
         /\ \A from \in Before(key) : from = <<k - 1, from[2], key[2]>>
         /\ k = 2 => Before(key) = {<<1, "*", key[2]>>}
         /\ k > 2 => Before(key) = {<<k - 1, s, key[2]>> : s \in Tagger!AllTags}
<1>1. key[1] = k /\ key[2] \in Tagger!AllTags /\ k - 1 \in Nat /\ k - 1 > 0
  BY LevelIs
<1>2. Before(key) = {from \in Level(k - 1) : from[3] = key[2]}
  BY <1>1 DEF Before
<1>3. CASE k = 2
  <2>1. Level(k - 1) = {1} \X {"*"} \X Tagger!AllTags
    BY <1>3 DEF Level
  <2>2. QED
    BY <1>1, <1>2, <1>3, <2>1
<1>4. CASE k > 2
  <2>1. Level(k - 1) = {k - 1} \X Tagger!AllTags \X Tagger!AllTags
    BY <1>4 DEF Level
  <2>2. QED
    BY <1>1, <1>2, <1>4, <2>1
<1>5. QED
  BY <1>1, <1>3, <1>4

\* What the loops over tags keep.
LEMMA WinnersAre ==
  ASSUME NEW n \in Nat \ {0}, NEW f, DOMAIN f = 1..n, \A x \in 1..n : f[x] \in Int
  PROVE  /\ \A w \in Tagger!Winners(f) :
              w \in 1..n /\ f[w] >= Tagger!Lowest /\ \A y \in 1..n : f[y] <= f[w]
         /\ (\E x \in 1..n : f[x] >= Tagger!Lowest) => Tagger!Winners(f) # {}
<1>1. PICK x \in 1..n : \A y \in 1..n : f[y] <= f[x] /\ (y > x => f[y] < f[x])
  BY LastGreatest
<1>2. ASSUME NEW z \in 1..n, f[z] >= Tagger!Lowest PROVE x \in Tagger!Winners(f)
  <2>1. f[z] <= f[x] /\ f[z] \in Int /\ f[x] \in Int
    BY <1>1
  <2>2. f[x] >= Tagger!Lowest
    BY <1>2, <2>1, TagsAre
  <2>3. QED
    BY <1>1, <2>2 DEF Tagger!Winners
<1>3. QED
  BY <1>2 DEF Tagger!Winners

\* An entry of the table is filled from those before it.
LEMMA ViaIs ==
  ASSUME TaggerInv, NEW k \in 1..input, k > 1, k - 1 <= at, NEW key \in Level(k),
         NEW from \in Before(key)
  PROVE  /\ from \in DOMAIN table /\ table[from].value \in Logs(k - 1)
         /\ Via(table, from, key) \in Logs(k)
         /\ Via(table, from, key) > Tagger!Lowest => table[from].value > Tagger!Lowest
         /\ Via(table, from, key) = Tagger!After(table[from].value, k, from[2], key[2], key[3])
<1>1. k \in Nat /\ input \in 1..MaxWords /\ k - 1 \in 1..at
      /\ estimates \in [1..input -> [Tagger!AllTags -> {Tagger!NegInfinity, -1}]]
  BY LanguageAssumption DEF LanguageAssumption, TaggerInv
<1>2. k - 1 \in Nat /\ from \in Level(k - 1) /\ key[1] = k /\ key[3] \in Tagger!AllTags
  BY <1>1, BeforeIs, LevelIs
<1>3. from \in DOMAIN table
  BY <1>1, <1>2 DEF TaggerInv
<1>4. table[from].value \in Logs(k - 1)
  <2>1. from[1] = k - 1
    BY <1>2, LevelIs
  <2>2. EntryFits(table[from], table, from)
    BY <1>3 DEF TaggerInv
  <2>3. QED
    BY <2>1, <2>2 DEF EntryFits
<1>5. Via(table, from, key) = Tagger!After(table[from].value, k, from[2], key[2], key[3])
  BY <1>2 DEF Via
<1>6. QED
  BY <1>1, <1>2, <1>3, <1>4, <1>5, OneWordMore

\* A new entry fits.
LEMMA FirstEntryFits ==
  ASSUME TaggerInv, at < input, NEW key \in Level(1)
  PROVE  EntryFits(Tagger!Entry(key[1], key[2], key[3]), table, key)
<1> DEFINE e == Tagger!Entry(key[1], key[2], key[3])
           a == Tagger!After(0, 1, "*", "*", key[3])
<1>1. key[1] = 1 /\ key[3] \in Tagger!AllTags
  BY LevelIs
<1>2. e = Tagger!PIE(key[3], a, Tagger!null)
  BY <1>1 DEF Tagger!Entry
<1>3. e.tag = key[3] /\ e.value = a
  BY <1>2 DEF Tagger!PIE
<1>4. a \in Logs(1)
  <2>1. 1 \in 1..input /\ input \in 1..MaxWords
        /\ estimates \in [1..input -> [Tagger!AllTags -> {Tagger!NegInfinity, -1}]]
    BY LanguageAssumption DEF LanguageAssumption, TaggerInv
  <2>2. 0 \in Logs(1 - 1)
    BY DEF Logs
  <2>3. QED
    BY <1>1, <2>1, <2>2, OneWordMore
<1> HIDE DEF e, a
<1>5. EntryFits(e, table, key)
  BY <1>1, <1>3, <1>4 DEF EntryFits, a
<1>6. QED
  BY <1>5 DEF e

\* The entries for the second word: they come from one entry.
LEMMA SecondEntryFits ==
  ASSUME TaggerInv, at = 1, at < input, NEW key \in Level(2)
  PROVE  EntryFits(Tagger!Entry(key[1], key[2], key[3]), table, key)
<1> DEFINE e == Tagger!Entry(key[1], key[2], key[3])
           from == <<1, "*", key[2]>>
           a == Tagger!After(table[from].value, 2, "*", key[2], key[3])
<1>1. key[1] = 2 /\ Before(key) = {from}
  BY LevelIs, BeforeIs
<1>2. e = Tagger!PIE(key[3], a, from)
  BY <1>1 DEF Tagger!Entry
<1>3. e.tag = key[3] /\ e.value = a /\ e.backpointer = from
  BY <1>2 DEF Tagger!PIE
<1>4. Via(table, from, key) \in Logs(2) /\ Via(table, from, key) = a
  <2>1. 2 \in 1..input /\ 2 - 1 <= at /\ from \in Before(key) /\ from[2] = "*"
    BY <1>1 DEF TaggerInv
  <2>2. QED
    BY <2>1, ViaIs
<1> HIDE DEF e, a, from
<1>5. EntryFits(e, table, key)
  <2>1. a \in Int /\ a <= a
    BY <1>4 DEF Logs
  <2>2. QED
    BY <1>1, <1>3, <1>4, <2>1 DEF EntryFits
<1>6. QED
  BY <1>5 DEF e

\* The entries for the words after the second: they come from the better of two.
LEMMA LaterEntryFits ==
  ASSUME TaggerInv, at > 1, at < input, NEW key \in Level(at + 1)
  PROVE  EntryFits(Tagger!Entry(key[1], key[2], key[3]), table, key)
<1> DEFINE k == at + 1
           T == <<"I-GENE", "O">>
           e == Tagger!Entry(key[1], key[2], key[3])
           f == Tagger!Through(k, key[2], key[3])
           from(x) == <<k - 1, T[x], key[2]>>
           W == Tagger!Winners(f)
           x == IF W = {} THEN 1 ELSE CHOOSE w \in W : TRUE
           a == IF W = {} THEN Tagger!Lowest ELSE f[x]
<1>1. k \in 1..input /\ k \in Nat /\ k > 2 /\ k - 1 = at /\ key \in Level(k)
  BY DEF TaggerInv
<1> HIDE DEF k
<1>2. key[1] = k /\ Before(key) = {<<k - 1, s, key[2]>> : s \in Tagger!AllTags}
  BY <1>1, LevelIs, BeforeIs
<1>3. Tagger!AllTags = {T[1], T[2]} /\ DOMAIN T = 1..2
  BY TagsAre
<1>4. \A y \in 1..2 : from(y) \in Before(key)
  BY <1>2, <1>3
<1>5. Before(key) = {from(y) : y \in 1..2}
  <2>1. \A s \in Tagger!AllTags : \E y \in 1..2 : T[y] = s
    BY <1>3
  <2>2. \A b \in Before(key) : \E y \in 1..2 : b = from(y)
    BY <1>2, <2>1
  <2>3. QED
    BY <1>4, <2>2
<1>6. DOMAIN f = 1..2 /\ \A y \in 1..2 : f[y] = Via(table, from(y), key) /\ f[y] \in Logs(k)
  <2>1. DOMAIN f = 1..2
    BY <1>3 DEF Tagger!Through
  <2>2. ASSUME NEW y \in 1..2 PROVE f[y] = Via(table, from(y), key) /\ f[y] \in Logs(k)
    <3>1. f[y] = Tagger!After(table[from(y)].value, k, T[y], key[2], key[3])
      BY <1>3 DEF Tagger!Through
    <3>2. from(y)[2] = T[y]
      OBVIOUS
    <3> HIDE DEF from, f
    <3>3. from(y) \in Before(key)
      BY <1>4
    <3>4. k - 1 <= at
      BY <1>1
    <3>5. QED
      BY <1>1, <3>1, <3>2, <3>3, <3>4, ViaIs
  <2>3. QED
    BY <2>1, <2>2
<1>7. e = Tagger!PIE(key[3], a, from(x))
  BY <1>1, <1>2 DEF Tagger!Entry
<1>8. e.tag = key[3] /\ e.value = a /\ e.backpointer = from(x)
  BY <1>7 DEF Tagger!PIE
<1> HIDE DEF e, f, T, from
<1>9. \A y \in 1..2 : f[y] \in Int
  BY <1>6 DEF Logs
<1>10. /\ \A w \in W : w \in 1..2 /\ \A y \in 1..2 : f[y] <= f[w]
       /\ (\E y \in 1..2 : f[y] >= Tagger!Lowest) => W # {}
  <2>1. 2 \in Nat \ {0} /\ DOMAIN f = 1..2
    BY <1>6
  <2>2. QED
    BY <1>9, <2>1, WinnersAre
<1> HIDE DEF W
<1>11. EntryFits(e, table, key)
  <2>1. CASE W = {}
    <3>1. x = 1 /\ a = Tagger!Lowest
      BY <2>1
    <3> HIDE DEF a, x
    <3>2. a \in Logs(k) /\ ~(a > Tagger!Lowest)
      BY <3>1, TagsAre DEF Logs
    <3>3. from(x) \in Before(key)
      BY <1>4, <3>1
    <3>4. \A y \in 1..2 : ~(f[y] > Tagger!Lowest)
      BY <1>9, <1>10, <2>1, TagsAre
    <3>5. \A b \in Before(key) : ~(Via(table, b, key) > Tagger!Lowest)
      BY <1>5, <1>6, <3>4
    <3>6. QED
      BY <1>1, <1>2, <1>8, <3>2, <3>3, <3>5 DEF EntryFits
  <2>2. CASE W # {}
    <3>1. x \in W /\ a = f[x]
      BY <2>2
    <3> HIDE DEF a, x
    <3>2. x \in 1..2 /\ \A y \in 1..2 : f[y] <= f[x]
      BY <1>10, <3>1
    <3>3. from(x) \in Before(key) /\ a \in Logs(k) /\ a = Via(table, from(x), key)
      BY <1>4, <1>6, <3>1, <3>2
    <3>4. \A b \in Before(key) : Via(table, b, key) <= a
      BY <1>5, <1>6, <3>1, <3>2
    <3>5. QED
      BY <1>1, <1>2, <1>8, <3>3, <3>4 DEF EntryFits
  <2>3. QED
    BY <2>1, <2>2
<1>12. QED
  BY <1>11 DEF e

\* The table is empty at first,
LEMMA TaggerStarts == ASSUME Tagger!Init PROVE TaggerInv
<1>1. /\ input \in 1..MaxWords /\ at = 0 /\ table = <<>> /\ flag = FALSE /\ output = <<>>
      /\ estimates \in [1..input -> [Tagger!AllTags -> {Tagger!NegInfinity, -1}]]
  BY DEF Tagger!Init
<1>2. at \in 0..input
  BY <1>1, WordsFew
<1>3. DOMAIN table = {} /\ UNION {Level(k) : k \in 1..at} = {}
  BY <1>1
<1>4. output \in Seq(Tagger!AllTags)
  BY <1>1
<1>5. QED
  BY <1>1, <1>2, <1>3, <1>4 DEF TaggerInv

\* and grows by what fits.
LEMMA TaggerFills == ASSUME TaggerInv, Tagger!Fill PROVE TaggerInv'
<1> DEFINE k == at + 1
           keys == Level(k)
           New(key) == Tagger!Entry(key[1], key[2], key[3])
<1>1. /\ at < input /\ at' = k /\ UNCHANGED <<input, model, estimates, flag, output>>
      /\ table' = [key \in DOMAIN table \cup keys |-> IF key \in keys THEN New(key) ELSE table[key]]
  <2>1. at < input /\ at' = k /\ UNCHANGED <<input, model, estimates, flag, output>>
    BY DEF Tagger!Fill
  <2>2. {at'} \X (IF at = 0 THEN {"*"} ELSE Tagger!AllTags) \X Tagger!AllTags = keys
    BY <2>1 DEF Level, TaggerInv
  <2>3. QED
    BY <2>1, <2>2 DEF Tagger!Fill
<1>2. at \in Nat /\ k \in 1..input /\ k \in Nat /\ input \in Nat
  BY <1>1, LanguageAssumption DEF TaggerInv, LanguageAssumption
<1>3. ASSUME NEW key \in keys PROVE EntryFits(New(key), table, key) /\ key \notin DOMAIN table
  <2>1. key \notin DOMAIN table
    <3>1. ASSUME NEW j \in 1..at, key \in Level(j) PROVE FALSE
      BY <1>2, <1>3, <3>1, LevelIs
    <3>2. QED
      BY <3>1 DEF TaggerInv
  <2>2. CASE at = 0
    <3>1. key \in Level(1)
      BY <1>3, <2>2
    <3>2. EntryFits(New(key), table, key)
      BY <1>1, <3>1, FirstEntryFits
    <3>3. QED
      BY <2>1, <3>2
  <2>3. CASE at = 1
    <3>1. key \in Level(2)
      BY <1>3, <2>3
    <3>2. EntryFits(New(key), table, key)
      BY <1>1, <2>3, <3>1, SecondEntryFits
    <3>3. QED
      BY <2>1, <3>2
  <2>4. CASE at > 1
    <3>1. EntryFits(New(key), table, key)
      BY <1>1, <1>3, <2>4, LaterEntryFits
    <3>2. QED
      BY <2>1, <3>1
  <2>5. QED
    BY <1>2, <2>1, <2>2, <2>3, <2>4
<1> HIDE DEF New
<1>4. DOMAIN table' = DOMAIN table \cup keys
  BY <1>1
<1>5. DOMAIN table' = UNION {Level(j) : j \in 1..at'}
  <2>1. DOMAIN table = UNION {Level(j) : j \in 1..at}
    BY DEF TaggerInv
  <2>2. 1..at' = (1..at) \cup {k}
    BY <1>1, <1>2
  <2> HIDE DEF k
  <2>3. QED
    BY <1>4, <2>1, <2>2
<1>6. ASSUME NEW key \in DOMAIN table'
      PROVE  /\ EntryFits(table'[key], table, key)
             /\ key[1] > 1 => Before(key) \subseteq DOMAIN table
  <2>1. PICK j \in 1..k : key \in Level(j)
    BY <1>1, <1>5
  <2>2. EntryFits(table'[key], table, key)
    <3>1. CASE key \in keys
      BY <1>1, <1>3, <3>1
    <3>2. CASE key \notin keys
      BY <1>1, <1>4, <3>2 DEF TaggerInv
    <3>3. QED
      BY <3>1, <3>2
  <2>3. ASSUME key[1] > 1 PROVE Before(key) \subseteq DOMAIN table
    <3>1. j \in Nat /\ j > 1 /\ j - 1 \in 1..at
      BY <1>2, <2>1, <2>3, LevelIs
    <3>2. Before(key) \subseteq Level(j - 1)
      BY <2>1, <3>1, BeforeIs
    <3>3. QED
      BY <3>1, <3>2 DEF TaggerInv
  <2>4. QED
    BY <2>2, <2>3
<1>7. \A from \in DOMAIN table : table'[from] = table[from]
  BY <1>1, <1>3
<1>8. \A a, m, s, u, v : Tagger!After(a, m, s, u, v)' = Tagger!After(a, m, s, u, v)
  BY <1>1 DEF Tagger!After, Tagger!get3gramEstimate
<1>9. ASSUME NEW key \in DOMAIN table' PROVE EntryFits(table[key], table, key)'
  <2>1. \A from \in Before(key) : key[1] > 1 => Via(table, from, key)' = Via(table, from, key)
    BY <1>6, <1>7, <1>8 DEF Via
  <2>2. key[1] > 1 => table'[key].backpointer \in Before(key)
    BY <1>6 DEF EntryFits
  <2>3. key[1] = 1 => table'[key].value = Tagger!After(0, 1, "*", "*", key[3])'
    BY <1>6, <1>8 DEF EntryFits
  <2>4. QED
    BY <1>6, <2>1, <2>2, <2>3 DEF EntryFits
<1>10. flag' => FALSE
  BY <1>1 DEF TaggerInv
<1>11. QED
  <2>1. /\ input' \in 1..MaxWords /\ at' \in 0..input' /\ flag' \in BOOLEAN
        /\ estimates' \in [1..input' -> [Tagger!AllTags -> {Tagger!NegInfinity, -1}]]
        /\ output' \in Seq(Tagger!AllTags)
    BY <1>1, <1>2 DEF TaggerInv
  <2> HIDE DEF k, keys
  <2>2. QED
    BY <1>5, <1>9, <1>10, <2>1 DEF TaggerInv

\* The recursion of traceResult, over n words.
Chain(w, t, key, n) == w = [k \in 1..n |-> IF k = 1 THEN key ELSE t[w[k - 1]].backpointer]

\* There is such a way of any length.
LEMMA ChainExists ==
  ASSUME NEW t, NEW key
  PROVE  \A n \in Nat : \E w : Chain(w, t, key, n)
<1> DEFINE N == {n \in Nat : \E w : Chain(w, t, key, n)}
<1>1. 0 \in N
  <2> DEFINE w == [k \in 1..0 |-> key]
  <2>1. w = [k \in 1..0 |-> IF k = 1 THEN key ELSE t[w[k - 1]].backpointer]
    OBVIOUS
  <2> HIDE DEF w
  <2>2. Chain(w, t, key, 0)
    BY <2>1 DEF Chain
  <2>3. QED
    BY <2>2
<1>2. ASSUME NEW n \in N PROVE n + 1 \in N
  <2>1. n \in Nat /\ n + 1 \in Nat
    OBVIOUS
  <2>2. PICK w : Chain(w, t, key, n)
    OBVIOUS
  <2> DEFINE v == [k \in 1..(n + 1) |-> IF k <= n THEN w[k]
                                         ELSE IF k = 1 THEN key ELSE t[w[k - 1]].backpointer]
  <2>3. \A k \in 1..n : w[k] = IF k = 1 THEN key ELSE t[w[k - 1]].backpointer
    BY <2>2 DEF Chain
  <2>4. \A k \in 1..(n + 1) : v[k] = IF k = 1 THEN key ELSE t[v[k - 1]].backpointer
    <3>1. \A k \in 1..(n + 1) : k # 1 => v[k - 1] = w[k - 1]
      BY <2>1
    <3>2. QED
      BY <2>1, <2>3, <3>1
  <2>5. v = [k \in 1..(n + 1) |-> v[k]]
    OBVIOUS
  <2> HIDE DEF v
  <2>6. Chain(v, t, key, n + 1)
    BY <2>4, <2>5 DEF Chain
  <2>7. QED
    BY <2>1, <2>6
<1>3. N = Nat
  <2>1. N \in SUBSET Nat
    OBVIOUS
  <2> HIDE DEF N
  <2>2. QED
    BY <1>1, <1>2, <2>1, Induction
<1>4. QED
  BY <1>3

\* So what is traced back are tags.
LEMMA TracedIs ==
  ASSUME TaggerInv, at = input, NEW key \in Level(input)
  PROVE  \E p \in [1..input -> DOMAIN table] :
           /\ WayBack(p, table, key)
           /\ Tagger!TagsTo(key) = [k \in 1..input |-> table[p[k]].tag]
<1>1. input \in Nat /\ input > 0 /\ DOMAIN table = UNION {Level(k) : k \in 1..input}
  BY LanguageAssumption DEF TaggerInv, LanguageAssumption
<1> DEFINE w == CHOOSE v : Chain(v, table, key, input)
<1>2. Chain(w, table, key, input)
  BY <1>1, ChainExists
<1>3. Tagger!TagsTo(key) = [k \in 1..input |-> table[w[input + 1 - k]].tag]
  BY DEF Tagger!TagsTo, Chain
<1> HIDE DEF w
<1>4. \A k \in 1..input : w[k] = IF k = 1 THEN key ELSE table[w[k - 1]].backpointer
  BY <1>2 DEF Chain
<1> DEFINE S == {k \in Nat \ {0} : k <= input => w[k] \in Level(input + 1 - k)}
<1>5. 1 \in S
  <2>1. 1 \in 1..input /\ input + 1 - 1 = input
    BY <1>1
  <2>2. w[1] = key
    BY <1>4, <2>1
  <2>3. QED
    BY <2>1, <2>2
<1>6. ASSUME NEW k \in Nat \ {0}, k \in S PROVE k + 1 \in S
  <2>1. SUFFICES ASSUME k + 1 <= input PROVE w[k + 1] \in Level(input + 1 - (k + 1))
    OBVIOUS
  <2> DEFINE j == input + 1 - k
  <2>2. k + 1 \in 1..input /\ (k + 1) - 1 = k /\ k + 1 # 1 /\ j \in Nat /\ j > 1 /\ j \in 1..input
        /\ input + 1 - (k + 1) = j - 1 /\ k <= input
    BY <1>1, <2>1
  <2>3. w[k + 1] = table[w[k]].backpointer
    BY <1>4, <2>2
  <2>4. w[k] \in Level(j)
    BY <1>6, <2>2
  <2> HIDE DEF j, S
  <2>5. w[k] \in DOMAIN table /\ w[k][1] = j
    BY <1>1, <2>2, <2>4, LevelIs
  <2>6. EntryFits(table[w[k]], table, w[k])
    BY <2>5 DEF TaggerInv
  <2>7. table[w[k]].backpointer \in Before(w[k])
    BY <2>2, <2>5, <2>6 DEF EntryFits
  <2>8. Before(w[k]) \subseteq Level(j - 1)
    BY <2>2, <2>4, BeforeIs
  <2>9. QED
    BY <2>2, <2>3, <2>7, <2>8
<1>7. \A k \in Nat \ {0} : k \in S
  <2> HIDE DEF S
  <2>1. QED
    BY <1>5, <1>6, InductionFrom1
<1> DEFINE p == [k \in 1..input |-> w[input + 1 - k]]
<1>8. \A k \in 1..input : /\ input + 1 - k \in 1..input /\ input + 1 - (input + 1 - k) = k
                          /\ input + 1 - k \in Nat \ {0} /\ input + 1 - k <= input
  BY <1>1
<1>9. \A k \in 1..input : p[k] \in Level(k)
  BY <1>7, <1>8
<1>10. p \in [1..input -> DOMAIN table]
  <2>1. \A k \in 1..input : p[k] \in DOMAIN table
    BY <1>1, <1>9
  <2>2. p = [k \in 1..input |-> p[k]]
    OBVIOUS
  <2> HIDE DEF p
  <2>3. QED
    BY <2>1, <2>2
<1>11. p[input] = key
  <2>1. input \in 1..input /\ input + 1 - input = 1 /\ 1 \in 1..input
    BY <1>1
  <2>2. w[1] = key
    BY <1>4, <2>1
  <2>3. QED
    BY <2>1, <2>2
<1>12. ASSUME NEW k \in 1..input, k > 1 PROVE p[k - 1] = table[p[k]].backpointer
  <2> DEFINE m == input + 1 - (k - 1)
  <2>1. /\ k - 1 \in 1..input /\ m \in 1..input /\ m # 1 /\ m - 1 = input + 1 - k
    BY <1>1, <1>12
  <2>2. p[k - 1] = w[m] /\ p[k] = w[m - 1]
    BY <2>1
  <2> HIDE DEF m, p
  <2>3. QED
    BY <1>4, <2>1, <2>2
<1>13. Tagger!TagsTo(key) = [k \in 1..input |-> table[p[k]].tag]
  BY <1>3
<1> HIDE DEF p
<1>14. WayBack(p, table, key)
  BY <1>9, <1>10, <1>11, <1>12 DEF WayBack
<1>15. QED
  BY <1>10, <1>13, <1>14

\* The sum of two, for any numbers.
LEMMA AddOnce ==
  \A x, g : x \in Int /\ g \in Int /\ g # -1000
           => Tagger!Add(x, g) = IF x = -2000 \/ g = -2000 THEN -2000
                                 ELSE IF x = -1000 THEN -1000 ELSE x + g
<1> SUFFICES ASSUME NEW x \in Int, NEW g \in Int, g # -1000
             PROVE  Tagger!Add(x, g) = IF x = -2000 \/ g = -2000 THEN -2000
                                       ELSE IF x = -1000 THEN -1000 ELSE x + g
  OBVIOUS
<1>1. QED
  BY AddIs

\* What the table is made of stays.
LEMMA TableStays ==
  ASSUME TaggerInv, UNCHANGED <<input, model, estimates, at, table>>
  PROVE  \A key \in DOMAIN table' : EntryFits(table[key], table, key)'
<1>1. \A a, m, s, u, v : Tagger!After(a, m, s, u, v)' = Tagger!After(a, m, s, u, v)
  BY DEF Tagger!After, Tagger!get3gramEstimate
<1>2. ASSUME NEW key \in DOMAIN table' PROVE EntryFits(table[key], table, key)'
  <2>1. EntryFits(table[key], table, key)
    BY <1>2 DEF TaggerInv
  <2>2. \A from \in Before(key) : Via(table, from, key)' = Via(table, from, key)
    BY <1>1 DEF Via
  <2>3. QED
    BY <1>1, <2>1, <2>2 DEF EntryFits
<1>3. QED
  BY <1>2

\* The end of the sentence: the value is a number, it grows with the one before it, and
\* it stands for something only if that does.
LEMMA StopIs ==
  ASSUME NEW k \in 1..MaxWords, NEW s, NEW u, NEW v,
         NEW a \in Logs(k), NEW b \in Logs(k)
  PROVE  LET Stop(x) == Tagger!Add(x, Tagger!get3gramEstimate(s, u, v))
         IN  /\ Stop(a) \in Int
             /\ a <= b => Stop(a) <= Stop(b)
             /\ Stop(a) > Tagger!Lowest => a > Tagger!Lowest
<1> DEFINE g == Tagger!get3gramEstimate(s, u, v)
<1>1. g \in {0, -1, -2, -2000} /\ g \in Int /\ g # -1000
  BY TagsAre DEF Tagger!get3gramEstimate
<1>2. k \in Nat /\ k > 0 /\ -3 * k > -998
  BY WordsFew
<1> HIDE DEF g
<1>3. ASSUME NEW x \in Logs(k)
      PROVE  /\ x \in Int /\ (x = -2000 \/ x = -1000 \/ (-3 * k <= x /\ x <= 0))
             /\ Tagger!Add(x, g) = IF x = -2000 \/ g = -2000 THEN -2000
                                   ELSE IF x = -1000 THEN -1000 ELSE x + g
  <2>1. x \in Int /\ (x = -2000 \/ x = -1000 \/ (-3 * k <= x /\ x <= 0))
    BY TagsAre DEF Logs
  <2>2. QED
    BY <1>1, <2>1, AddOnce
<1>4. /\ Tagger!Add(a, g) \in Int
      /\ a <= b => Tagger!Add(a, g) <= Tagger!Add(b, g)
      /\ Tagger!Add(a, g) > -1000 => a > -1000
  <2>1. /\ a \in Int /\ (a = -2000 \/ a = -1000 \/ (-3 * k <= a /\ a <= 0))
        /\ Tagger!Add(a, g) = IF a = -2000 \/ g = -2000 THEN -2000
                              ELSE IF a = -1000 THEN -1000 ELSE a + g
    BY <1>3
  <2>2. /\ b \in Int /\ (b = -2000 \/ b = -1000 \/ (-3 * k <= b /\ b <= 0))
        /\ Tagger!Add(b, g) = IF b = -2000 \/ g = -2000 THEN -2000
                              ELSE IF b = -1000 THEN -1000 ELSE b + g
    BY <1>3
  <2>3. g \in {0, -1, -2, -2000} /\ -3 * k \in Int /\ -3 * k > -998
    BY <1>1, <1>2
  <2>4. g = -2000 \/ (g \in Int /\ -2 <= g /\ g <= 0)
    BY <2>3
  <2>5. QED
    BY <2>1, <2>2, <2>3, <2>4
<1>5. QED
  BY <1>4, TagsAre DEF g

\* The value of a whole sentence by its last entry.
LEMMA StoppedIs ==
  ASSUME TaggerInv, at = input, NEW key \in Level(input)
  PROVE  Tagger!Stopped(key[2], key[3]) \in Int
<1>1. input \in 1..MaxWords /\ input \in Nat /\ input \in 1..input
      /\ DOMAIN table = UNION {Level(k) : k \in 1..input}
  BY WordsFew DEF TaggerInv
<1>2. key \in DOMAIN table /\ key[1] = input /\ key = <<input, key[2], key[3]>>
  BY <1>1, LevelIs
<1>3. table[key].value \in Logs(input)
  BY <1>2 DEF TaggerInv, EntryFits
<1>4. table[<<input, key[2], key[3]>>].value \in Logs(input)
  BY <1>2, <1>3
<1>5. QED
  BY <1>1, <1>4, StopIs DEF Tagger!Stopped

\* The tags come from the best of the last entries.
LEMMA TaggerTags == ASSUME TaggerInv, Tagger!Tag PROVE TaggerInv'
<1> DEFINE Tags == <<"I-GENE", "O">>
           T == Len(Tags)
           u(x) == IF input = 1 THEN "*" ELSE Tags[((x - 1) \div T) + 1]
           v(x) == Tags[((x - 1) % T) + 1]
           f == [x \in 1..(T * T) |-> Tagger!Stopped(u(x), v(x))]
           W == Tagger!Winners(f)
           best == CHOOSE w \in W : TRUE
           Last(x) == <<input, u(x), v(x)>>
<1>1. /\ at = input /\ flag' = TRUE /\ UNCHANGED <<input, model, estimates, at, table>>
      /\ output' = IF W = {} THEN <<>> ELSE Tagger!TagsTo(Last(best))
  BY DEF Tagger!Tag
<1>2. input \in 1..MaxWords /\ input \in Nat /\ input > 0
      /\ DOMAIN table = UNION {Level(k) : k \in 1..input} /\ input \in 1..input
  BY <1>1, WordsFew DEF TaggerInv
<1>3. T * T = 4 /\ 1..(T * T) = {1, 2, 3, 4}
  BY TagsAre
<1>4. /\ v(1) = Tags[1] /\ v(2) = Tags[2] /\ v(3) = Tags[1] /\ v(4) = Tags[2]
      /\ input # 1 => u(1) = Tags[1] /\ u(2) = Tags[1] /\ u(3) = Tags[2] /\ u(4) = Tags[2]
      /\ input = 1 => u(1) = "*" /\ u(2) = "*" /\ u(3) = "*" /\ u(4) = "*"
  <2>1. T = 2
    BY TagsAre
  <2>2. /\ (1 - 1) % 2 = 0 /\ (2 - 1) % 2 = 1 /\ (3 - 1) % 2 = 0 /\ (4 - 1) % 2 = 1
        /\ (1 - 1) \div 2 = 0 /\ (2 - 1) \div 2 = 0 /\ (3 - 1) \div 2 = 1 /\ (4 - 1) \div 2 = 1
    OBVIOUS
  <2> HIDE DEF T, Tags
  <2>3. QED
    BY <2>1, <2>2
<1>5. Tagger!AllTags = {Tags[1], Tags[2]}
  BY TagsAre
<1> HIDE DEF u, v, T, Tags
<1>6. \A x \in {1, 2, 3, 4} : Last(x) \in Level(input)
  <2>1. \A x \in {1, 2, 3, 4} : v(x) \in Tagger!AllTags
    BY <1>4, <1>5
  <2>2. \A x \in {1, 2, 3, 4} : u(x) \in (IF input = 1 THEN {"*"} ELSE Tagger!AllTags)
    BY <1>4, <1>5
  <2>3. QED
    BY <2>1, <2>2 DEF Level
<1>7. \A key \in Level(input) : \E x \in {1, 2, 3, 4} : key[2] = u(x) /\ key[3] = v(x)
  <2>1. SUFFICES ASSUME NEW key \in Level(input)
                 PROVE  \E x \in {1, 2, 3, 4} : key[2] = u(x) /\ key[3] = v(x)
    OBVIOUS
  <2>2. /\ key[3] \in {Tags[1], Tags[2]} /\ (input = 1 => key[2] = "*")
        /\ input # 1 => key[2] \in {Tags[1], Tags[2]}
    BY <1>2, <1>5, <2>1, LevelIs
  <2>3. CASE input = 1
    BY <1>4, <2>2, <2>3
  <2>4. CASE input # 1
    BY <1>4, <2>2, <2>4
  <2>5. QED
    BY <2>3, <2>4
<1>8. ASSUME NEW key \in Level(input) PROVE Tagger!Stopped(key[2], key[3]) \in Int
  BY <1>1, <1>8, StoppedIs
<1>9. \A x \in {1, 2, 3, 4} : f[x] \in Int /\ f[x] = Tagger!Stopped(u(x), v(x))
  <2>1. \A x \in {1, 2, 3, 4} : f[x] = Tagger!Stopped(u(x), v(x))
    BY <1>3
  <2>2. \A x \in {1, 2, 3, 4} : Last(x)[2] = u(x) /\ Last(x)[3] = v(x)
    OBVIOUS
  <2> HIDE DEF Last, f
  <2>3. QED
    BY <1>6, <1>8, <2>1, <2>2
<1>10. DOMAIN f = 1..4 /\ 4 \in Nat \ {0} /\ 1..4 = {1, 2, 3, 4}
  BY <1>3
<1> HIDE DEF f
<1>11. \A x \in 1..4 : f[x] \in Int
  BY <1>9, <1>10
<1>12. /\ \A w \in W : w \in 1..4 /\ f[w] >= Tagger!Lowest /\ \A y \in 1..4 : f[y] <= f[w]
       /\ (\E x \in 1..4 : f[x] >= Tagger!Lowest) => W # {}
  BY <1>10, <1>11, WinnersAre
<1> HIDE DEF W
<1>13. CASE W = {}
  <2>1. output' = <<>> /\ output' \in Seq(Tagger!AllTags)
    BY <1>1, <1>13
  <2>2. \A x \in {1, 2, 3, 4} : ~(f[x] > Tagger!Lowest)
    BY <1>10, <1>11, <1>12, <1>13, TagsAre
  <2>3. \A key \in Level(input) : ~(Tagger!Stopped(key[2], key[3]) > Tagger!Lowest)
    BY <1>7, <1>9, <2>2
  <2>4. \A a, b : Tagger!Stopped(a, b)' = Tagger!Stopped(a, b)
    BY <1>1 DEF Tagger!Stopped, Tagger!get3gramEstimate
  <2>5. TracedBack'
    BY <1>1, <2>3, <2>4 DEF TracedBack
  <2>6. QED
    BY <1>1, <2>1, <2>5, TableStays DEF TaggerInv
<1>14. CASE W # {}
  <2>1. best \in W
    BY <1>14
  <2> HIDE DEF best
  <2>2. best \in {1, 2, 3, 4} /\ \A y \in {1, 2, 3, 4} : f[y] <= f[best]
    BY <1>10, <1>12, <2>1
  <2>3. Last(best) \in Level(input) /\ Last(best)[2] = u(best) /\ Last(best)[3] = v(best)
    BY <1>6, <2>2
  <2> HIDE DEF Last
  <2>4. PICK key \in Level(input) : /\ key[2] = u(best) /\ key[3] = v(best)
                                    /\ output' = Tagger!TagsTo(key)
    BY <1>1, <1>14, <2>3
  <2>5. PICK p \in [1..input -> DOMAIN table] :
          /\ WayBack(p, table, key)
          /\ output' = [k \in 1..input |-> table[p[k]].tag]
    BY <1>1, <2>4, TracedIs
  <2>6. \A other \in Level(input) :
          Tagger!Stopped(other[2], other[3]) <= Tagger!Stopped(key[2], key[3])
    BY <1>7, <1>9, <2>2, <2>4
  <2>7. \A a, b : Tagger!Stopped(a, b)' = Tagger!Stopped(a, b)
    BY <1>1 DEF Tagger!Stopped, Tagger!get3gramEstimate
  <2>8. WayBack(p, table, key)'
    BY <1>1, <2>5 DEF WayBack
  <2>9. TracedBack'
    <3>1. /\ p \in [1..input' -> DOMAIN table'] /\ key \in Level(input')
          /\ output' = [k \in 1..input' |-> table'[p[k]].tag]
      BY <1>1, <2>4, <2>5
    <3>2. \A other \in Level(input') :
            Tagger!Stopped(other[2], other[3])' <= Tagger!Stopped(key[2], key[3])'
      BY <1>1, <2>6, <2>7
    <3>3. QED
      BY <2>8, <3>1, <3>2 DEF TracedBack
  <2>10. output' \in Seq(Tagger!AllTags)
    <3>1. \A k \in 1..input : table[p[k]].tag \in Tagger!AllTags
      <4>1. SUFFICES ASSUME NEW k \in 1..input PROVE table[p[k]].tag \in Tagger!AllTags
        OBVIOUS
      <4>2. p[k] \in Level(k) /\ p[k] \in DOMAIN table /\ k \in Nat
        BY <2>5 DEF WayBack
      <4>3. p[k][3] \in Tagger!AllTags
        BY <4>2, LevelIs
      <4>4. QED
        BY <4>2, <4>3 DEF TaggerInv, EntryFits
    <3>2. output' \in [1..input -> Tagger!AllTags]
      BY <2>5, <3>1
    <3>3. QED
      BY <1>2, <3>2
  <2>11. QED
    BY <1>1, <2>9, <2>10, TableStays DEF TaggerInv
<1>15. QED
  BY <1>13, <1>14

\* The tag of the k-th word of ts, and of those before the first.
TagOf(ts, k) == IF k < 1 THEN "*" ELSE ts[k]

\* The value of the next word in a sequence of tags.
NextWord(a, ts, k) == Tagger!After(a, k, TagOf(ts, k - 2), TagOf(ts, k - 1), TagOf(ts, k))

\* The values of the beginnings of a sequence of tags.
Beginnings(f, ts, n) == f = [k \in 0..n |-> IF k = 0 THEN 0 ELSE NextWord(f[k - 1], ts, k)]

\* There are such values.
LEMMA BeginningsExist ==
  ASSUME NEW ts PROVE \A n \in Nat : \E f : Beginnings(f, ts, n)
<1> DEFINE N == {n \in Nat : \E f : Beginnings(f, ts, n)}
<1>1. 0 \in N
  <2> DEFINE f == [k \in 0..0 |-> 0]
  <2>1. f = [k \in 0..0 |-> IF k = 0 THEN 0 ELSE NextWord(f[k - 1], ts, k)]
    OBVIOUS
  <2> HIDE DEF f
  <2>2. Beginnings(f, ts, 0)
    BY <2>1 DEF Beginnings
  <2>3. QED
    BY <2>2
<1>2. ASSUME NEW n \in N PROVE n + 1 \in N
  <2>1. n \in Nat /\ n + 1 \in Nat
    OBVIOUS
  <2>2. PICK f : Beginnings(f, ts, n)
    OBVIOUS
  <2> DEFINE g == [k \in 0..(n + 1) |-> IF k <= n THEN f[k] ELSE NextWord(f[k - 1], ts, k)]
  <2>3. \A k \in 0..n : f[k] = IF k = 0 THEN 0 ELSE NextWord(f[k - 1], ts, k)
    BY <2>2 DEF Beginnings
  <2>4. \A k \in 0..(n + 1) : g[k] = IF k = 0 THEN 0 ELSE NextWord(g[k - 1], ts, k)
    <3>1. \A k \in 0..(n + 1) : k # 0 => g[k - 1] = f[k - 1]
      BY <2>1
    <3>2. QED
      BY <2>1, <2>3, <3>1
  <2>5. g = [k \in 0..(n + 1) |-> g[k]]
    OBVIOUS
  <2> HIDE DEF g
  <2>6. Beginnings(g, ts, n + 1)
    BY <2>4, <2>5 DEF Beginnings
  <2>7. QED
    BY <2>1, <2>6
<1>3. N = Nat
  <2>1. N \in SUBSET Nat
    OBVIOUS
  <2> HIDE DEF N
  <2>2. QED
    BY <1>1, <1>2, <2>1, Induction
<1>4. QED
  BY <1>3

\* The value of a sequence of tags.
LEMMA LikelihoodIs ==
  ASSUME TaggerInv, NEW ts
  PROVE  \E f : /\ f[0] = 0 /\ \A k \in 1..input : f[k] = NextWord(f[k - 1], ts, k)
               /\ Tagger!Likelihood(ts) =
                    Tagger!Add(f[input], Tagger!get3gramEstimate(TagOf(ts, input - 1),
                                                                 TagOf(ts, input), "STOP"))
<1> DEFINE f == CHOOSE h : Beginnings(h, ts, input)
<1>1. input \in Nat /\ input > 0
  BY WordsFew DEF TaggerInv
<1>2. Beginnings(f, ts, input)
  BY <1>1, BeginningsExist
<1>3. Tagger!Likelihood(ts) =
        Tagger!Add(f[input],
                   Tagger!get3gramEstimate(TagOf(ts, input - 1), TagOf(ts, input), "STOP"))
  BY DEF Tagger!Likelihood, Beginnings, NextWord, TagOf
<1> HIDE DEF f
<1>4. \A k \in 0..input : f[k] = IF k = 0 THEN 0 ELSE NextWord(f[k - 1], ts, k)
  BY <1>2 DEF Beginnings
<1>5. f[0] = 0 /\ \A k \in 1..input : f[k] = NextWord(f[k - 1], ts, k)
  BY <1>1, <1>4
<1>6. QED
  BY <1>3, <1>5

\* The entries at which a sequence of tags would come by.
EntryOf(ts, k) == <<k, TagOf(ts, k - 1), TagOf(ts, k)>>

\* They are entries for their words, and each can come from the one before it.
LEMMA EntryOfIs ==
  ASSUME NEW n \in Nat, NEW ts \in [1..n -> Tagger!AllTags], NEW k \in 1..n
  PROVE  /\ EntryOf(ts, k) \in Level(k)
         /\ k > 1 => EntryOf(ts, k - 1) \in Before(EntryOf(ts, k))
         /\ k > 1 => EntryOf(ts, k - 1)[2] = TagOf(ts, k - 2)
         /\ EntryOf(ts, k)[2] = TagOf(ts, k - 1) /\ EntryOf(ts, k)[3] = TagOf(ts, k)
         /\ k = 1 => TagOf(ts, k - 2) = "*" /\ TagOf(ts, k - 1) = "*"
         /\ TagOf(ts, k) \in Tagger!AllTags
<1>1. \A j \in 1..n : /\ TagOf(ts, j) \in Tagger!AllTags
                      /\ j = 1 => TagOf(ts, j - 1) = "*" /\ TagOf(ts, j - 2) = "*"
                      /\ j # 1 => TagOf(ts, j - 1) \in Tagger!AllTags
  BY DEF TagOf
<1>2. \A j \in 1..n : EntryOf(ts, j) \in Level(j)
  BY <1>1 DEF EntryOf, Level
<1>3. ASSUME k > 1 PROVE /\ EntryOf(ts, k - 1) \in Before(EntryOf(ts, k))
                         /\ EntryOf(ts, k - 1)[2] = TagOf(ts, k - 2)
  <2>1. k - 1 \in 1..n /\ (k - 1) - 1 = k - 2
    BY <1>3
  <2>2. EntryOf(ts, k - 1) \in Level(k - 1)
    BY <1>2, <2>1
  <2>3. /\ EntryOf(ts, k - 1)[3] = TagOf(ts, k - 1) /\ EntryOf(ts, k - 1)[2] = TagOf(ts, k - 2)
        /\ EntryOf(ts, k)[1] = k /\ EntryOf(ts, k)[2] = TagOf(ts, k - 1)
    BY <2>1 DEF EntryOf
  <2>4. QED
    BY <2>2, <2>3 DEF Before
<1>4. EntryOf(ts, k)[2] = TagOf(ts, k - 1) /\ EntryOf(ts, k)[3] = TagOf(ts, k)
  BY DEF EntryOf
<1>5. QED
  BY <1>1, <1>2, <1>3, <1>4

\* No sequence of tags has a greater value than the entry at which it comes by.
LEMMA NoneBetter ==
  ASSUME TaggerInv, at = input, NEW ts \in [1..input -> Tagger!AllTags],
         NEW f, f[0] = 0, \A k \in 1..input : f[k] = NextWord(f[k - 1], ts, k)
  PROVE  \A k \in 1..input : /\ f[k] \in Logs(k) /\ table[EntryOf(ts, k)].value \in Logs(k)
                             /\ f[k] > Tagger!Lowest => f[k] <= table[EntryOf(ts, k)].value
<1> DEFINE Fine(k) == /\ f[k] \in Logs(k)
                      /\ f[k] > Tagger!Lowest => f[k] <= table[EntryOf(ts, k)].value
           S == {k \in Nat \ {0} : k <= input => Fine(k)}
<1>1. /\ input \in 1..MaxWords /\ input \in Nat /\ input > 0
      /\ estimates \in [1..input -> [Tagger!AllTags -> {Tagger!NegInfinity, -1}]]
      /\ DOMAIN table = UNION {Level(k) : k \in 1..input}
  BY WordsFew DEF TaggerInv
<1>2. ASSUME NEW k \in 1..input
      PROVE  /\ EntryFits(table[EntryOf(ts, k)], table, EntryOf(ts, k)) /\ EntryOf(ts, k)[1] = k
             /\ table[EntryOf(ts, k)].value \in Logs(k)
  <2>1. EntryOf(ts, k) \in Level(k) /\ k \in Nat
    <3>1. k \in 1..input /\ input \in Nat /\ ts \in [1..input -> Tagger!AllTags]
      BY <1>1
    <3>2. EntryOf(ts, k) \in Level(k)
      BY <3>1, EntryOfIs
    <3>3. QED
      BY <1>1, <3>2
  <2>2. EntryOf(ts, k) \in DOMAIN table /\ EntryOf(ts, k)[1] = k
    BY <1>1, <2>1, LevelIs
  <2>3. EntryFits(table[EntryOf(ts, k)], table, EntryOf(ts, k))
    BY <2>2 DEF TaggerInv
  <2>4. QED
    BY <2>2, <2>3 DEF EntryFits
<1>3. 1 \in S
  <2>1. 1 \in 1..input /\ 1 - 1 = 0
    BY <1>1
  <2>2. f[1] = Tagger!After(0, 1, "*", "*", TagOf(ts, 1))
    <3>1. f[1] = NextWord(f[0], ts, 1)
      BY <2>1
    <3>2. TagOf(ts, 1 - 2) = "*" /\ TagOf(ts, 1 - 1) = "*"
      BY <1>1, <2>1, EntryOfIs
    <3>3. QED
      BY <3>1, <3>2 DEF NextWord
  <2>3. table[EntryOf(ts, 1)].value = Tagger!After(0, 1, "*", "*", TagOf(ts, 1))
    <3>1. EntryOf(ts, 1)[3] = TagOf(ts, 1)
      BY <1>1, <2>1, EntryOfIs
    <3>2. QED
      BY <1>2, <2>1, <3>1 DEF EntryFits
  <2>4. f[1] \in Logs(1) /\ f[1] <= f[1]
    <3>1. table[EntryOf(ts, 1)].value \in Logs(1)
      BY <1>2, <2>1
    <3>2. QED
      BY <2>2, <2>3, <3>1 DEF Logs
  <2>5. Fine(1)
    BY <2>2, <2>3, <2>4
  <2> HIDE DEF Fine
  <2>6. QED
    BY <2>5
<1>4. ASSUME NEW k \in Nat \ {0}, k \in S PROVE k + 1 \in S
  <2>1. SUFFICES ASSUME k + 1 <= input PROVE Fine(k + 1)
    OBVIOUS
  <2> DEFINE j == k + 1
             key == EntryOf(ts, j)
             from == EntryOf(ts, k)
  <2>2. j \in 1..input /\ j > 1 /\ j - 1 = k /\ k \in 1..input /\ j - 1 <= at
    BY <1>1, <2>1
  <2>3. Fine(k)
    BY <1>4, <2>2
  <2> HIDE DEF j, S
  <2>4. /\ key \in Level(j) /\ from \in Before(key) /\ from[2] = TagOf(ts, j - 2)
        /\ key[2] = TagOf(ts, j - 1) /\ key[3] = TagOf(ts, j) /\ TagOf(ts, j) \in Tagger!AllTags
    <3>1. input \in Nat /\ j \in 1..input
      BY <1>1, <2>2
    <3>2. /\ key \in Level(j) /\ TagOf(ts, j) \in Tagger!AllTags
          /\ key[2] = TagOf(ts, j - 1) /\ key[3] = TagOf(ts, j)
      BY <3>1, EntryOfIs
    <3>3. /\ j > 1 => EntryOf(ts, j - 1) \in Before(EntryOf(ts, j))
          /\ j > 1 => EntryOf(ts, j - 1)[2] = TagOf(ts, j - 2)
      BY <3>1, EntryOfIs
    <3>4. QED
      BY <2>2, <3>2, <3>3
  <2> HIDE DEF key
  <2>5. f[j] = NextWord(f[k], ts, j) /\ Via(table, from, key) = NextWord(table[from].value, ts, j)
    <3>1. f[j] = NextWord(f[k], ts, j)
      BY <2>2
    <3>2. Via(table, from, key) = Tagger!After(table[from].value, j, from[2], key[2], key[3])
      BY <2>2, <2>4, ViaIs
    <3>3. QED
      BY <2>4, <3>1, <3>2 DEF NextWord
  <2>6. table[from].value \in Logs(k) /\ f[k] \in Logs(k)
    BY <1>2, <2>2, <2>3
  <2> HIDE DEF from, Fine
  <2>7. /\ NextWord(f[k], ts, j) \in Logs(j) /\ NextWord(table[from].value, ts, j) \in Logs(j)
        /\ NextWord(f[k], ts, j) > Tagger!Lowest => f[k] > Tagger!Lowest
        /\ f[k] <= table[from].value =>
             NextWord(f[k], ts, j) <= NextWord(table[from].value, ts, j)
    BY <1>1, <2>2, <2>4, <2>6, OneWordMore DEF NextWord
  <2>8. ASSUME f[j] > Tagger!Lowest PROVE f[j] <= table[key].value
    <3>1. f[k] <= table[from].value
      BY <2>3, <2>5, <2>7, <2>8 DEF Fine, from
    <3>2. f[j] <= Via(table, from, key) /\ f[j] \in Int /\ Via(table, from, key) \in Int
      BY <2>5, <2>7, <3>1 DEF Logs
    <3>3. Via(table, from, key) > Tagger!Lowest
      BY <2>8, <3>2, TagsAre
    <3>4. EntryFits(table[key], table, key) /\ key[1] = j /\ table[key].value \in Logs(j)
      BY <1>2, <2>2 DEF key
    <3>5. Via(table, from, key) <= table[key].value
      BY <2>2, <2>4, <3>3, <3>4 DEF EntryFits
    <3>6. QED
      BY <3>2, <3>4, <3>5 DEF Logs
  <2>9. QED
    BY <2>5, <2>7, <2>8 DEF Fine, j, key
<1>5. \A k \in Nat \ {0} : k \in S
  <2> HIDE DEF S
  <2>1. QED
    BY <1>3, <1>4, InductionFrom1
<1>6. QED
  BY <1>2, <1>5

TagsOn(ts, p) == ts = [k \in 1..input |-> table[p[k]].tag]
ValuesOf(f, ts) == f[0] = 0 /\ \A k \in 1..input : f[k] = NextWord(f[k - 1], ts, k)

\* The sequence of tags that has been traced back has the value of its entry.
LEMMA TracedIsAsGood ==
  ASSUME TaggerInv, at = input, NEW p, NEW key, WayBack(p, table, key),
         NEW ts, TagsOn(ts, p), NEW f, ValuesOf(f, ts)
  PROVE  /\ ts \in [1..input -> Tagger!AllTags]
         /\ key = EntryOf(ts, input)
         /\ table[key].value > Tagger!Lowest => f[input] = table[key].value
<1>1. /\ input \in 1..MaxWords /\ input \in Nat /\ input > 0
      /\ DOMAIN table = UNION {Level(k) : k \in 1..input}
  BY WordsFew DEF TaggerInv
<1>0. /\ p \in [1..input -> DOMAIN table] /\ ts = [k \in 1..input |-> table[p[k]].tag]
      /\ f[0] = 0 /\ \A k \in 1..input : f[k] = NextWord(f[k - 1], ts, k)
  BY DEF WayBack, ValuesOf, TagsOn
<1>2. ASSUME NEW k \in 1..input
      PROVE  /\ p[k] \in Level(k) /\ EntryFits(table[p[k]], table, p[k]) /\ k \in Nat
             /\ p[k][1] = k /\ p[k][3] = ts[k] /\ p[k] = <<k, p[k][2], p[k][3]>>
             /\ p[k][3] \in Tagger!AllTags /\ (k = 1 => p[k][2] = "*")
  <2>0. p[k] \in Level(k)
    BY DEF WayBack
  <2>1. p[k] \in Level(k) /\ p[k] \in DOMAIN table /\ k \in Nat
    <3>1. k \in Nat
      BY <1>1
    <3>2. p[k] \in DOMAIN table
      BY <1>0
    <3>3. QED
      BY <2>0, <3>1, <3>2
  <2>2. EntryFits(table[p[k]], table, p[k])
    BY <2>1 DEF TaggerInv
  <2>3. ts[k] = p[k][3]
    BY <1>0, <2>2 DEF EntryFits
  <2>4. QED
    BY <2>1, <2>2, <2>3, LevelIs
<1>3. ts \in [1..input -> Tagger!AllTags]
  <2>1. \A k \in 1..input : ts[k] \in Tagger!AllTags
    BY <1>2
  <2>2. QED
    BY <1>0, <2>1
<1>4. ASSUME NEW k \in 1..input, k > 1
      PROVE  p[k - 1] = table[p[k]].backpointer /\ p[k - 1] \in Before(p[k]) /\ p[k][2] = ts[k - 1]
  <2>1. p[k - 1] = table[p[k]].backpointer
    BY <1>4 DEF WayBack
  <2>2. p[k - 1] \in Before(p[k])
    BY <1>2, <1>4, <2>1 DEF EntryFits
  <2>3. p[k - 1][3] = p[k][2]
    BY <2>2 DEF Before
  <2>4. k - 1 \in 1..input
    BY <1>1, <1>4
  <2>5. QED
    BY <1>2, <2>1, <2>2, <2>3, <2>4
<1>5. ASSUME NEW k \in 1..input PROVE p[k] = EntryOf(ts, k)
  <2>1. TagOf(ts, k) = ts[k]
    BY <1>2, <1>5 DEF TagOf
  <2>2. p[k][2] = TagOf(ts, k - 1)
    BY <1>2, <1>4, <1>5 DEF TagOf
  <2>3. QED
    BY <1>2, <2>1, <2>2 DEF EntryOf
<1> DEFINE S == {k \in Nat \ {0} : k <= input =>
                   (table[p[k]].value > Tagger!Lowest => f[k] = table[p[k]].value)}
<1>6. 1 \in S
  <2>1. 1 \in 1..input /\ 1 - 1 = 0
    BY <1>1
  <2>2. f[1] = Tagger!After(0, 1, "*", "*", TagOf(ts, 1))
    <3>1. f[1] = NextWord(0, ts, 1)
      BY <1>0, <2>1
    <3>2. TagOf(ts, 1 - 2) = "*" /\ TagOf(ts, 1 - 1) = "*"
      BY DEF TagOf
    <3>3. QED
      BY <3>1, <3>2 DEF NextWord
  <2>3. table[p[1]].value = Tagger!After(0, 1, "*", "*", p[1][3])
    BY <1>2, <2>1 DEF EntryFits
  <2>4. p[1][3] = TagOf(ts, 1)
    BY <1>2, <2>1 DEF TagOf
  <2>5. QED
    BY <2>2, <2>3, <2>4
<1>7. ASSUME NEW k \in Nat \ {0}, k \in S PROVE k + 1 \in S
  <2> DEFINE j == k + 1
  <2>1. SUFFICES ASSUME k + 1 <= input, table[p[j]].value > Tagger!Lowest
                 PROVE  f[j] = table[p[j]].value
    OBVIOUS
  <2>2. j \in 1..input /\ j > 1 /\ j - 1 = k /\ k \in 1..input /\ j - 1 <= at
    BY <1>1, <2>1
  <2>3. table[p[k]].value > Tagger!Lowest => f[k] = table[p[k]].value
    BY <1>7, <2>2
  <2> HIDE DEF j, S
  <2>4. /\ p[k] = table[p[j]].backpointer /\ p[k] \in Before(p[j])
        /\ p[j] \in Level(j) /\ p[j][1] = j /\ EntryFits(table[p[j]], table, p[j])
    BY <1>2, <1>4, <2>2
  <2>5. table[p[j]].value = Via(table, p[k], p[j])
    BY <2>1, <2>2, <2>4 DEF EntryFits
  <2>6. /\ table[p[k]].value > Tagger!Lowest
        /\ Via(table, p[k], p[j]) = Tagger!After(table[p[k]].value, j, p[k][2], p[j][2], p[j][3])
    BY <2>1, <2>2, <2>4, <2>5, ViaIs
  <2>7. f[j] = NextWord(f[k], ts, j)
    BY <1>0, <2>2
  <2>8. p[k][2] = TagOf(ts, j - 2) /\ p[j][2] = TagOf(ts, j - 1) /\ p[j][3] = TagOf(ts, j)
    <3>1. k - 1 = j - 2
      BY <2>2
    <3>2. QED
      BY <1>5, <2>2, <3>1 DEF EntryOf
  <2>9. QED
    BY <2>3, <2>5, <2>6, <2>7, <2>8 DEF NextWord
<1>8. \A k \in Nat \ {0} : k \in S
  <2> HIDE DEF S
  <2>1. QED
    BY <1>6, <1>7, InductionFrom1
<1>9. input \in 1..input /\ p[input] = key
  BY <1>1 DEF WayBack
<1>10. key = EntryOf(ts, input)
  BY <1>5, <1>9
<1>11. table[key].value > Tagger!Lowest => f[input] = table[key].value
  <2>1. input \in Nat \ {0} /\ input <= input
    BY <1>1
  <2>2. input \in S
    BY <1>8, <2>1
  <2>3. QED
    BY <1>9, <2>1, <2>2
<1>12. QED
  BY <1>3, <1>10, <1>11

\* Tagger: every word gets a tag, and no other sequence of tags is likelier.
LEMMA TagsAreBest == ASSUME TaggerInv PROVE Tagger!TagsBest
<1> DEFINE L(ts) == Tagger!Likelihood(ts)
           all == [1..input -> Tagger!AllTags]
           possible == {ts \in all : L(ts) > Tagger!Lowest}
<1>1. SUFFICES ASSUME flag, possible # {}
               PROVE  Len(output) = input /\ L(output) = Tagger!Max({L(ts) : ts \in possible})
  BY DEF Tagger!TagsBest
<1>2. /\ at = input /\ TracedBack /\ input \in 1..MaxWords /\ input \in Nat /\ input > 0
      /\ DOMAIN table = UNION {Level(k) : k \in 1..input} /\ input \in 1..input
  BY <1>1, WordsFew DEF TaggerInv
<1>3. ASSUME NEW ts \in all
      PROVE  LET key == EntryOf(ts, input)
             IN  /\ key \in Level(input) /\ L(ts) \in Int
                 /\ Tagger!Stopped(key[2], key[3]) \in Int
                 /\ L(ts) > Tagger!Lowest => L(ts) <= Tagger!Stopped(key[2], key[3])
  <2> DEFINE key == EntryOf(ts, input)
             s == TagOf(ts, input - 1)
             u == TagOf(ts, input)
             Stop(x) == Tagger!Add(x, Tagger!get3gramEstimate(s, u, "STOP"))
  <2>1. PICK f : /\ f[0] = 0 /\ \A k \in 1..input : f[k] = NextWord(f[k - 1], ts, k)
                 /\ L(ts) = Stop(f[input])
    BY LikelihoodIs
  <2>2. /\ f[input] \in Logs(input) /\ table[key].value \in Logs(input)
        /\ f[input] > Tagger!Lowest => f[input] <= table[key].value
    BY <1>2, <2>1, NoneBetter
  <2>3. key \in Level(input) /\ key[2] = s /\ key[3] = u /\ key = <<input, s, u>>
    BY <1>2, EntryOfIs DEF EntryOf
  <2>4. Tagger!Stopped(key[2], key[3]) = Stop(table[key].value)
    BY <2>3 DEF Tagger!Stopped
  <2> HIDE DEF key, L
  <2>5. /\ Stop(f[input]) \in Int /\ Stop(table[key].value) \in Int
        /\ f[input] <= table[key].value => Stop(f[input]) <= Stop(table[key].value)
        /\ Stop(f[input]) > Tagger!Lowest => f[input] > Tagger!Lowest
    BY <1>2, <2>2, StopIs
  <2> HIDE DEF Stop
  <2>6. QED
    BY <2>1, <2>2, <2>3, <2>4, <2>5 DEF key
<1>4. PICK some \in all : L(some) > Tagger!Lowest
  BY <1>1
<1>5. \E key \in Level(input) : Tagger!Stopped(key[2], key[3]) > Tagger!Lowest
  BY <1>3, <1>4, TagsAre
<1>6. PICK key \in Level(input), p \in [1..input -> DOMAIN table] :
        /\ WayBack(p, table, key) /\ output = [k \in 1..input |-> table[p[k]].tag]
        /\ \A other \in Level(input) :
             Tagger!Stopped(other[2], other[3]) <= Tagger!Stopped(key[2], key[3])
  BY <1>2, <1>5 DEF TracedBack
<1>7. PICK f : /\ f[0] = 0 /\ \A k \in 1..input : f[k] = NextWord(f[k - 1], output, k)
               /\ L(output) = Tagger!Add(f[input],
                                Tagger!get3gramEstimate(TagOf(output, input - 1),
                                                        TagOf(output, input), "STOP"))
  BY LikelihoodIs
<1>8. /\ output \in all /\ key = EntryOf(output, input)
      /\ table[key].value > Tagger!Lowest => f[input] = table[key].value
  <2>1. ValuesOf(f, output)
    BY <1>7 DEF ValuesOf
  <2>2. TagsOn(output, p)
    BY <1>6 DEF TagsOn
  <2> HIDE DEF L
  <2>3. QED
    BY <1>2, <1>6, <2>1, <2>2, TracedIsAsGood
<1> HIDE DEF L, all
<1>9. Tagger!Stopped(key[2], key[3]) > Tagger!Lowest /\ Tagger!Stopped(key[2], key[3]) \in Int
  <2>1. Tagger!Stopped(key[2], key[3]) \in Int
    BY <1>3, <1>8
  <2>2. PICK other \in Level(input) : Tagger!Stopped(other[2], other[3]) > Tagger!Lowest
    BY <1>5
  <2>3. Tagger!Stopped(other[2], other[3]) \in Int
    BY <1>2, StoppedIs
  <2>4. Tagger!Stopped(other[2], other[3]) <= Tagger!Stopped(key[2], key[3])
    BY <1>6
  <2>5. QED
    BY <2>1, <2>2, <2>3, <2>4, TagsAre
<1>10. L(output) = Tagger!Stopped(key[2], key[3])
  <2>1. key = <<input, TagOf(output, input - 1), TagOf(output, input)>>
    BY <1>8 DEF EntryOf
  <2>2. key[2] = TagOf(output, input - 1) /\ key[3] = TagOf(output, input)
    BY <2>1
  <2>3. Tagger!Stopped(key[2], key[3]) =
          Tagger!Add(table[key].value, Tagger!get3gramEstimate(key[2], key[3], "STOP"))
    BY <2>1, <2>2 DEF Tagger!Stopped
  <2>4. key \in DOMAIN table /\ key[1] = input
    BY <1>2, LevelIs
  <2>5. table[key].value \in Logs(input)
    BY <2>4 DEF TaggerInv, EntryFits
  <2>6. table[key].value > Tagger!Lowest
    BY <1>2, <1>9, <2>3, <2>5, StopIs
  <2>7. QED
    BY <1>7, <1>8, <2>2, <2>3, <2>6
<1>11. \A ts \in possible : L(ts) <= L(output) /\ L(ts) \in Int
  <2>1. SUFFICES ASSUME NEW ts \in all, L(ts) > Tagger!Lowest
                 PROVE  L(ts) <= L(output) /\ L(ts) \in Int
    OBVIOUS
  <2>2. /\ EntryOf(ts, input) \in Level(input) /\ L(ts) \in Int
        /\ Tagger!Stopped(EntryOf(ts, input)[2], EntryOf(ts, input)[3]) \in Int
        /\ L(ts) <= Tagger!Stopped(EntryOf(ts, input)[2], EntryOf(ts, input)[3])
    BY <1>3, <2>1
  <2>3. Tagger!Stopped(EntryOf(ts, input)[2], EntryOf(ts, input)[3])
          <= Tagger!Stopped(key[2], key[3])
    BY <1>6, <2>2
  <2>4. QED
    BY <1>9, <1>10, <2>2, <2>3
<1>12. output \in possible
  BY <1>8, <1>9, <1>10
<1> DEFINE V == {L(ts) : ts \in possible}
<1>13. L(output) \in V /\ V \subseteq Int /\ \A y \in V : L(output) >= y
  BY <1>9, <1>10, <1>11, <1>12
<1> HIDE DEF V, possible
<1>14. Tagger!Max(V) = L(output)
  <2>1. ASSUME NEW x \in V, \A y \in V : x >= y PROVE x = L(output)
    <3>1. x \in Int /\ L(output) \in Int /\ x >= L(output) /\ L(output) >= x
      BY <1>13, <2>1
    <3>2. QED
      BY <3>1
  <2>2. (CHOOSE x \in V : \A y \in V : x >= y) = L(output)
    BY <1>13, <2>1
  <2>3. QED
    BY <2>2 DEF Tagger!Max
<1>15. Len(output) = input
  BY <1>2, <1>8 DEF all
<1>16. QED
  BY <1>14, <1>15 DEF V

\* The tagger stays within its types.
LEMMA TaggerTyped == ASSUME TaggerInv PROVE Tagger!TypeOK
<1>1. input \in 1..MaxWords /\ at \in 0..input /\ MaxWords \in Nat /\ 3 * MaxWords + 2 < 1000
  BY LanguageAssumption, EstimatesAssumption DEF TaggerInv
<1>2. ASSUME NEW key \in DOMAIN table
      PROVE  key[1] \in 1..at /\ table[key].tag = key[3] /\ table[key].value \in -2000..0
  <2>1. PICK k \in 1..at : key \in Level(k)
    BY DEF TaggerInv
  <2>2. k \in Nat /\ k <= MaxWords /\ key[1] = k
    BY <1>1, <2>1, LevelIs
  <2>3. table[key].tag = key[3] /\ table[key].value \in Logs(k)
    BY <2>2 DEF TaggerInv, EntryFits
  <2>4. table[key].value \in -2000..0
    <3>1. -3 * k \in Int /\ -2000 <= -3 * k
      BY <1>1, <2>2
    <3>2. \A v \in Logs(k) : v \in -2000..0
      BY <3>1, TagsAre DEF Logs
    <3>3. QED
      BY <2>3, <3>2
  <2>5. QED
    BY <2>2, <2>3, <2>4
<1>3. output \in Seq(Tagger!AllTags)
  BY DEF TaggerInv
<1>4. QED
  BY <1>1, <1>2, <1>3, TagsAre DEF Tagger!TypeOK

\* Every step of the tagger keeps its invariant.
LEMMA TaggerKeeps == ASSUME TaggerInv, Tagger!Next PROVE TaggerInv'
BY TaggerFills, TaggerTags DEF Tagger!Next

-----------------------------------------------------------------------------
(* Sums over finite sets.  The library takes the elements one by one, in an*)
(* order of its own: what a sum is must not depend on that order.          *)

\* The element that the library takes next.
Picked(s) == CHOOSE x \in s : TRUE

\* f is the sum of the weights w, for all subsets of S.
Sums(f, w, S) ==
  f = [s \in SUBSET S |-> IF s = {} THEN 0 ELSE w[Picked(s)] + f[s \ {Picked(s)}]]

\* What is left when an element of a finite set has been picked.
LEMMA OneLess ==
  ASSUME NEW s, IsFiniteSet(s), NEW x \in s
  PROVE  /\ IsFiniteSet(s \ {x}) /\ Cardinality(s) \in Nat
         /\ Cardinality(s \ {x}) \in Nat
         /\ Cardinality(s \ {x}) = Cardinality(s) - 1
         /\ Cardinality(s) > 0
<1>1. Cardinality(s) \in Nat
  BY FS_CardinalityType
<1>2. IsFiniteSet(s \ {x}) /\ Cardinality(s \ {x}) = Cardinality(s) - 1
  BY FS_RemoveElement
<1>3. Cardinality(s \ {x}) \in Nat
  BY <1>2, FS_CardinalityType
<1>4. QED
  BY <1>1, <1>2, <1>3

\* One is picked from what is not empty.
LEMMA PickedIsIn == \A s : s # {} => Picked(s) \in s
BY DEF Picked

\* There are sums over every finite set.
LEMMA SumsExist ==
  ASSUME NEW S, IsFiniteSet(S), NEW w
  PROVE  \E f : Sums(f, w, S)
<1> DEFINE Small(n) == {s \in SUBSET S : Cardinality(s) <= n}
           IsSum(f, n) == f = [s \in Small(n) |-> IF s = {} THEN 0
                                                 ELSE w[Picked(s)] + f[s \ {Picked(s)}]]
           N == {n \in Nat : \E f : IsSum(f, n)}
<1>1. \A s \in SUBSET S : IsFiniteSet(s) /\ Cardinality(s) \in Nat
      /\ Cardinality(s) <= Cardinality(S)
  BY FS_Subset, FS_CardinalityType
<1>2. \A s \in SUBSET S : s # {} => /\ s \ {Picked(s)} \in SUBSET S
                                   /\ Cardinality(s \ {Picked(s)}) = Cardinality(s) - 1
                                   /\ Cardinality(s) > 0
  BY <1>1, OneLess, PickedIsIn
<1>3. Cardinality({}) = 0
  BY FS_EmptySet
<1>4. 0 \in N
  <2> DEFINE f == [s \in Small(0) |-> 0]
  <2>1. ASSUME NEW s \in Small(0), s # {} PROVE FALSE
    <3>1. s \in SUBSET S /\ Cardinality(s) <= 0
      OBVIOUS
    <3>2. Cardinality(s) > 0 /\ Cardinality(s) \in Nat
      BY <1>1, <1>2, <2>1, <3>1
    <3>3. QED
      BY <3>1, <3>2
  <2>2. IsSum(f, 0)
    BY <2>1
  <2>3. QED
    BY <2>2
<1>5. ASSUME NEW n \in N PROVE n + 1 \in N
  <2>1. PICK f : IsSum(f, n)
    OBVIOUS
  <2> DEFINE g == [s \in Small(n + 1) |-> IF s \in Small(n) THEN f[s]
                                         ELSE w[Picked(s)] + f[s \ {Picked(s)}]]
  <2>2. n \in Nat
    OBVIOUS
  <2>3. Small(n) \subseteq Small(n + 1)
    BY <1>1, <2>2
  <2>4. ASSUME NEW s \in Small(n + 1), s # {} PROVE s \ {Picked(s)} \in Small(n)
    <3>1. s \in SUBSET S /\ Cardinality(s) <= n + 1
      OBVIOUS
    <3>2. /\ s \ {Picked(s)} \in SUBSET S /\ Cardinality(s) \in Nat
          /\ Cardinality(s \ {Picked(s)}) = Cardinality(s) - 1
      BY <1>1, <1>2, <2>4, <3>1
    <3>3. Cardinality(s \ {Picked(s)}) <= n
      BY <2>2, <3>1, <3>2
    <3>4. QED
      BY <3>2, <3>3
  <2>5. {} \in Small(n)
    BY <1>3, <2>2
  <2>6. \A s \in Small(n) : f[s] = IF s = {} THEN 0 ELSE w[Picked(s)] + f[s \ {Picked(s)}]
    <3> HIDE DEF Small
    <3>1. f = [s \in Small(n) |-> IF s = {} THEN 0 ELSE w[Picked(s)] + f[s \ {Picked(s)}]]
      BY <2>1
    <3>2. QED
      BY <3>1
  <2> HIDE DEF Small
  <2>7. \A s \in Small(n + 1) : g[s] = IF s \in Small(n) THEN f[s]
                                      ELSE w[Picked(s)] + f[s \ {Picked(s)}]
    OBVIOUS
  <2>8. \A s \in Small(n + 1) : s # {} => g[s \ {Picked(s)}] = f[s \ {Picked(s)}]
    BY <2>3, <2>4, <2>7
  <2>9. \A s \in Small(n + 1) : g[s] = IF s = {} THEN 0
                                      ELSE w[Picked(s)] + g[s \ {Picked(s)}]
    BY <2>5, <2>6, <2>7, <2>8
  <2>10. g = [s \in Small(n + 1) |-> g[s]]
    OBVIOUS
  <2> HIDE DEF g
  <2>11. IsSum(g, n + 1)
    BY <2>9, <2>10
  <2>12. n + 1 \in Nat
    BY <2>2
  <2> HIDE DEF IsSum
  <2>13. QED
    BY <2>11, <2>12
<1>6. N = Nat
  <2>1. N \in SUBSET Nat
    OBVIOUS
  <2> HIDE DEF N
  <2>2. QED
    BY <1>4, <1>5, <2>1, Induction
<1>7. Cardinality(S) \in Nat
  BY FS_CardinalityType
<1>8. PICK f : IsSum(f, Cardinality(S))
  BY <1>6, <1>7
<1>9. Small(Cardinality(S)) = SUBSET S
  BY <1>1
<1>10. Sums(f, w, S)
  <2> HIDE DEF Small
  <2>1. QED
    BY <1>8, <1>9 DEF Sums
<1>11. QED
  BY <1>10

\* One step of a sum.
LEMMA SumStep ==
  ASSUME NEW f, NEW w, NEW S, Sums(f, w, S), NEW s \in SUBSET S
  PROVE  f[s] = IF s = {} THEN 0 ELSE w[Picked(s)] + f[s \ {Picked(s)}]
BY DEF Sums

\* A sum takes its elements in any order, and it is a number.
LEMMA AnyOrder ==
  ASSUME NEW f, NEW w, NEW S, IsFiniteSet(S), Sums(f, w, S),
         \A x \in S : w[x] \in Int
  PROVE  \A s \in SUBSET S : f[s] \in Int /\ \A x \in s : f[s] = w[x] + f[s \ {x}]
<1> DEFINE Fine(s) == f[s] \in Int /\ \A x \in s : f[s] = w[x] + f[s \ {x}]
           N == {n \in Nat : \A s \in SUBSET S : Cardinality(s) <= n => Fine(s)}
<1>1. \A s \in SUBSET S : IsFiniteSet(s) /\ Cardinality(s) \in Nat
  BY FS_Subset, FS_CardinalityType
<1>2. 0 \in N
  <2>1. SUFFICES ASSUME NEW s \in SUBSET S, Cardinality(s) <= 0 PROVE Fine(s)
    OBVIOUS
  <2>2. s = {}
    BY <1>1, <2>1, FS_EmptySet
  <2>3. f[s] = 0
    BY <2>2, SumStep
  <2>4. QED
    BY <2>2, <2>3
<1>3. ASSUME NEW n \in N PROVE n + 1 \in N
  <2>1. n \in Nat /\ \A t \in SUBSET S : Cardinality(t) <= n => Fine(t)
    OBVIOUS
  <2>2. Fine({})
    <3>1. f[{}] = 0
      BY SumStep
    <3>2. QED
      BY <3>1
  <2>3. ASSUME NEW s \in SUBSET S, Cardinality(s) <= n + 1, s # {}
        PROVE  Fine(s)
    <3> DEFINE c == Picked(s)
    <3>1. c \in s /\ f[s] = w[c] + f[s \ {c}]
      BY <2>3, PickedIsIn, SumStep
    <3> HIDE DEF c
    <3>2. \A x \in s : s \ {x} \in SUBSET S /\ Cardinality(s \ {x}) <= n
      BY <1>1, <2>1, <2>3, OneLess
    <3>3. \A x \in s : Fine(s \ {x})
      BY <2>1, <3>2
    <3>4. f[s \ {c}] \in Int /\ w[c] \in Int /\ f[s] \in Int
      <4>1. Fine(s \ {c})
        BY <3>1, <3>3
      <4>2. f[s \ {c}] \in Int
        BY <4>1
      <4>3. w[c] \in Int
        BY <2>3, <3>1
      <4>4. QED
        BY <3>1, <4>2, <4>3
    <3>5. ASSUME NEW x \in s, x # c PROVE f[s] = w[x] + f[s \ {x}]
      <4> DEFINE rest == (s \ {x}) \ {c}
      <4>1. x \in s \ {c} /\ c \in s \ {x} /\ (s \ {c}) \ {x} = rest
        BY <3>1, <3>5
      <4>2. f[s \ {c}] = w[x] + f[rest]
        BY <3>1, <3>3, <4>1
      <4>3. f[s \ {x}] = w[c] + f[rest]
        BY <3>3, <4>1
      <4>4. f[rest] \in Int
        <5>1. c \in s \ {x} /\ s \ {x} \in SUBSET S /\ Cardinality(s \ {x}) <= n
          BY <3>2, <4>1
        <5>2. rest \in SUBSET S /\ Cardinality(rest) <= n
          <6>1. IsFiniteSet(s \ {x})
            BY <1>1, <5>1
          <6>2. Cardinality(rest) = Cardinality(s \ {x}) - 1 /\ Cardinality(s \ {x}) \in Nat
            BY <5>1, <6>1, OneLess
          <6>3. QED
            BY <2>1, <5>1, <6>2
        <5>3. QED
          BY <2>1, <5>2
      <4>5. w[x] \in Int /\ w[c] \in Int
        BY <3>1
      <4> HIDE DEF rest
      <4>6. QED
        BY <3>1, <4>2, <4>3, <4>4, <4>5
    <3>6. QED
      BY <3>1, <3>4, <3>5
  <2>4. \A s \in SUBSET S : Cardinality(s) <= n + 1 => Fine(s)
    BY <2>2, <2>3
  <2>5. n + 1 \in Nat
    BY <2>1
  <2> HIDE DEF Fine
  <2>6. QED
    BY <2>4, <2>5
<1>4. N = Nat
  <2>1. N \in SUBSET Nat
    OBVIOUS
  <2> HIDE DEF N
  <2>2. QED
    BY <1>2, <1>3, <2>1, Induction
<1>5. QED
  BY <1>1, <1>4

\* A sum of numbers is a number.
LEMMA SumIsInt ==
  ASSUME NEW f, NEW w, NEW S, IsFiniteSet(S), Sums(f, w, S), \A x \in S : w[x] \in Int
  PROVE  f[S] \in Int
BY AnyOrder

\* Two sums are the same on a set where their weights are.
LEMMA SameSums ==
  ASSUME NEW f, NEW w, NEW S, IsFiniteSet(S), Sums(f, w, S),
         NEW g, NEW v, NEW T, Sums(g, v, T)
  PROVE  \A s \in SUBSET (S \cap T) : (\A x \in s : w[x] = v[x]) => f[s] = g[s]
<1> DEFINE Fine(s) == (\A x \in s : w[x] = v[x]) => f[s] = g[s]
           N == {n \in Nat : \A s \in SUBSET (S \cap T) : Cardinality(s) <= n => Fine(s)}
<1>0. /\ \A s \in SUBSET S : s # {} => f[s] = w[Picked(s)] + f[s \ {Picked(s)}]
      /\ \A s \in SUBSET T : s # {} => g[s] = v[Picked(s)] + g[s \ {Picked(s)}]
  BY DEF Sums
<1>1. \A s \in SUBSET S : IsFiniteSet(s) /\ Cardinality(s) \in Nat
  BY FS_Subset, FS_CardinalityType
<1>2. Fine({})
  <2>1. f[{}] = 0 /\ g[{}] = 0
    BY SumStep
  <2>2. QED
    BY <2>1
<1>3. 0 \in N
  <2>1. ASSUME NEW s \in SUBSET (S \cap T), Cardinality(s) <= 0 PROVE Fine(s)
    <3>1. Cardinality(s) = 0
      BY <1>1, <2>1
    <3>2. s = {}
      BY <1>1, <3>1, FS_EmptySet
    <3>3. QED
      BY <1>2, <3>2
  <2> HIDE DEF Fine
  <2>2. QED
    BY <2>1
<1>4. ASSUME NEW n \in N PROVE n + 1 \in N
  <2>1. n \in Nat /\ \A s \in SUBSET (S \cap T) : Cardinality(s) <= n => Fine(s)
    OBVIOUS
  <2>2. ASSUME NEW s \in SUBSET (S \cap T), Cardinality(s) <= n + 1, s # {},
               \A x \in s : w[x] = v[x]
        PROVE  f[s] = g[s]
    <3> DEFINE c == Picked(s)
    <3>1. c \in s /\ f[s] = w[c] + f[s \ {c}] /\ g[s] = v[c] + g[s \ {c}]
      <4>1. c \in s
        BY <2>2, PickedIsIn
      <4>2. s \in SUBSET S /\ s \in SUBSET T
        BY <2>2
      <4>3. f[s] = w[c] + f[s \ {c}]
        BY <1>0, <2>2, <4>2
      <4>4. g[s] = v[c] + g[s \ {c}]
        BY <1>0, <2>2, <4>2
      <4>5. QED
        BY <4>1, <4>3, <4>4
    <3> HIDE DEF c
    <3>2. s \ {c} \in SUBSET (S \cap T) /\ Cardinality(s \ {c}) <= n
      <4>1. Cardinality(s \ {c}) = Cardinality(s) - 1 /\ Cardinality(s) \in Nat
        BY <1>1, <3>1, OneLess
      <4>2. Cardinality(s \ {c}) <= n
        BY <2>1, <2>2, <4>1
      <4>3. QED
        BY <4>2
    <3>3. f[s \ {c}] = g[s \ {c}]
      BY <2>1, <2>2, <3>2
    <3>4. QED
      BY <2>2, <3>1, <3>3
  <2>3. \A s \in SUBSET (S \cap T) : Cardinality(s) <= n + 1 => Fine(s)
    BY <1>2, <2>2
  <2>4. n + 1 \in Nat
    BY <2>1
  <2> HIDE DEF Fine
  <2>5. QED
    BY <2>3, <2>4
<1>5. N = Nat
  <2>1. N \in SUBSET Nat
    OBVIOUS
  <2> HIDE DEF N
  <2>2. QED
    BY <1>3, <1>4, <2>1, Induction
<1>6. QED
  BY <1>1, <1>5

-----------------------------------------------------------------------------
(* The segmenter.  The value of a cut is a sum over its words, and it is   *)
(* the estimate of the first word and the value of the others.             *)

\* It is what Max returns.
LEMMA MaxIs ==
  ASSUME NEW V \in SUBSET Int, NEW m \in V, \A y \in V : y <= m
  PROVE  Tag!Max(V) = m
<1>1. ASSUME NEW x \in V, \A y \in V : x >= y PROVE x = m
  <2>1. x \in Int /\ m \in Int /\ x >= m /\ x <= m
    BY <1>1
  <2>2. QED
    BY <2>1
<1>2. \A y \in V : m >= y
  OBVIOUS
<1>3. (CHOOSE x \in V : \A y \in V : x >= y) = m
  BY <1>1, <1>2
<1>4. QED
  BY <1>3 DEF Tag!Max

\* Where a word begins that ends at e, and the values of the words of a cut.
Begins(i, s, e) == {i} \cup {d + 1 : d \in {c \in s : c < e}}
Parts(i, s) == [e \in s |-> estimates[<<Tag!Max(Begins(i, s, e)), e>>]]

\* The program as it is at first.
HashtagFits ==
  /\ input \in 1..MaxChars
  /\ estimates \in [{w \in (0..(input - 1)) \X (0..(input - 1)) : w[1] <= w[2]}
                      -> {-e : e \in Estimates}]

\* The estimate of a word.
LEMMA EstimateIs ==
  ASSUME HashtagFits, NEW b \in 0..(input - 1), NEW e \in 0..(input - 1), b <= e
  PROVE  estimates[<<b, e>>] \in Int /\ estimates[<<b, e>>] > -1000 /\ estimates[<<b, e>>] <= 0
<1>1. <<b, e>> \in {w \in (0..(input - 1)) \X (0..(input - 1)) : w[1] <= w[2]}
  OBVIOUS
<1>2. estimates[<<b, e>>] \in {-x : x \in Estimates}
  BY <1>1 DEF HashtagFits
<1>3. PICK x \in Estimates : estimates[<<b, e>>] = -x
  BY <1>2
<1>4. x \in Nat /\ x < 1000
  BY EstimatesAssumption DEF EstimatesAssumption
<1>5. QED
  BY <1>3, <1>4

\* A word begins within its rest.
LEMMA BeginIs ==
  ASSUME NEW i \in Nat, NEW s \in SUBSET Nat, \A d \in s : i <= d, NEW e \in s
  PROVE  /\ Begins(i, s, e) \in SUBSET (i..e)
         /\ \E m \in Begins(i, s, e) : /\ \A y \in Begins(i, s, e) : y <= m
                                      /\ Tag!Max(Begins(i, s, e)) = m
<1>1. e \in Nat /\ i <= e
  OBVIOUS
<1>2. ASSUME NEW y \in Begins(i, s, e) PROVE y \in i..e
  <2>1. CASE y = i
    BY <1>1, <2>1
  <2>2. CASE y # i
    <3>1. PICK d \in s : d < e /\ y = d + 1
      BY <1>2, <2>2 DEF Begins
    <3>2. QED
      BY <1>1, <3>1
  <2>3. QED
    BY <2>1, <2>2
<1>3. i \in Begins(i, s, e)
  BY DEF Begins
<1>4. Begins(i, s, e) \in SUBSET (i..e)
  BY <1>2
<1>5. Begins(i, s, e) \in SUBSET (0..e) /\ Begins(i, s, e) # {}
  BY <1>1, <1>3, <1>4
<1>6. PICK m \in Begins(i, s, e) : \A y \in Begins(i, s, e) : y <= m
  <2>1. 0 \in Int /\ e \in Int
    BY <1>1
  <2>2. \A a, b : a \in Int /\ b \in Int =>
          \A V \in SUBSET (a..b) : V # {} => \E m \in V : \A y \in V : y <= m
    BY GreatestBetween
  <2>3. QED
    BY <1>5, <2>1, <2>2
<1>7. Begins(i, s, e) \in SUBSET Int
  BY <1>5
<1>8. Tag!Max(Begins(i, s, e)) = m
  BY <1>6, <1>7, MaxIs
<1>9. QED
  BY <1>4, <1>6, <1>8

\* The value of a cut is the sum of the values of its words.
LEMMA ValueIs ==
  ASSUME NEW i, NEW s, IsFiniteSet(s)
  PROVE  \E f : Sums(f, Parts(i, s), s) /\ Tag!Value(i, s) = f[s]
<1> DEFINE Sum(f) == f = [t \in SUBSET s |-> IF t = {} THEN 0
                            ELSE LET x == CHOOSE x \in t : TRUE
                                     first == Tag!Max({i} \cup {d + 1 : d \in {c \in s : c < x}})
                                 IN estimates[<<first, x>>] + f[t \ {x}]]
           g == CHOOSE f : Sum(f)
<1>1. Tag!Value(i, s) = g[s]
  BY DEF Tag!Value, Tag!MapThenSumSet, Tag!MapThenFoldSet
<1>2. ASSUME NEW f PROVE Sum(f) <=> Sums(f, Parts(i, s), s)
  <2>1. \A t \in SUBSET s : t # {} =>
          Parts(i, s)[Picked(t)] = estimates[<<Tag!Max(Begins(i, s, Picked(t))), Picked(t)>>]
    <3>1. SUFFICES ASSUME NEW t \in SUBSET s, t # {} PROVE
            Parts(i, s)[Picked(t)] = estimates[<<Tag!Max(Begins(i, s, Picked(t))), Picked(t)>>]
      OBVIOUS
    <3>2. Picked(t) \in s
      BY <3>1, PickedIsIn
    <3>3. QED
      BY <3>2 DEF Parts
  <2>2. Sum(f) <=> f = [t \in SUBSET s |-> IF t = {} THEN 0
                          ELSE estimates[<<Tag!Max(Begins(i, s, Picked(t))), Picked(t)>>]
                                 + f[t \ {Picked(t)}]]
    BY DEF Picked, Begins
  <2>3. QED
    BY <2>1, <2>2 DEF Sums
<1>3. PICK f : Sums(f, Parts(i, s), s)
  BY SumsExist
<1>4. Sum(f)
  BY <1>2, <1>3
<1> HIDE DEF Sum
<1>5. Sum(g)
  BY <1>4
<1>6. Sums(g, Parts(i, s), s)
  BY <1>2, <1>5
<1>7. QED
  BY <1>1, <1>6

\* Values are numbers.
LEMMA PartsAre ==
  ASSUME HashtagFits, NEW i \in Nat, NEW s \in SUBSET (i..(input - 1))
  PROVE  IsFiniteSet(s) /\ \A x \in s : Parts(i, s)[x] \in Int
<1>1. input \in Nat
  BY LanguageAssumption DEF HashtagFits, LanguageAssumption
<1>2. IsFiniteSet(s)
  <2>1. IsFiniteSet(i..(input - 1))
    BY <1>1, FS_Interval
  <2>2. QED
    BY <2>1, FS_Subset
<1>3. ASSUME NEW x \in s PROVE Parts(i, s)[x] \in Int
  <2>1. s \in SUBSET Nat /\ \A d \in s : i <= d
    OBVIOUS
  <2>2. Tag!Max(Begins(i, s, x)) \in i..x
    BY <2>1, BeginIs
  <2>3. /\ Tag!Max(Begins(i, s, x)) \in 0..(input - 1) /\ x \in 0..(input - 1)
        /\ Tag!Max(Begins(i, s, x)) <= x
    BY <1>1, <2>2
  <2>4. Parts(i, s)[x] = estimates[<<Tag!Max(Begins(i, s, x)), x>>]
    BY DEF Parts
  <2>5. QED
    BY <2>3, <2>4, EstimateIs
<1>4. QED
  BY <1>2, <1>3

\* Without words the value is 0, otherwise the first word is cut off.
LEMMA FirstWord ==
  ASSUME HashtagFits, NEW i \in Nat, NEW e \in i..(input - 1),
         NEW r \in SUBSET ((e + 1)..(input - 1))
  PROVE  /\ Tag!Value(i, {e} \cup r) = estimates[<<i, e>>] + Tag!Value(e + 1, r)
         /\ Tag!Value(e + 1, r) \in Int
         /\ r = {} => Tag!Value(e + 1, r) = 0
<1> DEFINE s == {e} \cup r
<1>1. input \in Nat /\ e \in Nat /\ e + 1 \in Nat
  BY LanguageAssumption DEF HashtagFits, LanguageAssumption
<1>2. /\ s \in SUBSET (i..(input - 1)) /\ s \ {e} = r /\ e \in s /\ r \in SUBSET s
      /\ \A x \in r : x > e
  BY <1>1
<1>3. /\ IsFiniteSet(s) /\ \A x \in s : Parts(i, s)[x] \in Int
      /\ IsFiniteSet(r) /\ \A x \in r : Parts(e + 1, r)[x] \in Int
  BY <1>1, <1>2, PartsAre
<1>4. PICK f : Sums(f, Parts(i, s), s) /\ Tag!Value(i, s) = f[s]
  BY <1>3, ValueIs
<1>5. PICK g : Sums(g, Parts(e + 1, r), r) /\ Tag!Value(e + 1, r) = g[r]
  BY <1>3, ValueIs
<1>6. f[s] = Parts(i, s)[e] + f[r]
  <2>1. s \in SUBSET s
    OBVIOUS
  <2> HIDE DEF s
  <2>2. \A t \in SUBSET s : f[t] \in Int /\ \A x \in t : f[t] = Parts(i, s)[x] + f[t \ {x}]
    BY <1>3, <1>4, AnyOrder
  <2>3. QED
    BY <1>2, <2>1, <2>2
<1>7. Parts(i, s)[e] = estimates[<<i, e>>]
  <2>1. Begins(i, s, e) = {i}
    <3>1. \A d \in s : ~(d < e)
      BY <1>1
    <3> HIDE DEF s
    <3>2. QED
      BY <3>1 DEF Begins
  <2>2. Tag!Max({i}) = i
    BY MaxIs
  <2>3. QED
    BY <1>2, <2>1, <2>2 DEF Parts
<1>8. ASSUME NEW x \in r PROVE Parts(i, s)[x] = Parts(e + 1, r)[x]
  <2>1. r \in SUBSET Nat /\ (\A d \in r : e + 1 <= d)
    BY <1>1
  <2>2. PICK m \in Begins(e + 1, r, x) : /\ \A y \in Begins(e + 1, r, x) : y <= m
                                       /\ Tag!Max(Begins(e + 1, r, x)) = m
    BY <1>1, <2>1, BeginIs
  <2>3. Begins(i, s, x) = {i} \cup Begins(e + 1, r, x)
    <3>1. {c \in s : c < x} = {e} \cup {c \in r : c < x}
      BY <1>1, <1>2
    <3>2. {d + 1 : d \in {c \in s : c < x}} = {e + 1} \cup {d + 1 : d \in {c \in r : c < x}}
      BY <3>1
    <3> HIDE DEF s
    <3>3. QED
      BY <3>2 DEF Begins
  <2>4. e + 1 \in Begins(e + 1, r, x) /\ Begins(e + 1, r, x) \in SUBSET ((e + 1)..x)
    <3>1. e + 1 \in Begins(e + 1, r, x)
      BY DEF Begins
    <3>2. QED
      BY <1>1, <2>1, <3>1, BeginIs
  <2>5. /\ Begins(i, s, x) \in SUBSET Int /\ m \in Begins(i, s, x)
        /\ \A y \in Begins(i, s, x) : y <= m
    <3>1. x \in Nat /\ i \in Nat /\ i < e + 1 /\ m \in Int /\ e + 1 <= m
      BY <1>1, <2>2, <2>4
    <3>2. Begins(i, s, x) \in SUBSET Int /\ m \in Begins(i, s, x)
      BY <2>2, <2>3, <2>4, <3>1
    <3>3. ASSUME NEW y \in Begins(i, s, x) PROVE y <= m
      <4>1. y = i \/ y \in Begins(e + 1, r, x)
        BY <2>3, <3>3
      <4>2. QED
        BY <1>1, <2>2, <3>1, <4>1
    <3>4. QED
      BY <3>2, <3>3
  <2>6. Tag!Max(Begins(i, s, x)) = m
    BY <2>5, MaxIs
  <2>7. QED
    BY <1>2, <2>2, <2>6 DEF Parts
<1>9. f[r] = g[r]
  <2>1. r \in SUBSET (s \cap r)
    BY <1>2
  <2> DEFINE w == Parts(i, s)
             v == Parts(e + 1, r)
  <2>2. Sums(f, w, s) /\ Sums(g, v, r) /\ IsFiniteSet(s) /\ \A x \in r : w[x] = v[x]
    BY <1>3, <1>4, <1>5, <1>8
  <2> HIDE DEF s, w, v
  <2>3. \A t \in SUBSET (s \cap r) : (\A x \in t : w[x] = v[x]) => f[t] = g[t]
    BY <2>2, SameSums
  <2>4. QED
    BY <2>1, <2>2, <2>3
<1>10. g[r] \in Int
  <2> DEFINE v == Parts(e + 1, r)
  <2>0. Sums(g, v, r) /\ IsFiniteSet(r) /\ \A x \in r : v[x] \in Int
    BY <1>3, <1>5
  <2> HIDE DEF v
  <2>1. QED
    BY <2>0, SumIsInt
<1>11. r = {} => g[r] = 0
  BY <1>5, SumStep
<1>12. QED
  BY <1>4, <1>5, <1>6, <1>7, <1>9, <1>10, <1>11

\* The cuts of the rest from i: all of them end with the last character.
Cuts(i) == {cut \cup {input - 1} : cut \in SUBSET (i..(input - 2))}
EndsOf(splits) == {splits[k] : k \in DOMAIN splits}

\* The best splits of the rest from i.
RestFits(splits, prob, i) ==
  /\ splits \in Seq(i..(input - 1)) /\ prob \in Int
  /\ EndsOf(splits) \in Cuts(i)
  /\ \A k \in 2..Len(splits) : splits[k - 1] < splits[k]
  /\ prob = Tag!Value(i, EndsOf(splits))
  /\ \A cut \in Cuts(i) : Tag!Value(i, cut) <= prob

\* The inductive invariant of the segmenter: the tables hold the rests from at on, and
\* for each of them its best splits.
SegmenterInv ==
  /\ HashtagFits /\ at \in 0..input
  /\ DOMAIN table = at..(input - 1) /\ DOMAIN output = at..(input - 1)
  /\ \A i \in at..(input - 1) : RestFits(table[i], output[i], i)

\* No rest has been looked at yet.
LEMMA SegmenterStarts == ASSUME Tag!Init PROVE SegmenterInv
<1>1. /\ input \in 1..MaxChars /\ at = input /\ table = <<>> /\ output = <<>> /\ HashtagFits
  BY DEF Tag!Init, HashtagFits
<1>2. input \in Nat /\ input..(input - 1) = {}
  BY <1>1, LanguageAssumption DEF LanguageAssumption
<1>3. QED
  BY <1>1, <1>2 DEF SegmenterInv

\* The cuts of a rest by their first word.
LEMMA CutsAre ==
  ASSUME input \in Nat, NEW i \in 0..(input - 1)
  PROVE  /\ {input - 1} \in Cuts(i)
         /\ \A e \in i..(input - 2) : \A r \in Cuts(e + 1) : {e} \cup r \in Cuts(i)
         /\ \A cut \in Cuts(i) :
              \E e \in i..(input - 1) : \E r \in SUBSET ((e + 1)..(input - 1)) :
                /\ cut = {e} \cup r
                /\ e = input - 1 => r = {}
                /\ e < input - 1 => r \in Cuts(e + 1)
<1>1. {input - 1} \in Cuts(i)
  <2>1. {} \in SUBSET (i..(input - 2)) /\ {input - 1} = {} \cup {input - 1}
    OBVIOUS
  <2>2. QED
    BY <2>1 DEF Cuts
<1>2. ASSUME NEW e \in i..(input - 2), NEW r \in Cuts(e + 1) PROVE {e} \cup r \in Cuts(i)
  <2>1. PICK c \in SUBSET ((e + 1)..(input - 2)) : r = c \cup {input - 1}
    BY DEF Cuts
  <2>2. {e} \cup c \in SUBSET (i..(input - 2)) /\ {e} \cup r = ({e} \cup c) \cup {input - 1}
    BY <2>1
  <2>3. QED
    BY <2>2 DEF Cuts
<1>3. ASSUME NEW cut \in Cuts(i)
      PROVE  \E e \in i..(input - 1) : \E r \in SUBSET ((e + 1)..(input - 1)) :
               cut = {e} \cup r /\ (e = input - 1 => r = {}) /\ (e < input - 1 => r \in Cuts(e + 1))
  <2>1. PICK c \in SUBSET (i..(input - 2)) : cut = c \cup {input - 1}
    BY DEF Cuts
  <2>2. cut \in SUBSET Nat /\ cut # {} /\ cut \in SUBSET (i..(input - 1))
    BY <2>1
  <2>3. PICK e \in cut : \A y \in cut : e <= y
    BY <2>2, LeastNumber
  <2> DEFINE r == cut \ {e}
  <2>4. e \in i..(input - 1) /\ cut = {e} \cup r
    BY <2>2
  <2>5. r \in SUBSET ((e + 1)..(input - 1))
    <3>1. ASSUME NEW y \in r PROVE y \in (e + 1)..(input - 1)
      <4>1. y \in i..(input - 1) /\ e <= y /\ y # e
        BY <2>2, <2>3
      <4>2. QED
        BY <2>4, <4>1
    <3>2. QED
      BY <3>1
  <2>6. ASSUME e = input - 1 PROVE r = {}
    <3>1. (e + 1)..(input - 1) = {}
      BY <2>6
    <3> HIDE DEF r
    <3>2. QED
      BY <2>5, <3>1
  <2>7. ASSUME e < input - 1 PROVE r \in Cuts(e + 1)
    <3> DEFINE d == r \ {input - 1}
    <3>1. input - 1 \in r
      BY <2>1, <2>7
    <3> HIDE DEF r
    <3>2. d \in SUBSET ((e + 1)..(input - 2))
      <4>1. ASSUME NEW y \in d PROVE y \in (e + 1)..(input - 2)
        <5>1. y \in (e + 1)..(input - 1) /\ y # input - 1
          BY <2>5
        <5>2. QED
          BY <2>4, <5>1
      <4>2. QED
        BY <4>1
    <3>3. r = d \cup {input - 1}
      BY <3>1
    <3>4. QED
      BY <3>2, <3>3 DEF Cuts
  <2> HIDE DEF r
  <2>8. QED
    BY <2>4, <2>5, <2>6, <2>7
<1>4. QED
  BY <1>1, <1>2, <1>3

\* There is a first of the greatest.
LEMMA FirstGreatest ==
  ASSUME NEW a \in Nat, NEW b \in Nat, a <= b, NEW f, \A j \in a..b : f[j] \in Int
  PROVE  \E x \in a..b : \A y \in a..b : f[y] <= f[x] /\ (y < x => f[y] < f[x])
<1> DEFINE n == b - a + 1
           g == [x \in 1..n |-> f[b + 1 - x]]
<1>1. n \in Nat \ {0} /\ \A x \in 1..n : b + 1 - x \in a..b
  OBVIOUS
<1>2. \A x \in 1..n : g[x] \in Int /\ g[x] = f[b + 1 - x]
  BY <1>1
<1> HIDE DEF g
<1>3. PICK x \in 1..n : \A y \in 1..n : g[y] <= g[x] /\ (y > x => g[y] < g[x])
  <2> HIDE DEF n
  <2>1. QED
    BY <1>1, <1>2, LastGreatest
<1>4. ASSUME NEW j \in a..b
      PROVE  f[j] <= f[b + 1 - x] /\ (j < b + 1 - x => f[j] < f[b + 1 - x])
  <2> DEFINE y == b + 1 - j
  <2>1. y \in 1..n /\ b + 1 - y = j /\ (j < b + 1 - x => y > x)
    OBVIOUS
  <2> HIDE DEF y, n
  <2>2. g[y] <= g[x] /\ (y > x => g[y] < g[x]) /\ g[y] = f[j] /\ g[x] = f[b + 1 - x]
    BY <1>2, <1>3, <2>1
  <2>3. QED
    BY <2>1, <2>2
<1>5. b + 1 - x \in a..b
  BY <1>1
<1>6. QED
  BY <1>4, <1>5

\* One more rest, of which the first word ends at e, and no other is likelier.
LEMMA RestGrows ==
  ASSUME HashtagFits, NEW i \in 0..(input - 1), NEW t, NEW p,
         \A j \in (i + 1)..(input - 1) : RestFits(t[j], p[j], j),
         NEW e \in i..(input - 1), NEW P,
         \A j \in i..(input - 1) :
           /\ P[j] = estimates[<<i, j>>] + IF j = input - 1 THEN 0 ELSE p[j + 1]
           /\ P[j] <= P[e]
  PROVE  RestFits(<<e>> \o IF e = input - 1 THEN <<>> ELSE t[e + 1], P[e], i)
<1> DEFINE rest == IF e = input - 1 THEN <<>> ELSE t[e + 1]
           s == <<e>> \o rest
<1>1. input \in Nat /\ input > 0 /\ i \in Nat
  BY LanguageAssumption DEF HashtagFits, LanguageAssumption
<1>2. \A j \in i..(input - 1) : estimates[<<i, j>>] \in Int
  BY <1>1, EstimateIs
<1>3. \A j \in (i + 1)..(input - 1) : p[j] \in Int
  BY DEF RestFits
<1>4. \A j \in i..(input - 1) : P[j] \in Int
  <2>1. \A j \in i..(input - 1) : j # input - 1 => j + 1 \in (i + 1)..(input - 1)
    BY <1>1
  <2>2. SUFFICES ASSUME NEW j \in i..(input - 1) PROVE P[j] \in Int
    OBVIOUS
  <2>3. P[j] = estimates[<<i, j>>] + IF j = input - 1 THEN 0 ELSE p[j + 1]
    OBVIOUS
  <2>4. estimates[<<i, j>>] \in Int /\ (j # input - 1 => p[j + 1] \in Int)
    BY <1>2, <1>3, <2>1
  <2>5. QED
    BY <2>3, <2>4
<1>5. rest \in Seq(i..(input - 1)) /\ rest \in Seq((e + 1)..(input - 1))
  <2>1. CASE e = input - 1
    BY <2>1
  <2>2. CASE e # input - 1
    <3>1. e + 1 \in (i + 1)..(input - 1)
      BY <1>1, <2>2
    <3>2. t[e + 1] \in Seq((e + 1)..(input - 1))
      BY <3>1 DEF RestFits
    <3>3. rest = t[e + 1]
      BY <2>2
    <3> HIDE DEF rest
    <3>4. (e + 1)..(input - 1) \subseteq i..(input - 1)
      BY <1>1
    <3>5. rest \in Seq((e + 1)..(input - 1))
      BY <3>2, <3>3
    <3> DEFINE A == (e + 1)..(input - 1)
               B == i..(input - 1)
    <3>6. rest \in Seq(B)
      <4>1. A \subseteq B /\ rest \in Seq(A)
        BY <3>4, <3>5
      <4> HIDE DEF A, B
      <4>2. QED
        BY <4>1, SeqMonotonic
    <3>7. QED
      BY <3>5, <3>6
  <2>3. QED
    BY <2>1, <2>2
<1>6. e # input - 1 => /\ RestFits(rest, p[e + 1], e + 1) /\ e + 1 \in (i + 1)..(input - 1)
                      /\ e \in i..(input - 2)
  <2>1. e # input - 1 => e + 1 \in (i + 1)..(input - 1) /\ e \in i..(input - 2)
    BY <1>1
  <2>2. QED
    BY <2>1
<1>7. e = input - 1 => rest = <<>>
  OBVIOUS
<1> HIDE DEF rest
<1>8. /\ s \in Seq(i..(input - 1)) /\ Len(s) = Len(rest) + 1 /\ s[1] = e /\ Len(rest) \in Nat
      /\ \A k \in 2..Len(s) : s[k] = rest[k - 1] /\ k - 1 \in 1..Len(rest)
      /\ \A k \in 1..Len(rest) : s[k + 1] = rest[k] /\ rest[k] \in (e + 1)..(input - 1)
  <2>1. <<e>> \in Seq(i..(input - 1)) /\ Len(<<e>>) = 1 /\ <<e>>[1] = e
    OBVIOUS
  <2>2. s \in Seq(i..(input - 1)) /\ Len(s) = 1 + Len(rest) /\ Len(rest) \in Nat
        /\ \A k \in 1..(1 + Len(rest)) : s[k] = IF k <= 1 THEN <<e>>[k] ELSE rest[k - 1]
    BY <1>5, <2>1
  <2>3. \A k \in 1..Len(rest) : rest[k] \in (e + 1)..(input - 1)
    BY <1>5, ElementOfSeq
  <2> HIDE DEF s
  <2>4. QED
    BY <2>1, <2>2, <2>3
<1> HIDE DEF s
<1>9. EndsOf(s) = {e} \cup EndsOf(rest)
  <2>1. DOMAIN s = 1..(Len(rest) + 1) /\ DOMAIN rest = 1..Len(rest)
    BY <1>5, <1>8
  <2>2. ASSUME NEW k \in DOMAIN s PROVE s[k] \in {e} \cup EndsOf(rest)
    <3>1. CASE k = 1
      BY <1>8, <3>1
    <3>2. CASE k # 1
      <4>1. s[k] = rest[k - 1] /\ k - 1 \in DOMAIN rest
        BY <1>8, <2>1, <3>2
      <4>2. QED
        BY <4>1 DEF EndsOf
    <3>3. QED
      BY <3>1, <3>2
  <2>3. e \in EndsOf(s)
    <3>1. 1 \in DOMAIN s
      BY <1>8, <2>1
    <3>2. QED
      BY <1>8, <3>1 DEF EndsOf
  <2>4. ASSUME NEW k \in DOMAIN rest PROVE rest[k] \in EndsOf(s)
    <3>1. s[k + 1] = rest[k] /\ k + 1 \in DOMAIN s
      BY <1>8, <2>1
    <3>2. QED
      BY <3>1 DEF EndsOf
  <2>5. \A x \in EndsOf(s) : x \in {e} \cup EndsOf(rest)
    BY <2>2 DEF EndsOf
  <2>6. \A x \in EndsOf(rest) : x \in EndsOf(s)
    BY <2>4 DEF EndsOf
  <2>7. QED
    BY <2>3, <2>5, <2>6
<1>10. EndsOf(rest) \in SUBSET ((e + 1)..(input - 1))
  <2>1. DOMAIN rest = 1..Len(rest)
    BY <1>5
  <2>2. QED
    BY <1>8, <2>1 DEF EndsOf
<1>11. EndsOf(s) \in Cuts(i)
  <2>1. CASE e = input - 1
    <3>1. EndsOf(rest) = {}
      BY <1>7, <2>1 DEF EndsOf
    <3>2. QED
      <4>1. EndsOf(s) = {input - 1}
        BY <1>9, <2>1, <3>1
      <4>2. {input - 1} = {} \cup {input - 1} /\ {} \in SUBSET (i..(input - 2))
        OBVIOUS
      <4>3. QED
        BY <4>1, <4>2 DEF Cuts
  <2>2. CASE e # input - 1
    <3>1. EndsOf(rest) \in Cuts(e + 1) /\ e \in i..(input - 2)
      BY <1>6, <2>2 DEF RestFits
    <3>2. QED
      BY <1>1, <1>9, <3>1, CutsAre
  <2>3. QED
    BY <2>1, <2>2
<1>12. \A k \in 2..Len(s) : s[k - 1] < s[k]
  <2>1. SUFFICES ASSUME NEW k \in 2..Len(s) PROVE s[k - 1] < s[k]
    OBVIOUS
  <2>2. s[k] = rest[k - 1] /\ k - 1 \in 1..Len(rest) /\ rest[k - 1] \in (e + 1)..(input - 1)
    BY <1>8
  <2>3. CASE k = 2
    BY <1>8, <2>2, <2>3
  <2>4. CASE k # 2
    <3>1. k - 1 \in 2..Len(s) /\ k - 1 \in 2..Len(rest)
      BY <1>8, <2>1, <2>4
    <3>2. s[k - 1] = rest[(k - 1) - 1]
      BY <1>8, <3>1
    <3>3. e # input - 1
      BY <1>7, <3>1
    <3>4. rest[(k - 1) - 1] < rest[k - 1]
      BY <1>6, <3>1, <3>3 DEF RestFits
    <3>5. QED
      BY <2>2, <3>2, <3>4
  <2>5. QED
    BY <2>3, <2>4
<1>13. P[e] = Tag!Value(i, EndsOf(s))
  <2>1. /\ Tag!Value(i, EndsOf(s)) = estimates[<<i, e>>] + Tag!Value(e + 1, EndsOf(rest))
        /\ EndsOf(rest) = {} => Tag!Value(e + 1, EndsOf(rest)) = 0
    BY <1>1, <1>9, <1>10, FirstWord
  <2>2. CASE e = input - 1
    <3>1. EndsOf(rest) = {}
      BY <1>7, <2>2 DEF EndsOf
    <3>2. QED
      BY <2>1, <2>2, <3>1
  <2>3. CASE e # input - 1
    <3>1. p[e + 1] = Tag!Value(e + 1, EndsOf(rest))
      BY <1>6, <2>3 DEF RestFits
    <3>2. QED
      BY <2>1, <2>3, <3>1
  <2>4. QED
    BY <2>2, <2>3
<1>14. ASSUME NEW cut \in Cuts(i) PROVE Tag!Value(i, cut) <= P[e]
  <2>0. \A c \in Cuts(i) :
          \E d \in i..(input - 1) : \E r \in SUBSET ((d + 1)..(input - 1)) :
            /\ c = {d} \cup r
            /\ d = input - 1 => r = {}
            /\ d < input - 1 => r \in Cuts(d + 1)
    BY <1>1, CutsAre
  <2> PICK d \in i..(input - 1) : \E r \in SUBSET ((d + 1)..(input - 1)) :
          /\ cut = {d} \cup r
          /\ d = input - 1 => r = {}
          /\ d < input - 1 => r \in Cuts(d + 1)
    BY <2>0
  <2>1. PICK r \in SUBSET ((d + 1)..(input - 1)) :
          /\ cut = {d} \cup r
          /\ d = input - 1 => r = {}
          /\ d < input - 1 => r \in Cuts(d + 1)
    OBVIOUS
  <2>2. /\ Tag!Value(i, cut) = estimates[<<i, d>>] + Tag!Value(d + 1, r)
        /\ Tag!Value(d + 1, r) \in Int
        /\ r = {} => Tag!Value(d + 1, r) = 0
    BY <1>1, <2>1, FirstWord
  <2>3. Tag!Value(i, cut) <= P[d]
    <3>1. CASE d = input - 1
      <4>1. P[d] = estimates[<<i, d>>] + 0 /\ P[d] \in Int
        BY <1>4, <3>1
      <4>2. QED
        BY <1>2, <2>1, <2>2, <3>1, <4>1
    <3>2. CASE d # input - 1
      <4>1. d + 1 \in (i + 1)..(input - 1) /\ d < input - 1
        BY <1>1, <3>2
      <4>2. Tag!Value(d + 1, r) <= p[d + 1]
        BY <2>1, <4>1 DEF RestFits
      <4>3. P[d] = estimates[<<i, d>>] + p[d + 1]
        BY <3>2
      <4>4. QED
        BY <1>2, <1>3, <2>2, <4>1, <4>2, <4>3
    <3>3. QED
      BY <3>1, <3>2
  <2>4. P[d] <= P[e] /\ P[d] \in Int /\ P[e] \in Int /\ Tag!Value(i, cut) \in Int
    BY <1>2, <1>4, <2>2
  <2>5. QED
    BY <2>3, <2>4
<1>15. RestFits(s, P[e], i)
  BY <1>4, <1>8, <1>11, <1>12, <1>13, <1>14 DEF RestFits
<1>16. QED
  BY <1>15 DEF s, rest

\* The candidates of a step are numbers, and the winner is one of them, if there is one that
\* is greater than the least number.
LEMMA WinnerIs ==
  ASSUME SegmenterInv, at > 0
  PROVE  /\ at - 1 \in 0..(input - 1) /\ Tag!Winner \in (at - 1)..(input - 1)
         /\ \A j \in (at - 1)..(input - 1) :
              Tag!Prob(j) \in Int /\ Tag!Prob(j) <= Tag!Prob(Tag!Winner)
<1> DEFINE i == at - 1
<1>1. HashtagFits /\ input \in Nat /\ input > 0 /\ at \in Nat /\ at <= input
  BY LanguageAssumption DEF SegmenterInv, HashtagFits
<1>2. i \in 0..(input - 1) /\ input - 1 \in i..(input - 1) /\ i \in Nat /\ input - 1 \in Nat
  BY <1>1
<1>3. \A j \in at..(input - 1) : output[j] \in Int
  BY DEF SegmenterInv, RestFits
<1>4. ASSUME NEW j \in i..(input - 1) PROVE Tag!Prob(j) \in Int
  <2>1. estimates[<<i, j>>] \in Int
    BY <1>1, <1>2, EstimateIs
  <2>2. j # input - 1 => j + 1 \in at..(input - 1)
    BY <1>1
  <2>3. Tag!Prob(j) = estimates[<<i, j>>] + IF j = input - 1 THEN 0 ELSE output[j + 1]
    BY DEF Tag!Prob
  <2>4. QED
    BY <1>3, <2>1, <2>2, <2>3
<1>5. Tag!Prob(input - 1) > Tag!Least
  <2>1. estimates[<<i, input - 1>>] \in Int /\ estimates[<<i, input - 1>>] > -1000
    BY <1>1, <1>2, EstimateIs
  <2>2. Tag!Prob(input - 1) = estimates[<<i, input - 1>>] + 0
    BY DEF Tag!Prob
  <2>3. QED
    BY <2>1, <2>2 DEF Tag!Least
<1> DEFINE P == [j \in i..(input - 1) |-> Tag!Prob(j)]
<1>6. \A j \in i..(input - 1) : P[j] \in Int /\ P[j] = Tag!Prob(j)
  BY <1>4
<1> HIDE DEF P
<1>7. PICK x \in i..(input - 1) : \A y \in i..(input - 1) : P[y] <= P[x] /\ (y < x => P[y] < P[x])
  <2>1. i <= input - 1 /\ \A j \in i..(input - 1) : P[j] \in Int
    BY <1>2, <1>6
  <2> HIDE DEF i
  <2>2. QED
    BY <1>2, <2>1, FirstGreatest
<1>8. Tag!Prob(x) > Tag!Least
  <2>1. Tag!Prob(input - 1) <= Tag!Prob(x) /\ Tag!Prob(x) \in Int /\ Tag!Prob(input - 1) \in Int
    BY <1>2, <1>6, <1>7
  <2>2. QED
    BY <1>5, <2>1 DEF Tag!Least
<1>9. \E w \in (at - 1)..(input - 1) :
        /\ Tag!Prob(w) > Tag!Least
        /\ \A j \in (at - 1)..(input - 1) :
             Tag!Prob(j) <= Tag!Prob(w) /\ (j < w => Tag!Prob(j) < Tag!Prob(w))
  BY <1>6, <1>7, <1>8
<1>10. /\ Tag!Winner \in (at - 1)..(input - 1)
       /\ \A j \in (at - 1)..(input - 1) : Tag!Prob(j) <= Tag!Prob(Tag!Winner)
  BY <1>9 DEF Tag!Winner
<1>11. QED
  BY <1>2, <1>4, <1>10

\* A step adds the best splits of one more rest.
LEMMA SegmenterKeeps == ASSUME SegmenterInv, Tag!Segment PROVE SegmenterInv'
<1> DEFINE i == at - 1
           w == Tag!Winner
           P == [j \in i..(input - 1) |-> Tag!Prob(j)]
<1>1. /\ at \in Nat /\ at > 0 /\ at' = i /\ input' = input /\ estimates' = estimates
      /\ table' = [j \in i..(input - 1) |-> IF j = i THEN Tag!Candidate(w) ELSE table[j]]
      /\ output' = [j \in i..(input - 1) |-> IF j = i THEN Tag!Prob(w) ELSE output[j]]
  BY LanguageAssumption DEF SegmenterInv, HashtagFits, Tag!Segment
<1>2. HashtagFits /\ input \in Nat /\ at <= input
  BY LanguageAssumption DEF SegmenterInv, HashtagFits
<1>3. /\ i \in 0..(input - 1) /\ w \in i..(input - 1)
      /\ \A j \in i..(input - 1) : Tag!Prob(j) <= Tag!Prob(w)
  BY <1>1, WinnerIs
<1> HIDE DEF w
<1>4. RestFits(Tag!Candidate(w), Tag!Prob(w), i)
  <2>1. \A j \in (i + 1)..(input - 1) : RestFits(table[j], output[j], j)
    BY <1>1 DEF SegmenterInv
  <2>2. \A j \in i..(input - 1) :
          /\ P[j] = estimates[<<i, j>>] + IF j = input - 1 THEN 0 ELSE output[j + 1]
          /\ P[j] <= P[w]
    BY <1>3 DEF Tag!Prob
  <2>3. Tag!Candidate(w) = <<w>> \o IF w = input - 1 THEN <<>> ELSE table[w + 1]
    BY DEF Tag!Candidate
  <2>4. P[w] = Tag!Prob(w)
    BY <1>3
  <2> HIDE DEF P, i
  <2>5. QED
    BY <1>2, <1>3, <2>1, <2>2, <2>3, <2>4, RestGrows
<1>5. HashtagFits'
  BY <1>1, <1>2 DEF HashtagFits
<1>6. ASSUME NEW j \in i..(input - 1) PROVE RestFits(table[j], output[j], j)'
  <2>1. RestFits(table'[j], output'[j], j)
    <3>1. CASE j = i
      <4>1. table'[j] = Tag!Candidate(w) /\ output'[j] = Tag!Prob(w)
        BY <1>1, <3>1
      <4>2. QED
        BY <1>4, <3>1, <4>1
    <3>2. CASE j # i
      <4>1. j \in at..(input - 1) /\ table'[j] = table[j] /\ output'[j] = output[j]
        BY <1>1, <3>2
      <4>2. QED
        BY <4>1 DEF SegmenterInv
    <3>3. QED
      BY <3>1, <3>2
  <2>2. \A s : Tag!Value(j, s)' = Tag!Value(j, s)
    BY <1>1 DEF Tag!Value, Tag!MapThenSumSet, Tag!MapThenFoldSet
  <2>3. Cuts(j)' = Cuts(j) /\ EndsOf(table[j])' = EndsOf(table'[j])
    BY <1>1 DEF Cuts, EndsOf
  <2>4. Tag!Value(j, EndsOf(table[j]))' = Tag!Value(j, EndsOf(table'[j]))
    BY <1>1 DEF Tag!Value, Tag!MapThenSumSet, Tag!MapThenFoldSet, EndsOf
  <2>5. QED
    BY <1>1, <2>1, <2>2, <2>3, <2>4 DEF RestFits
<1>7. at' \in 0..input' /\ DOMAIN table' = at'..(input' - 1) /\ DOMAIN output' = at'..(input' - 1)
  <2>1. at' \in 0..input'
    BY <1>1, <1>2, <1>3
  <2>2. DOMAIN table' = i..(input - 1) /\ DOMAIN output' = i..(input - 1)
    BY <1>1
  <2> HIDE DEF i
  <2>3. QED
    BY <1>1, <2>1, <2>2
<1>8. QED
  BY <1>1, <1>5, <1>6, <1>7 DEF SegmenterInv

\* What the properties of the segmenter say follows.
LEMMA SplitsAreBest == ASSUME SegmenterInv PROVE Tag!TypeOK /\ Tag!SplitsBest
<1>1. \A i \in DOMAIN table : RestFits(table[i], output[i], i)
  BY DEF SegmenterInv
<1>2. Tag!TypeOK
  BY <1>1 DEF SegmenterInv, RestFits, Tag!TypeOK
<1>3. Tag!SplitsBest
  BY <1>1 DEF RestFits, EndsOf, Cuts, Tag!SplitsBest
<1>4. QED
  BY <1>2, <1>3

-----------------------------------------------------------------------------
(* All programs together.                                                  *)

\* One of the programs runs.
LEMMA SomeProgram ==
  Spec => [](program \in {"jobs", "parser", "tagger", "segmenter"})
<1> DEFINE Inv == program \in {"jobs", "parser", "tagger", "segmenter"}
<1>1. Init => Inv
  BY DEF Init
<1>2. ASSUME Inv, [Next]_vars PROVE Inv'
  BY <1>2 DEF Next, vars, MainStep, JobStep, Circle, Compute
<1>3. QED
  BY <1>1, <1>2, PTL DEF Spec

\* Whatever the hash codes of the nonterminals are, the parser fills its chart cell by cell,
\* and what it finds under a key is a Pie of the span it asked for, whose back pointers
\* split that span and give its value.  If the keys tell the nonterminals apart, it is the
\* best value.
THEOREM ChartInvariance == Spec => [](program = "parser" => ChartInv)
<1> DEFINE Inv == program = "parser" => ChartInv
<1>1. Init => Inv
  BY ChartStarts DEF Init
<1>2. ASSUME Inv, [Next]_vars PROVE Inv'
  <2>1. SUFFICES ASSUME program' = "parser" PROVE ChartInv'
    OBVIOUS
  <2>2. program = "parser" /\ ChartInv
    BY <1>2, <2>1 DEF Next, vars, MainStep, JobStep, Circle, Compute
  <2>3. Parser!Next \/ UNCHANGED vars
    BY <1>2, <2>2 DEF Next, MainStep, JobStep, Circle, Compute
  <2>4. CASE Parser!Next
    BY <2>2, <2>4, ChartKeeps
  <2>5. CASE UNCHANGED vars
    <3>1. /\ UNCHANGED <<input, estimates, model, batch>>
          /\ table' = table /\ at' = at /\ phase' = phase
      BY <2>5 DEF vars
    <3>2. SentenceFits' /\ CellFits(at)' /\ ChartFits(table, at)'
      BY <2>2, <3>1, ChartSame DEF ChartInv
    <3>3. Key(<<0, input - 1, SBARQ>>)' = Key(<<0, input - 1, SBARQ>>)
      BY <3>1, ChartSame
    <3>4. QED
      BY <2>2, <3>1, <3>2, <3>3 DEF ChartInv
  <2>6. QED
    BY <2>3, <2>4, <2>5
<1>3. QED
  BY <1>1, <1>2, PTL DEF Spec

\* The tagger keeps the best value of every pair of tags, word by word.
THEOREM TaggerInvariance == Spec => [](program = "tagger" => TaggerInv)
<1> DEFINE Inv == program = "tagger" => TaggerInv
<1>1. Init => Inv
  BY TaggerStarts DEF Init
<1>2. ASSUME Inv, [Next]_vars PROVE Inv'
  <2>1. SUFFICES ASSUME program' = "tagger" PROVE TaggerInv'
    OBVIOUS
  <2>2. program = "tagger" /\ TaggerInv
    BY <1>2, <2>1 DEF Next, vars, MainStep, JobStep, Circle, Compute
  <2>3. Tagger!Next \/ UNCHANGED vars
    BY <1>2, <2>2 DEF Next, MainStep, JobStep, Circle, Compute
  <2>4. CASE Tagger!Next
    BY <2>2, <2>4, TaggerKeeps
  <2>5. CASE UNCHANGED vars
    <3>1. UNCHANGED <<input, model, estimates, at, table, flag, output>>
      BY <2>5 DEF vars
    <3>2. \A key \in DOMAIN table' : EntryFits(table[key], table, key)'
      BY <2>2, <3>1, TableStays
    <3>3. \A u, v : Tagger!Stopped(u, v)' = Tagger!Stopped(u, v)
      BY <3>1 DEF Tagger!Stopped, Tagger!get3gramEstimate
    <3>4. \A p, key : WayBack(p, table, key)' <=> WayBack(p, table, key)
      BY <3>1 DEF WayBack
    <3>5. TracedBack' <=> TracedBack
      BY <3>1, <3>3, <3>4 DEF TracedBack
    <3>6. QED
      BY <2>2, <3>1, <3>2, <3>5 DEF TaggerInv
  <2>6. QED
    BY <2>3, <2>4, <2>5
<1>3. QED
  BY <1>1, <1>2, PTL DEF Spec

\* The segmenter keeps the best splits of every rest, the shortest first.
THEOREM SegmenterInvariance == Spec => [](program = "segmenter" => SegmenterInv)
<1> DEFINE Inv == program = "segmenter" => SegmenterInv
<1>1. Init => Inv
  BY SegmenterStarts DEF Init
<1>2. ASSUME Inv, [Next]_vars PROVE Inv'
  <2>1. SUFFICES ASSUME program' = "segmenter" PROVE SegmenterInv'
    OBVIOUS
  <2>2. program = "segmenter" /\ SegmenterInv
    BY <1>2, <2>1 DEF Next, vars, MainStep, JobStep, Circle, Compute
  <2>3. Tag!Segment \/ UNCHANGED vars
    BY <1>2, <2>2 DEF Next, MainStep, JobStep, Circle, Compute
  <2>4. CASE Tag!Segment
    BY <2>2, <2>4, SegmenterKeeps
  <2>5. CASE UNCHANGED vars
    <3>1. input' = input /\ estimates' = estimates /\ at' = at /\ table' = table /\ output' = output
      BY <2>5 DEF vars
    <3>2. \A i, s : Tag!Value(i, s)' = Tag!Value(i, s)
      BY <3>1 DEF Tag!Value, Tag!MapThenSumSet, Tag!MapThenFoldSet
    <3>3. \A i : Cuts(i)' = Cuts(i)
      BY <3>1 DEF Cuts
    <3>4. \A i : Tag!Value(i, EndsOf(table[i]))' = Tag!Value(i, EndsOf(table[i]))
      BY <3>1 DEF Tag!Value, Tag!MapThenSumSet, Tag!MapThenFoldSet, EndsOf
    <3>5. \A i : RestFits(table[i], output[i], i)' <=> RestFits(table[i], output[i], i)
      BY <3>1, <3>2, <3>3, <3>4 DEF RestFits, EndsOf
    <3>6. HashtagFits'
      BY <2>2, <3>1 DEF SegmenterInv, HashtagFits
    <3>7. QED
      BY <2>2, <3>1, <3>5, <3>6 DEF SegmenterInv
  <2>6. QED
    BY <2>3, <2>4, <2>5
<1>3. QED
  BY <1>1, <1>2, PTL DEF Spec

\* Whichever program runs, its tables have what they should and its positions are within
\* them.
THEOREM TypesSafe == Spec => []TypeOK
<1> DEFINE Inv == /\ program = "jobs" => JobsInv
                  /\ program = "parser" => ChartInv
                  /\ program = "tagger" => TaggerInv
                  /\ program = "segmenter" => SegmenterInv
           Known == program \in {"jobs", "parser", "tagger", "segmenter"}
<1>1. Inv /\ Known => TypeOK
  <2>1. SUFFICES ASSUME Inv, Known PROVE TypeOK
    OBVIOUS
  <2>2. CASE program = "jobs"
    BY <2>1, <2>2, JobsAgree DEF TypeOK
  <2>3. CASE program = "parser"
    BY <2>1, <2>3, ChartIsBest DEF TypeOK
  <2>4. CASE program = "tagger"
    BY <2>1, <2>4, TaggerTyped DEF TypeOK
  <2>5. CASE program = "segmenter"
    BY <2>1, <2>5, SplitsAreBest DEF TypeOK
  <2>6. QED
    BY <2>1, <2>2, <2>3, <2>4, <2>5
<1>2. QED
  BY <1>1, SomeProgram, JobsInvariance, ChartInvariance, TaggerInvariance, SegmenterInvariance,
     PTL

\* The tagger's tags and the segmenter's words are the best of all, for sentences and
\* hashtags of every length within the bounds, whatever words and pairs of tags are known
\* and whatever the words of a hashtag are worth.  The parser's tree covers the sentence
\* whatever rules and hash codes there are, and is the best of all if no two nonterminals
\* are alike in the sixteen bits of the hash code that a key keeps.
THEOREM BestSafe == Spec => []BestFound
<1> DEFINE Inv == /\ program = "parser" => ChartInv
                  /\ program = "tagger" => TaggerInv
                  /\ program = "segmenter" => SegmenterInv
<1>1. Inv => BestFound
  <2>1. SUFFICES ASSUME Inv PROVE BestFound
    OBVIOUS
  <2>2. CASE program = "parser"
    BY <2>1, <2>2, ChartIsBest, TreeIsBest DEF BestFound
  <2>3. CASE program = "tagger"
    BY <2>1, <2>3, TagsAreBest DEF BestFound
  <2>4. CASE program = "segmenter"
    BY <2>1, <2>4, SplitsAreBest DEF BestFound
  <2>5. CASE program \notin {"parser", "tagger", "segmenter"}
    BY <2>5 DEF BestFound
  <2>6. QED
    BY <2>2, <2>3, <2>4, <2>5
<1>2. QED
  BY <1>1, ChartInvariance, TaggerInvariance, SegmenterInvariance, PTL

=============================================================================
