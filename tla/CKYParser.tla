----------------------------- MODULE CKYParser ------------------------------
(***************************************************************************)
(* parser/CKYParser.java: the chart of a sentence, filled from short spans *)
(* to long ones, in a HashMap whose keys pack a span and a hash code into  *)
(* one integer, and the tree that the back pointers of the chart give.     *)
(*                                                                         *)
(* Nonterminals are numbered in the order in which the loops take them,    *)
(* and each has the hash code of its name, of which a key keeps the lowest *)
(* sixteen bits: two that are alike in these share their entries.  The     *)
(* logarithms of the estimates are small negative integers, and MIN stands *)
(* for -Double.MAX_VALUE and for the logarithm of 0: a sum with either is  *)
(* not greater than it.                                                    *)
(***************************************************************************)
EXTENDS Integers, Sequences, FiniteSets, FiniteSetsExt, Functions

CONSTANTS NTs,        \* the nonterminals are 0..(NTs - 1)
          SBARQ,      \* the one of a whole sentence
          Hashes,     \* bound: hash codes of their names
          MaxLength   \* bound: words in a sentence

VARIABLES n,           \* words in the sentence
          emmission,   \* emmission[X][i]: the estimate of the i-th word, from 0, for X
          rules,       \* the binary rules <<X, y, z>>
          hashCode,    \* of the names of the nonterminals
          invariants,  \* the chart: a Pie for each key
          cell,        \* the length, the begin and the nonterminal of the next Pie
          outcome      \* of the parse

vars == <<n, emmission, rules, hashCode, invariants, cell, outcome>>

MIN == -1000
null == <<>>
Nonterminals == 0..(NTs - 1)
Sum(terms) == IF MIN \in {terms[x] : x \in DOMAIN terms} THEN MIN
              ELSE terms[1] + terms[2] + terms[3]

\* The estimate of a rule: rules differ.
RuleEstimate(y, z) == IF y = z THEN -1 ELSE -2

\* What is left of a hash code that is shifted by sixteen bits, before the shift.
Kept(X) == ((hashCode[X] + 32768) % 65536) - 32768

\* Mutant of getKey: the begin of the span is shifted to the right.
RightShift(i, j, X) == Kept(X) * 65536 + i \div 256 + j

getKey(i, j, X) == Kept(X) * 65536 + i * 256 + j

Pie(i, X, value, left, right) ==
  [start |-> i, NT |-> X, value |-> value, bpLeft |-> left, bpRight |-> right]

Init == /\ n \in 1..MaxLength
        /\ emmission \in [Nonterminals -> [0..(n - 1) -> {MIN, -1}]]
        /\ rules \in SUBSET (Nonterminals \X Nonterminals \X Nonterminals)
        /\ hashCode \in [Nonterminals -> Hashes]
        /\ hashCode[SBARQ] = 78683537   \* that of the string "SBARQ"
        /\ invariants = <<>>
        /\ cell = [l |-> 1, i |-> 0, X |-> 0]
        /\ outcome = "parsing"

\* The word whose key it is: its last eight bits.
WordOf(key) == key % 256

\* Which nonterminal is the first that pie() is asked for, of those alike, for each of
\* the words from i to j that are not in the chart yet: any of them.
FirstAsked(i, j) ==
  LET keys == {getKey(k, k, X) : k \in i..j, X \in Nonterminals} \ DOMAIN invariants
  IN {f \in [keys -> Nonterminals] :
        \A key \in keys : getKey(WordOf(key), WordOf(key), f[key]) = key}

\* The chart with these words, which pie() makes when they are asked for.
Words(first) ==
  [key \in DOMAIN invariants \cup DOMAIN first |->
     IF key \in DOMAIN first
     THEN Pie(WordOf(key), first[key], emmission[first[key]][WordOf(key)], null, null)
     ELSE invariants[key]]

\* Mutant of Splits: the last split is left out.
FewerSplits(i, j) == IF j = i + 1 THEN {i} ELSE i..(j - 2)

\* The splits of a span: the left part ends at k.
Splits(i, j) == i..(j - 1)

\* What the loops over rules and splits find for X, with their sums.
Candidates(chart, i, j, X) ==
  {[k |-> k, y |-> r[2], z |-> r[3],
    value |-> Sum(<<RuleEstimate(r[2], r[3]), chart[getKey(i, k, r[2])].value,
                    chart[getKey(k + 1, j, r[3])].value>>)] :
     r \in {s \in rules : s[1] = X}, k \in Splits(i, j)}

\* pie() is asked for a longer span that is not in the chart, and exits.
Missing(chart, i, j) ==
  \E k \in Splits(i, j), X \in Nonterminals :
    \/ i < k /\ getKey(i, k, X) \notin DOMAIN chart
    \/ k + 1 < j /\ getKey(k + 1, j, X) \notin DOMAIN chart

\* The loops of fillInvariants: by length, by begin, by nonterminal.
NextCell(c) == CASE c.X < NTs - 1                     -> [c EXCEPT !.X = @ + 1]
                 [] c.X = NTs - 1 /\ c.i + c.l < n - 1 -> [c EXCEPT !.X = 0, !.i = @ + 1]
                 [] c.X = NTs - 1 /\ c.i + c.l = n - 1 -> [l |-> c.l + 1, i |-> 0, X |-> 0]

\* One Pie, in the place of any with its key: of several splits with the greatest value,
\* that of the first, in no particular order.
Fill ==
  /\ outcome = "parsing"
  /\ cell.l < n
  /\ \E first \in FirstAsked(cell.i, cell.i + cell.l) :
       LET i == cell.i
           j == cell.i + cell.l
           chart == Words(first)
           possible == {c \in Candidates(chart, i, j, cell.X) : c.value > MIN}
           Put(p) == invariants' = [key \in DOMAIN chart \cup {getKey(i, j, cell.X)} |->
                                      IF key = getKey(i, j, cell.X) THEN p ELSE chart[key]]
       IN IF Missing(chart, i, j)
          THEN outcome' = "exit" /\ UNCHANGED <<invariants, cell>>
          ELSE /\ IF possible = {}
                  THEN Put(Pie(i, cell.X, MIN, null, null))
                  ELSE \E best \in possible :
                         /\ \A c \in possible : c.value <= best.value
                         /\ Put(Pie(i, cell.X, best.value, chart[getKey(i, best.k, best.y)],
                                    chart[getKey(best.k + 1, j, best.z)]))
               /\ cell' = NextCell(cell)
               /\ UNCHANGED outcome
  /\ UNCHANGED <<n, emmission, rules, hashCode>>

\* parse() passes the Pie at the root to toJSON().  A single word has none, which is
\* a NullPointerException.
Parse == /\ outcome = "parsing"
         /\ cell.l = n
         /\ outcome' = IF getKey(0, n - 1, SBARQ) \in DOMAIN invariants
                       THEN "parsed" ELSE "NullPointerException"
         /\ UNCHANGED <<n, emmission, rules, hashCode, invariants, cell>>

Next == Fill \/ Parse

Spec == Init /\ [][Next]_vars

-----------------------------------------------------------------------------
TypeOK == /\ n \in 1..MaxLength
          /\ rules \subseteq Nonterminals \X Nonterminals \X Nonterminals
          /\ cell.l \in 1..n /\ cell.i \in 0..n /\ cell.X \in Nonterminals
          /\ \A key \in DOMAIN invariants : invariants[key].value \in MIN..-1

\* The values of all trees with root s[3] over the words from s[1] to s[2].
Trees[s \in (0..(n - 1)) \X (0..(n - 1)) \X Nonterminals] ==
  IF s[1] = s[2] THEN {emmission[s[3]][s[1]]} \ {MIN}
  ELSE UNION {{RuleEstimate(r[2], r[3]) + v[1] + v[2] :
                 v \in Trees[<<s[1], k, r[2]>>] \X Trees[<<k + 1, s[2], r[3]>>]} :
              r \in {q \in rules : q[1] = s[3]}, k \in s[1]..(s[2] - 1)}
Best(i, j, X) == IF Trees[<<i, j, X>>] = {} THEN MIN ELSE Max(Trees[<<i, j, X>>])

\* The spans whose Pies have all been made.
Filled == {s \in (0..(n - 1)) \X (0..(n - 1)) : s[1] < s[2] /\ s[2] - s[1] < cell.l}

\* The keys keep of the hash codes what tells the nonterminals from each other.
HashesDiffer == \A X, Y \in Nonterminals : Kept(X) = Kept(Y) => X = Y

\* No span is asked for before it has been filled, and if the keys tell the nonterminals
\* apart, every entry of the chart is the value of the best of all trees over its span.
ChartBest == /\ outcome # "exit"
             /\ HashesDiffer => \A s \in Filled, X \in Nonterminals :
                  invariants[getKey(s[1], s[2], X)].value = Best(s[1], s[2], X)

\* The words under a Pie, and its value by the rules of its own nodes.
Leaves[p \in Range(invariants)] ==
  IF p.bpLeft = null THEN <<p.start>> ELSE Leaves[p.bpLeft] \o Leaves[p.bpRight]
Value[p \in Range(invariants)] ==
  IF p.bpLeft = null THEN emmission[p.NT][p.start]
  ELSE RuleEstimate(p.bpLeft.NT, p.bpRight.NT) + Value[p.bpLeft] + Value[p.bpRight]

\* The tree that is printed, if there is one, covers all words in their order, whichever
\* nonterminals are alike.  If none are, a sentence that has a tree gets one, and no other
\* has a greater value.
TreeBest == outcome = "parsed" =>
              LET root == invariants[getKey(0, n - 1, SBARQ)]
                  told == HashesDiffer /\ Trees[<<0, n - 1, SBARQ>>] # {}
              IN /\ root.bpLeft # null \/ told => Leaves[root] = [k \in 1..n |-> k - 1]
                 /\ told => Value[root] = Best(0, n - 1, SBARQ)
=============================================================================
