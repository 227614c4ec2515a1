----------------------------- MODULE Segmenter ------------------------------
(***************************************************************************)
(* nuvento/solution/Segmenter.java: the likeliest words of a hashtag, with *)
(* a table of the best splits of every rest of it.  The characters are     *)
(* 0..(len - 1); a list of splits has the last character of every word.    *)
(***************************************************************************)
EXTENDS Integers, Sequences, FiniteSets, FiniteSetsExt

CONSTANTS MaxChars,   \* bound: characters of the hashtag
          Estimates   \* bound: the estimates of words, negated

VARIABLES len,
          emmission,  \* emmission[<<i, j>>]: the estimate of the word from i to j
          index,      \* the rests from here on are in the table
          pie_splits,
          pie_probs

vars == <<len, emmission, index, pie_splits, pie_probs>>

Least == -1000  \* -Integer.MIN_VALUE, which is Integer.MIN_VALUE

Init == /\ len \in 1..MaxChars
        /\ emmission \in [{w \in (0..(len - 1)) \X (0..(len - 1)) : w[1] <= w[2]}
                            -> {-e : e \in Estimates}]
        /\ index = len
        /\ pie_splits = <<>>
        /\ pie_probs = <<>>

\* Mutant of Candidate: the end of the word within the rest, not within the hashtag.
WithinRest(i) == <<i - index + 1>> \o IF i = len - 1 THEN <<>> ELSE pie_splits[i + 1]

\* The candidates of segment(): a first word that ends at i, and the best of the rest.
Candidate(i) == <<i>> \o IF i = len - 1 THEN <<>> ELSE pie_splits[i + 1]

\* Mutant of Prob: the first word counts twice, instead of the rest.
FirstTwice(i) == emmission[<<index - 1, i>>] + emmission[<<index - 1, i>>]

\* What findMax() computes for a candidate of the rest from index - 1.
Prob(i) == emmission[<<index - 1, i>>] + IF i = len - 1 THEN 0 ELSE pie_probs[i + 1]

\* findMax(): the first of the greatest.
Winner == CHOOSE i \in (index - 1)..(len - 1) :
            /\ Prob(i) > Least
            /\ \A j \in (index - 1)..(len - 1) : Prob(j) <= Prob(i) /\ (j < i => Prob(j) < Prob(i))

\* segment() returns from the recursion: the shortest rest comes first.
Segment == /\ index > 0
           /\ index' = index - 1
           /\ pie_splits' = [i \in index'..(len - 1) |->
                               IF i = index' THEN Candidate(Winner) ELSE pie_splits[i]]
           /\ pie_probs' = [i \in index'..(len - 1) |->
                              IF i = index' THEN Prob(Winner) ELSE pie_probs[i]]
           /\ UNCHANGED <<len, emmission>>

Spec == Init /\ [][Segment]_vars

-----------------------------------------------------------------------------
TypeOK == /\ index \in 0..len
          /\ DOMAIN pie_splits = index..(len - 1) /\ DOMAIN pie_probs = index..(len - 1)
          /\ \A i \in DOMAIN pie_splits : pie_splits[i] \in Seq(i..(len - 1))

\* The ends of words as the characters after which there is a cut, and the value of
\* the words from character i on.
Value(i, ends) ==
  LET Begin(e) == Max({i} \cup {d + 1 : d \in {c \in ends : c < e}})
  IN MapThenSumSet(LAMBDA e : emmission[<<Begin(e), e>>], ends)

\* Every entry of the table cuts its rest into words up to the last character, and
\* none of all ways to cut it is likelier.
SplitsBest ==
  \A i \in DOMAIN pie_splits :
    LET ends == {pie_splits[i][k] : k \in DOMAIN pie_splits[i]}
        all == {cut \cup {len - 1} : cut \in SUBSET (i..(len - 2))}
    IN /\ ends \in all
       /\ \A k \in 2..Len(pie_splits[i]) : pie_splits[i][k - 1] < pie_splits[i][k]
       /\ pie_probs[i] = Value(i, ends)
       /\ \A cut \in all : Value(i, cut) <= pie_probs[i]
=============================================================================
