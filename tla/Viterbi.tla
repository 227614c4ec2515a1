------------------------------ MODULE Viterbi -------------------------------
(***************************************************************************)
(* tagger/Viterbi.java: the likeliest tags of a sentence by trigrams, in a *)
(* table of PIE values that each know the one they come from.              *)
(*                                                                         *)
(* The logarithms of the estimates are small negative integers.            *)
(* NegInfinity is the logarithm of 0, and Lowest is -Double.MAX_VALUE,     *)
(* which swallows what is added to it.  Double.MIN_VALUE is the least      *)
(* positive number: added to a logarithm it changes nothing.               *)
(***************************************************************************)
EXTENDS Integers, Sequences, FiniteSets, FiniteSetsExt, Functions

CONSTANTS Tags,      \* in the order of allTags()
          MaxWords   \* bound: words in a sentence

VARIABLES l,           \* words in the sentence
          ngramCounts, \* the pairs of tags that have been seen
          logEmmission,\* logEmmission[k][v]: the estimate of the k-th word for tag v
          level,       \* the words whose part of the table is there
          invariants,  \* the table: invariants[<<k, u, v>>]
          tagged,      \* tag() has returned
          tags         \* the tags it has returned

vars == <<l, ngramCounts, logEmmission, level, invariants, tagged, tags>>

NegInfinity == -2000
Lowest == -1000
MIN_VALUE == 0
null == <<>>
AllTags == Range(Tags)

\* The two tags before a word.
Contexts == {<<"*", "*">>} \cup ({"*"} \X AllTags) \cup (AllTags \X AllTags)

Add(a, b) == CASE NegInfinity \in {a, b}                         -> NegInfinity
               [] NegInfinity \notin {a, b} /\ Lowest \in {a, b} -> Lowest
               [] {NegInfinity, Lowest} \cap {a, b} = {}         -> a + b

\* get3gramEstimate: of a pair that has been seen some trigrams have been seen more
\* often than others, and some never.
get3gramEstimate(s1, s2, s3) == IF <<s1, s2>> \notin ngramCounts THEN MIN_VALUE
                                ELSE IF s1 = s3 THEN -1
                                ELSE IF s2 = s3 THEN NegInfinity
                                ELSE -2

Init == /\ l \in 1..MaxWords
        /\ ngramCounts \in SUBSET Contexts
        /\ logEmmission \in [1..l -> [AllTags -> {NegInfinity, -1}]]
        /\ level = 0
        /\ invariants = <<>>
        /\ tagged = FALSE
        /\ tags = <<>>

PIE(v, value, from) == [tag |-> v, value |-> value, backpointer |-> from]

\* A value with the estimates of tag v after s and u for the k-th word.
After(value, k, s, u, v) == Add(Add(value, get3gramEstimate(s, u, v)), logEmmission[k][v])

\* The loop over the tags that keeps the last of the greatest values, and none that
\* is below Lowest.
Winners(values) == {x \in DOMAIN values :
                      /\ values[x] >= Lowest
                      /\ \A y \in DOMAIN values : /\ values[y] <= values[x]
                                                  /\ y > x => values[y] < values[x]}

\* The values of the k-th word's tag v after u, by the tag before u.
Through(k, u, v) == [x \in DOMAIN Tags |->
                       After(invariants[<<k - 1, Tags[x], u>>].value, k, Tags[x], u, v)]

\* pie(k, u, v).
Entry(k, u, v) ==
  CASE k = 1 -> PIE(v, After(0, 1, "*", "*", v), null)
    [] k = 2 -> PIE(v, After(invariants[<<1, "*", u>>].value, 2, "*", u, v), <<1, "*", u>>)
    [] k > 2 ->
         LET winners == Winners(Through(k, u, v))
             x == IF winners = {} THEN 1 ELSE CHOOSE w \in winners : TRUE
         IN PIE(v, IF winners = {} THEN Lowest ELSE Through(k, u, v)[x], <<k - 1, Tags[x], u>>)

\* The part of the table for one word; the recursion comes back to it from the last
\* word, and needs all of it.
Fill == /\ level < l
        /\ level' = level + 1
        /\ LET keys == {level'} \X (IF level = 0 THEN {"*"} ELSE AllTags) \X AllTags
           IN invariants' = [key \in DOMAIN invariants \cup keys |->
                               IF key \in keys THEN Entry(key[1], key[2], key[3])
                               ELSE invariants[key]]
        /\ UNCHANGED <<l, ngramCounts, logEmmission, tagged, tags>>

\* traceResult: the tags on the way back from an entry.
TagsTo(key) ==
  LET way[k \in 1..l] == IF k = 1 THEN key ELSE invariants[way[k - 1]].backpointer
  IN [k \in 1..l |-> invariants[way[l + 1 - k]].tag]

\* Mutant of Stopped: the estimate of the end is left out.
NotStopped(u, v) == invariants[<<l, u, v>>].value

\* The value of a sentence that ends with tags u and v.
Stopped(u, v) == Add(invariants[<<l, u, v>>].value, get3gramEstimate(u, v, "STOP"))

\* tag(): without a way to the end there is no tag.
Tag == /\ level = l
       /\ ~tagged
       /\ tagged' = TRUE
       /\ LET T == Len(Tags)
              u(x) == IF l = 1 THEN "*" ELSE Tags[((x - 1) \div T) + 1]
              v(x) == Tags[((x - 1) % T) + 1]
              winners == Winners([x \in 1..(T * T) |-> Stopped(u(x), v(x))])
          IN tags' = IF winners = {} THEN <<>>
                     ELSE LET x == CHOOSE w \in winners : TRUE IN TagsTo(<<l, u(x), v(x)>>)
       /\ UNCHANGED <<l, ngramCounts, logEmmission, level, invariants>>

Next == Fill \/ Tag

Spec == Init /\ [][Next]_vars

-----------------------------------------------------------------------------
TypeOK == /\ level \in 0..l
          /\ \A key \in DOMAIN invariants : /\ key[1] \in 1..level
                                            /\ invariants[key].tag = key[3]
                                            /\ invariants[key].value \in NegInfinity..0
          /\ tags \in Seq(AllTags)

\* The value of a sequence of tags for the whole sentence.
Likelihood(ts) ==
  LET tag(k) == IF k < 1 THEN "*" ELSE ts[k]
      upTo[k \in 0..l] == IF k = 0 THEN 0
                          ELSE After(upTo[k - 1], k, tag(k - 2), tag(k - 1), tag(k))
  IN Add(upTo[l], get3gramEstimate(tag(l - 1), tag(l), "STOP"))

\* Whenever a sequence of tags is possible at all, every word gets a tag, and no
\* other sequence has a greater value, although the table keeps one way to each pair
\* of tags and mixes up ways that are not possible with very unlikely ones.
TagsBest ==
  LET possible == {ts \in [1..l -> AllTags] : Likelihood(ts) > Lowest}
  IN tagged /\ possible # {} =>
       /\ Len(tags) = l
       /\ Likelihood(tags) = Max({Likelihood(ts) : ts \in possible})

\* The estimates that a result rests on are logarithms of those of a distribution: of
\* the tags that may come after two, the end included, at most one is certain, whose
\* logarithm is 0.
EstimatesAreLogs ==
  LET tag(k) == IF k < 1 THEN "*" ELSE tags[k]
      Certain(s1, s2) == {s3 \in AllTags \cup {"STOP"} : get3gramEstimate(s1, s2, s3) = 0}
  IN tagged /\ tags # <<>> =>
       \A k \in 1..(l + 1) : Cardinality(Certain(tag(k - 2), tag(k - 1))) <= 1
=============================================================================
