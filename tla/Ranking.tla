-------------------------------- MODULE Ranking --------------------------------
(***************************************************************************)
(* What the scanners do with lists: order candidates by their score, take  *)
(* those that belong together, and keep the first ones.                    *)
(***************************************************************************)
EXTENDS Integers, FiniteSets, SequencesExt

\* sort(key=score, reverse=True) keeps the order of equal scores.
ByScore(s) ==
    LET order == CHOOSE q \in SetToSeqs(DOMAIN s) : \A i, j \in DOMAIN q :
                    i < j => \/ s[q[i]].score > s[q[j]].score
                             \/ s[q[i]].score = s[q[j]].score /\ q[i] < q[j]
    IN  [k \in DOMAIN s |-> s[order[k]]]

\* The elements of s that are in S, in their order.
Select(s, S) ==
    FoldLeft(LAMBDA chosen, x : IF x \in S THEN Append(chosen, x) ELSE chosen, <<>>, s)

First(s, n) == SubSeq(s, 1, IF n < Len(s) THEN n ELSE Len(s))
=============================================================================
