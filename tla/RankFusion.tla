----------------------------- MODULE RankFusion -----------------------------
(***************************************************************************)
(* RRF.Aggregate of the search service (aggregator/rrf.go): reciprocal     *)
(* rank fusion of the lists that the sub-requests of an MSearch returned.  *)
(*                                                                         *)
(* A score is a sum of 1 / (K + rank). It is kept as an integer, in units  *)
(* small enough for every rank up to MaxLen; the rounding of float32 is    *)
(* left out. The map is walked in any order before the stable sort, so     *)
(* articles of one score come out in any order.                            *)
(***************************************************************************)
EXTENDS Integers, Sequences, FiniteSets, FiniteSetsExt

CONSTANTS
  Item,      \* the articles
  NumLists,  \* how many sub-requests there are
  MaxLen,    \* bound: the length of a list
  MaxSize    \* bound: the size that is asked for

K == 60

ASSUME ConstantsAssumption ==
  /\ NumLists \in Nat \ {0} /\ MaxLen \in Nat /\ MaxSize \in Nat

VARIABLES
  itemsList,  \* itemsList[l]: what the l-th list holds, best first
  size,       \* k, the size of the request
  list, rank, \* the candidate looked at next, as its list and its rank
  score,      \* score[x]: its score in resultMap, 0 if it has none yet
  done,       \* whether the result is returned
  result      \* rerankedItems

vars == <<itemsList, size, list, rank, score, done, result>>

\* The lists of distinct articles: OpenSearch returns a document once.
Lists == UNION {{s \in [1 .. n -> Item] : \A i, j \in 1 .. n : s[i] = s[j] => i = j}
                : n \in 0 .. MaxLen}

Init ==
  /\ itemsList \in [1 .. NumLists -> Lists]
  /\ size \in 0 .. MaxSize
  /\ list = 1
  /\ rank = 1
  /\ score = [x \in Item |-> 0]
  /\ done = FALSE
  /\ result = <<>>

\* The product of K + rank over all ranks: each 1 / (K + rank) is an integer.
Unit == ProductSet({K + r : r \in 1 .. MaxLen})

Share(r) == Unit \div (K + r)

\* Faulty variant: the rank goes on from one list to the next.
NextListKeepsRank ==
  /\ list <= NumLists
  /\ rank > Len(itemsList[list])
  /\ list' = list + 1
  /\ UNCHANGED <<itemsList, size, rank, score, done, result>>

NextList ==
  /\ list <= NumLists
  /\ rank > Len(itemsList[list])
  /\ list' = list + 1
  /\ rank' = 1
  /\ UNCHANGED <<itemsList, size, score, done, result>>

\* Faulty variant: an article that is there already is not counted again.
NextCandidateOnce ==
  /\ list <= NumLists
  /\ rank <= Len(itemsList[list])
  /\ score' = [score EXCEPT ![itemsList[list][rank]] = IF @ = 0 THEN Share(rank) ELSE @]
  /\ rank' = rank + 1
  /\ UNCHANGED <<itemsList, size, list, done, result>>

NextCandidate ==
  /\ list <= NumLists
  /\ rank <= Len(itemsList[list])
  /\ score' = [score EXCEPT ![itemsList[list][rank]] = @ + Share(rank)]
  /\ rank' = rank + 1
  /\ UNCHANGED <<itemsList, size, list, done, result>>

Found == {x \in Item : score[x] > 0}

\* Every order of resultSlice that the stable sort may leave.
SortedSlices ==
  {s \in [1 .. Cardinality(Found) -> Found] :
     /\ \A x \in Found : \E i \in DOMAIN s : s[i] = x
     /\ \A i, j \in DOMAIN s : i < j => score[s[i]] >= score[s[j]]}

SortAndCut ==
  /\ list > NumLists
  /\ ~done
  /\ done' = TRUE
  /\ \E s \in SortedSlices :
       result' = SubSeq(s, 1, Min({size, Len(s)}))
  /\ UNCHANGED <<itemsList, size, list, rank, score>>

Next == NextList \/ NextCandidate \/ SortAndCut

Spec == Init /\ [][Next]_vars
---------------------------------------------------------------------------
(* Properties.                                                             *)

RankIn(l, x) == {i \in DOMAIN itemsList[l] : itemsList[l][i] = x}

InSomeList(x) == \E l \in 1 .. NumLists : RankIn(l, x) # {}

Position(x) == CHOOSE i \in DOMAIN result : result[i] = x

InResult(x) == \E i \in DOMAIN result : result[i] = x

\* The definition of reciprocal rank fusion, without the loop.
RRFScore(x) ==
  MapThenSumSet(LAMBDA lr : Share(lr[2]),
                UNION {{<<l, r>> : r \in RankIn(l, x)} : l \in 1 .. NumLists})

\* The result is a best prefix of the articles ordered by that definition:
\* none twice, none left out that scores higher, as many as were asked for.
ResultIsRankFusion ==
  done =>
    /\ Len(result) = Min({size, Cardinality({x \in Item : InSomeList(x)})})
    /\ \A i, j \in DOMAIN result :
         i < j => result[i] # result[j] /\ RRFScore(result[i]) >= RRFScore(result[j])
    /\ \A x \in Item : InSomeList(x) /\ ~InResult(x) =>
         \A i \in DOMAIN result : RRFScore(result[i]) >= RRFScore(x)

\* The rank of x in list l is better than that of y.
Better(l, x, y) ==
  RankIn(l, y) # {} => \E i \in RankIn(l, x) : \A j \in RankIn(l, y) : i < j

\* An article that every list prefers to another comes before it, and is in
\* the result if the other one is.
PreferredComesFirst ==
  done => \A x, y \in Item :
    x # y /\ InSomeList(y) /\ (\A l \in 1 .. NumLists : Better(l, x, y)) /\ InResult(y)
      => InResult(x) /\ Position(x) < Position(y)

Disjoint == \A x \in Item : Cardinality({l \in 1 .. NumLists : RankIn(l, x) # {}}) <= 1

\* Lists without a common article, as the two date windows of the conversation
\* engine return, are interleaved: an article is in the result only with all
\* those of a better rank in any list, so no window crowds out the other.
DisjointListsInterleave ==
  done /\ Disjoint => \A l, m \in 1 .. NumLists :
    \A i \in DOMAIN itemsList[l], j \in DOMAIN itemsList[m] :
      i < j /\ InResult(itemsList[m][j]) =>
        /\ InResult(itemsList[l][i])
        /\ Position(itemsList[l][i]) < Position(itemsList[m][j])

\* The fusion respects the lists, those that agree and those that do not meet.
FusionRespectsLists == PreferredComesFirst /\ DisjointListsInterleave
=============================================================================
