---------------------------- MODULE HybridSearch ----------------------------
(***************************************************************************)
(* The hybrid search of both dialects (sql/postgres/hybrid-search.sql,     *)
(* sql/cockroachdb/hybrid-search.sql) over the rows of one tenant, purpose *)
(* and embedding space, for one query.                                     *)
(*                                                                         *)
(* Both take the nearest rows as candidates and rank them by a score that  *)
(* also counts the words; they differ in where expired rows are dropped,   *)
(* in what "nearest" is measured on, in the lexical score, and in ties.    *)
(* They also read the words differently: websearch_to_tsquery knows OR,    *)
(* quotes and minus, plainto_tsquery does not.  What a row is worth for    *)
(* the one, and whether it matches the other, are two parts of the row.    *)
(*                                                                         *)
(* Scores are counted in quarters: a semantic score of 4 and a lexical     *)
(* score of 4 stand for 1.0, and a combined score of 16 does.              *)
(***************************************************************************)
EXTENDS Integers, SequencesExt

CONSTANTS
  MaxId,             \* rows have ids 1..MaxId; ids are compared to break ties
  SemanticScores,    \* exact similarities to the query
  LexicalScores,     \* values of ts_rank_cd; 0 when the words do not match
  Distances,         \* distances of projections to the query
  Limits,            \* the limits that callers pass
  CandidateFactor,   \* 20 in the source
  CandidateFloor,    \* 100
  CandidateCeiling,  \* 4000
  ResultCeiling,     \* 200
  MaxInt             \* 2^31 - 1: PostgreSQL's INT has 32 bits

Ids == 1..MaxId

LexicalOne == 4

\* A row of semantic_embeddings and its row in the index; absent rows have none.
\* lexical: ts_rank_cd for websearch_to_tsquery.  matches: @@ plainto_tsquery.
Rows == [semantic : SemanticScores, lexical : LexicalScores, matches : BOOLEAN,
         distance : Distances, expired : BOOLEAN]

ASSUME ScoresAssumption ==
  /\ SemanticScores \subseteq Nat
  /\ LexicalScores \subseteq Nat
  /\ Distances \subseteq Nat

ASSUME LimitsAssumption ==
  /\ Limits \subseteq Int
  /\ MaxId \in Nat
  /\ CandidateFactor \in Nat \ {0}
  /\ {CandidateFloor, CandidateCeiling, ResultCeiling} \subseteq Nat \ {0}

VARIABLES
  table,    \* the rows of the scope, by id
  dialect,  \* the database that was asked; "none" before
  limit,    \* $5
  answer    \* the ids it returned, or Failed

vars == <<table, dialect, limit, answer>>

Failed == "integer out of range"

-----------------------------------------------------------------------------
Least(a, b) == IF a <= b THEN a ELSE b

Greatest(a, b) == IF a >= b THEN a ELSE b

\* LEAST(GREATEST($5 * 20, 100), 4000).
CandidateLimit(n) ==
  Least(Greatest(n * CandidateFactor, CandidateFloor), CandidateCeiling)

\* LEAST(GREATEST($5, 1), 200).
ResultLimit(n) == Least(Greatest(n, 1), ResultCeiling)

Present == DOMAIN table

Live == {i \in Present : ~table[i].expired}

\* ORDER BY key LIMIT n over the rows S: rows with equal keys may be cut off in
\* any order.
Nearest(S, key, n) ==
  {C \in SUBSET S :
    /\ Cardinality(C) = Least(n, Cardinality(S))
    /\ \A i \in C, j \in S \ C : key[i] <= key[j]}

\* ORDER BY of the rows S: Before is a total order, so that there is one.
Ranked(S, Before(_, _)) == {s \in SetToSeqs(S) : IsSorted(s, Before)}

\* LIMIT n of rows in order.
First(n, ranked) == SubSeq(ranked, 1, Least(n, Len(ranked)))

-----------------------------------------------------------------------------
(* PostgreSQL.                                                              *)

PostgresCombined(i) ==
  3 * table[i].semantic + Least(table[i].lexical, LexicalOne)

\* ORDER BY combined_score DESC, ann_distance ASC, embedding_id ASC.
PostgresBefore(i, j) ==
  \/ PostgresCombined(i) > PostgresCombined(j)
  \/ /\ PostgresCombined(i) = PostgresCombined(j)
     /\ \/ table[i].distance < table[j].distance
        \/ table[i].distance = table[j].distance /\ i < j

\* The candidates are the nearest projections, expired rows among them.
HalfvecCandidates(n) ==
  Nearest(Present, [i \in Present |-> table[i].distance], CandidateLimit(n))

\* The join keeps the live candidates.
\* (The first form is faulty: it lost the expiry.)
ExactRerankOfAll(candidates) == candidates
ExactRerank(candidates) == candidates \cap Live

SearchPostgres(n) ==
  /\ dialect = "none"
  /\ n * CandidateFactor <= MaxInt
  /\ \E candidates \in HalfvecCandidates(n) :
       \E ranked \in Ranked(ExactRerank(candidates), PostgresBefore) :
         answer' = First(ResultLimit(n), ranked)
  /\ dialect' = "postgres"
  /\ limit' = n
  /\ UNCHANGED table

\* $5::INT * 20 overflows before LEAST can bound it.
SearchPostgresFails(n) ==
  /\ dialect = "none"
  /\ n * CandidateFactor > MaxInt
  /\ answer' = Failed
  /\ dialect' = "postgres"
  /\ limit' = n
  /\ UNCHANGED table

-----------------------------------------------------------------------------
(* CockroachDB: one lexical score for all rows that match plainto_tsquery.  *)

CockroachLexical(i) == IF table[i].matches THEN LexicalOne ELSE 0

CockroachCombined(i) == 3 * table[i].semantic + CockroachLexical(i)

\* ORDER BY combined_score DESC, embedding_id ASC.
\* (The first form is faulty: it ranks by the semantic score alone.)
CockroachBeforeBySemantic(i, j) ==
  \/ table[i].semantic > table[j].semantic
  \/ table[i].semantic = table[j].semantic /\ i < j
CockroachBefore(i, j) ==
  \/ CockroachCombined(i) > CockroachCombined(j)
  \/ CockroachCombined(i) = CockroachCombined(j) /\ i < j

\* The candidates are the live rows of the smallest distance, which is one minus
\* the semantic score.
\* (The first form is faulty: it drops expired rows after the limit.)
VectorCandidatesThenExpiry(n) ==
  {C \cap Live : C \in
    Nearest(Present, [i \in Present |-> -table[i].semantic], CandidateLimit(n))}
VectorCandidates(n) ==
  Nearest(Live, [i \in Live |-> -table[i].semantic], CandidateLimit(n))

SearchCockroach(n) ==
  /\ dialect = "none"
  /\ \E candidates \in VectorCandidates(n) :
       \E ranked \in Ranked(candidates, CockroachBefore) :
         answer' = First(ResultLimit(n), ranked)
  /\ dialect' = "cockroachdb"
  /\ limit' = n
  /\ UNCHANGED table

-----------------------------------------------------------------------------
Init ==
  /\ table \in UNION {[S -> Rows] : S \in SUBSET Ids}
  /\ dialect = "none"
  /\ limit = 0
  /\ answer = <<>>

Next == \E n \in Limits :
  SearchPostgres(n) \/ SearchPostgresFails(n) \/ SearchCockroach(n)

Spec == Init /\ [][Next]_vars
-----------------------------------------------------------------------------
(* Properties.                                                              *)

Answered == dialect # "none" /\ answer # Failed

Found == ToSet(answer)

\* Answers hold live rows, each once, and are bounded.
TypeOK ==
  /\ DOMAIN table \subseteq Ids /\ table \in [DOMAIN table -> Rows]
  /\ dialect \in {"none", "postgres", "cockroachdb"}
  /\ limit \in Limits \cup {0}
  /\ answer # Failed =>
       /\ IsInjective(answer)
       /\ Found \subseteq Live
       /\ Len(answer) <= ResultCeiling

\* What the callers want: three parts of meaning, one of words.
Score(i) == 3 * table[i].semantic
              + (IF table[i].lexical < LexicalOne THEN table[i].lexical ELSE LexicalOne)

\* A live row is left out of an answer with room for it, or in PostgreSQL of one
\* with a worse row in it, only if it was no candidate: at least as many other
\* rows as there may be candidates are as near as it is.  CockroachDB counts
\* live rows alone there; PostgreSQL counts expired ones too, so that its answer
\* may even be empty.  (A worse row may come before it in CockroachDB, which
\* takes every match for a full one.)
LeftOutWasCrowdedOut ==
  Answered =>
    \A h \in Live \ Found :
      Len(answer) < ResultLimit(limit)
          \/ (dialect = "postgres" /\ \E i \in Found : Score(i) < Score(h)) =>
        LET nearer == IF dialect = "postgres"
              THEN {j \in Present \ {h} : table[j].distance <= table[h].distance}
              ELSE {j \in Live \ {h} : table[j].semantic >= table[h].semantic}
        IN  Cardinality(nearer) >= CandidateLimit(limit)

\* The words count alike in both dialects: each row matches fully in either
\* reading of the query, or in neither.  (A query with OR, quotes or a minus may
\* match a row in one reading only.)
WordsCountAlike ==
  \A i \in Present :
    \/ table[i].matches /\ table[i].lexical >= LexicalOne
    \/ ~table[i].matches /\ table[i].lexical = 0

\* Both dialects give the same ranking, up to ties, when all rows are candidates
\* and the words count alike: the best rows, best first.
SameRanking ==
  /\ Answered
  /\ Cardinality(Present) <= CandidateLimit(limit)
  /\ WordsCountAlike
  => /\ \A k \in 1..Len(answer) - 1 : Score(answer[k]) >= Score(answer[k + 1])
     /\ \A i \in Found, j \in Live \ Found : Score(i) >= Score(j)
     /\ Len(answer) = Least(Cardinality(Live), ResultLimit(limit))

=============================================================================
