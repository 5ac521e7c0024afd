------------------------- MODULE HybridSearchProofs -------------------------
(***************************************************************************)
(* The invariants of HybridSearch, for any number of rows, any scores and  *)
(* distances, and any limits.  TLC checks three rows.                      *)
(***************************************************************************)
EXTENDS HybridSearch, FiniteSetTheorems, TLAPS

\* An answer is the beginning of the ranking of some candidates.
Explained ==
  /\ dialect = "none" => answer = <<>>
  /\ dialect = "postgres" /\ answer # Failed =>
       \E candidates \in HalfvecCandidates(limit) :
         \E ranked \in Ranked(ExactRerank(candidates), PostgresBefore) :
           answer = First(ResultLimit(limit), ranked)
  /\ dialect = "cockroachdb" /\ answer # Failed =>
       \E candidates \in VectorCandidates(limit) :
         \E ranked \in Ranked(candidates, CockroachBefore) :
           answer = First(ResultLimit(limit), ranked)

Typed ==
  /\ DOMAIN table \subseteq Ids /\ table \in [DOMAIN table -> Rows]
  /\ dialect \in {"none", "postgres", "cockroachdb"}
  /\ limit \in Limits \cup {0}

IInv == Typed /\ Explained
-----------------------------------------------------------------------------
(* Limits, candidates and rankings.                                         *)

LEMMA LimitFacts ==
  ASSUME NEW n \in Int
  PROVE  /\ CandidateLimit(n) \in Nat \ {0}
         /\ ResultLimit(n) \in Nat \ {0}
         /\ ResultLimit(n) <= ResultCeiling
<1>1. n * CandidateFactor \in Int
  BY LimitsAssumption
<1> DEFINE m == n * CandidateFactor
<1> HIDE DEF m
<1>2. Least(Greatest(m, CandidateFloor), CandidateCeiling) \in Nat \ {0}
  BY <1>1, LimitsAssumption DEF m, Least, Greatest
<1> QED
  BY <1>2, LimitsAssumption DEF m, CandidateLimit, ResultLimit, Least, Greatest

LEMMA PresentFacts ==
  ASSUME Typed
  PROVE  /\ IsFiniteSet(Present) /\ IsFiniteSet(Live) /\ Live \subseteq Present
         /\ Present \subseteq Nat
         /\ \A i \in Present : /\ table[i].semantic \in Nat
                               /\ table[i].lexical \in Nat
                               /\ table[i].distance \in Nat
         /\ limit \in Int
<1>1. IsFiniteSet(Ids)
  BY LimitsAssumption, FS_Interval DEF Ids
<1>2. Present \subseteq Ids /\ Live \subseteq Present
  BY DEF Typed, Present, Live
<1>3. IsFiniteSet(Present) /\ IsFiniteSet(Live)
  BY <1>1, <1>2, FS_Subset
<1>4. \A i \in Present : table[i] \in Rows
  BY DEF Typed, Present
<1> QED
  BY <1>2, <1>3, <1>4, ScoresAssumption, LimitsAssumption DEF Rows, Ids, Typed

\* Where there are as many candidates as allowed, a row is none of them only if
\* as many others are as near as it is.
LEMMA NearestFacts ==
  ASSUME NEW S, IsFiniteSet(S), NEW key, NEW n \in Nat, NEW C \in Nearest(S, key, n)
  PROVE  /\ C \subseteq S /\ IsFiniteSet(C)
         /\ Cardinality(C) <= n
         /\ Cardinality(S) <= n => C = S
         /\ \A h \in S \ C :
              Cardinality({j \in S \ {h} : key[j] <= key[h]}) >= n
<1>1. C \subseteq S /\ Cardinality(C) = Least(n, Cardinality(S))
      /\ \A i \in C, j \in S \ C : key[i] <= key[j]
  BY DEF Nearest
<1>2. IsFiniteSet(C) /\ Cardinality(C) \in Nat /\ Cardinality(S) \in Nat
  BY <1>1, FS_Subset, FS_CardinalityType
<1>3. Cardinality(S) <= n => C = S
  BY <1>1, <1>2, FS_Subset DEF Least
<1>4. ASSUME NEW h \in S \ C
      PROVE  Cardinality({j \in S \ {h} : key[j] <= key[h]}) >= n
  <2> DEFINE nearer == {j \in S \ {h} : key[j] <= key[h]}
  <2>1. C \subseteq nearer
    BY <1>1
  <2>2. IsFiniteSet(nearer) /\ Cardinality(nearer) \in Nat
    <3>1. nearer \subseteq S
      OBVIOUS
    <3> QED
      BY <3>1, FS_Subset, FS_CardinalityType
  <2>3. Cardinality(C) <= Cardinality(nearer)
    BY <2>1, <2>2, FS_Subset
  <2>4. Cardinality(C) = n
    BY <1>1, <1>2, <1>3 DEF Least
  <2> QED
    BY <2>2, <2>3, <2>4
<1> QED
  BY <1>1, <1>2, <1>3, <1>4 DEF Least

\* A ranking has every row once; its beginning has the first of them, and all
\* others rank behind.
LEMMA RankedFacts ==
  ASSUME NEW S, IsFiniteSet(S), NEW ranked \in SetToSeqs(S), NEW n \in Nat,
         NEW a, a = First(n, ranked)
  PROVE  /\ Len(ranked) = Cardinality(S) /\ Len(ranked) \in Nat
         /\ Len(a) = Least(n, Cardinality(S)) /\ Len(a) \in Nat
         /\ DOMAIN a = 1 .. Len(a)
         /\ \A k \in 1 .. Len(a) : k \in 1 .. Len(ranked) /\ a[k] = ranked[k]
         /\ \A k \in 1 .. Len(a) : a[k] \in S
         /\ IsInjective(a)
         /\ \A h \in S \ ToSet(a) :
              /\ Len(a) = n
              /\ \A i \in ToSet(a) :
                   \E j, k \in 1 .. Len(ranked) : j < k /\ ranked[j] = i /\ ranked[k] = h
<1> DEFINE c == Cardinality(S)
<1>1. c \in Nat
  BY FS_CardinalityType
<1>2. ranked \in [1 .. c -> S]
      /\ \A i, j \in 1 .. c : i # j => ranked[i] # ranked[j]
  BY DEF SetToSeqs
<1>3. ranked \in Seq(S) /\ Len(ranked) = c
  BY <1>1, <1>2
<1>4. /\ Len(a) = Least(n, c) /\ Len(a) \in Nat
      /\ DOMAIN a = 1 .. Len(a)
      /\ Len(a) <= c
      /\ \A k \in 1 .. Len(a) : a[k] = ranked[k]
  BY <1>1, <1>3 DEF First, Least
<1>5. \A h \in S : \E k \in 1 .. c : ranked[k] = h
  <2>1. ranked \in Injection(1 .. c, S)
    BY <1>2 DEF Injection, IsInjective
  <2>2. IsFiniteSet(1 .. c) /\ Cardinality(1 .. c) = c
    BY <1>1, FS_Interval
  <2>3. ranked \in Surjection(1 .. c, S)
    BY <2>1, <2>2, FS_Injection
  <2> QED
    BY <2>3 DEF Surjection
<1>6. IsInjective(a)
  BY <1>1, <1>2, <1>4 DEF IsInjective
<1>7. ASSUME NEW h \in S \ ToSet(a)
      PROVE  /\ Len(a) = n
             /\ \A i \in ToSet(a) :
                  \E j, k \in 1 .. Len(ranked) : j < k /\ ranked[j] = i /\ ranked[k] = h
  <2>1. PICK k \in 1 .. c : ranked[k] = h
    BY <1>5
  <2>2. k > Len(a)
    <3> SUFFICES ASSUME k <= Len(a) PROVE FALSE
      BY <1>1, <1>4
    <3>1. k \in DOMAIN a /\ a[k] = h
      BY <1>1, <1>4, <2>1
    <3> QED
      BY <3>1 DEF ToSet
  <2>3. Len(a) = n
    BY <1>1, <1>4, <2>2 DEF Least
  <2>4. \A i \in ToSet(a) : \E j \in 1 .. Len(a) : ranked[j] = i
    BY <1>4 DEF ToSet
  <2>5. ASSUME NEW i \in ToSet(a)
        PROVE  \E j, m \in 1 .. Len(ranked) : j < m /\ ranked[j] = i /\ ranked[m] = h
    <3>1. PICK j \in 1 .. Len(a) : ranked[j] = i
      BY <2>4
    <3>2. j \in 1 .. Len(ranked) /\ k \in 1 .. Len(ranked) /\ j < k
      BY <1>1, <1>3, <1>4, <2>2
    <3> QED
      BY <2>1, <3>1, <3>2
  <2> QED
    BY <2>3, <2>5
<1> QED
  BY <1>1, <1>2, <1>3, <1>4, <1>6, <1>7

-----------------------------------------------------------------------------
(* What an answer holds.                                                    *)

LEMMA PostgresAnswer ==
  ASSUME IInv, dialect = "postgres", answer # Failed
  PROVE  \E C \in HalfvecCandidates(limit) :
           /\ C \subseteq Present
           /\ Len(answer) = Least(ResultLimit(limit), Cardinality(C \cap Live))
           /\ Len(answer) \in Nat /\ DOMAIN answer = 1 .. Len(answer)
           /\ Found \subseteq C \cap Live
           /\ IsInjective(answer)
           /\ \A h \in (C \cap Live) \ Found :
                Len(answer) = ResultLimit(limit) /\ \A i \in Found : PostgresBefore(i, h)
           /\ \A j, k \in 1 .. Len(answer) : j < k => PostgresBefore(answer[j], answer[k])
<1> PICK C \in HalfvecCandidates(limit) :
      \E ranked \in Ranked(ExactRerank(C), PostgresBefore) :
        answer = First(ResultLimit(limit), ranked)
  BY DEF IInv, Explained
<1>1. PICK ranked \in Ranked(ExactRerank(C), PostgresBefore) :
        answer = First(ResultLimit(limit), ranked)
  OBVIOUS
<1>2. IsFiniteSet(Present) /\ CandidateLimit(limit) \in Nat /\ ResultLimit(limit) \in Nat
  BY PresentFacts, LimitFacts DEF IInv
<1>3. C \subseteq Present
  BY <1>2, NearestFacts DEF HalfvecCandidates
<1>4. IsFiniteSet(C \cap Live) /\ ExactRerank(C) = C \cap Live
  BY <1>2, <1>3, FS_Subset DEF ExactRerank
<1>5. ranked \in SetToSeqs(C \cap Live)
      /\ \A i, j \in 1 .. Len(ranked) : i < j => PostgresBefore(ranked[i], ranked[j])
  BY <1>4 DEF Ranked, IsSorted
<1>6. /\ Len(answer) = Least(ResultLimit(limit), Cardinality(C \cap Live))
      /\ Len(answer) \in Nat /\ DOMAIN answer = 1 .. Len(answer)
      /\ \A k \in 1 .. Len(answer) : k \in 1 .. Len(ranked) /\ answer[k] = ranked[k]
      /\ \A k \in 1 .. Len(answer) : answer[k] \in C \cap Live
      /\ IsInjective(answer)
      /\ \A h \in (C \cap Live) \ Found :
           /\ Len(answer) = ResultLimit(limit)
           /\ \A i \in Found :
                \E j, k \in 1 .. Len(ranked) : j < k /\ ranked[j] = i /\ ranked[k] = h
  BY <1>1, <1>2, <1>4, <1>5, RankedFacts DEF Found
<1>7. Found \subseteq C \cap Live
  BY <1>6 DEF Found, ToSet
<1>8. ASSUME NEW h \in (C \cap Live) \ Found, NEW i \in Found
      PROVE  PostgresBefore(i, h)
  BY <1>5, <1>6
<1>9. \A j, k \in 1 .. Len(answer) : j < k => PostgresBefore(answer[j], answer[k])
  BY <1>5, <1>6
<1> QED
  BY <1>3, <1>6, <1>7, <1>8, <1>9

LEMMA CockroachAnswer ==
  ASSUME IInv, dialect = "cockroachdb", answer # Failed
  PROVE  \E C \in VectorCandidates(limit) :
           /\ C \subseteq Live
           /\ Len(answer) = Least(ResultLimit(limit), Cardinality(C))
           /\ Len(answer) \in Nat /\ DOMAIN answer = 1 .. Len(answer)
           /\ Found \subseteq C
           /\ IsInjective(answer)
           /\ \A h \in C \ Found :
                Len(answer) = ResultLimit(limit) /\ \A i \in Found : CockroachBefore(i, h)
           /\ \A j, k \in 1 .. Len(answer) : j < k => CockroachBefore(answer[j], answer[k])
<1> PICK C \in VectorCandidates(limit) :
      \E ranked \in Ranked(C, CockroachBefore) :
        answer = First(ResultLimit(limit), ranked)
  BY DEF IInv, Explained
<1>1. PICK ranked \in Ranked(C, CockroachBefore) :
        answer = First(ResultLimit(limit), ranked)
  OBVIOUS
<1>2. IsFiniteSet(Live) /\ CandidateLimit(limit) \in Nat /\ ResultLimit(limit) \in Nat
  BY PresentFacts, LimitFacts DEF IInv
<1>3. C \subseteq Live /\ IsFiniteSet(C)
  BY <1>2, NearestFacts DEF VectorCandidates
<1>4. ranked \in SetToSeqs(C)
      /\ \A i, j \in 1 .. Len(ranked) : i < j => CockroachBefore(ranked[i], ranked[j])
  BY DEF Ranked, IsSorted
<1>5. /\ Len(answer) = Least(ResultLimit(limit), Cardinality(C))
      /\ Len(answer) \in Nat /\ DOMAIN answer = 1 .. Len(answer)
      /\ \A k \in 1 .. Len(answer) : k \in 1 .. Len(ranked) /\ answer[k] = ranked[k]
      /\ \A k \in 1 .. Len(answer) : answer[k] \in C
      /\ IsInjective(answer)
      /\ \A h \in C \ Found :
           /\ Len(answer) = ResultLimit(limit)
           /\ \A i \in Found :
                \E j, k \in 1 .. Len(ranked) : j < k /\ ranked[j] = i /\ ranked[k] = h
  BY <1>1, <1>2, <1>3, <1>4, RankedFacts DEF Found
<1>6. Found \subseteq C
  BY <1>5 DEF Found, ToSet
<1>7. ASSUME NEW h \in C \ Found, NEW i \in Found
      PROVE  CockroachBefore(i, h)
  BY <1>4, <1>5
<1>8. \A j, k \in 1 .. Len(answer) : j < k => CockroachBefore(answer[j], answer[k])
  BY <1>4, <1>5
<1> QED
  BY <1>3, <1>5, <1>6, <1>7, <1>8
-----------------------------------------------------------------------------
(* The steps.                                                               *)

LEMMA InitIInv == Init => IInv
<1> SUFFICES ASSUME Init PROVE IInv
  OBVIOUS
<1>1. Typed
  BY DEF Init, Typed
<1>2. Explained
  BY DEF Init, Explained
<1> QED
  BY <1>1, <1>2 DEF IInv

LEMMA NextIInv == IInv /\ [Next]_vars => IInv'
<1> SUFFICES ASSUME IInv, [Next]_vars PROVE IInv'
  OBVIOUS
<1>1. CASE UNCHANGED vars
  <2>1. table' = table /\ dialect' = dialect /\ limit' = limit /\ answer' = answer
    BY <1>1 DEF vars
  <2>2. Typed'
    BY <2>1 DEF IInv, Typed
  <2>3. /\ HalfvecCandidates(limit)' = HalfvecCandidates(limit)
        /\ VectorCandidates(limit)' = VectorCandidates(limit)
    BY <2>1 DEF HalfvecCandidates, VectorCandidates, Present, Live
  <2>4. \A C : Ranked(ExactRerank(C), PostgresBefore)' = Ranked(ExactRerank(C), PostgresBefore)
    BY <2>1 DEF Live, Present, ExactRerank, Ranked, IsSorted, PostgresBefore, PostgresCombined
  <2>5. \A C : Ranked(C, CockroachBefore)' = Ranked(C, CockroachBefore)
    BY <2>1 DEF Ranked, IsSorted, CockroachBefore, CockroachCombined, CockroachLexical
  <2>6. Explained'
    BY <2>1, <2>3, <2>4, <2>5 DEF IInv, Explained
  <2> QED
    BY <2>2, <2>6 DEF IInv
<1>2. ASSUME NEW n \in Limits, SearchPostgres(n) PROVE IInv'
  <2>1. Typed'
    BY <1>2 DEF SearchPostgres, IInv, Typed
  <2> PICK C \in HalfvecCandidates(n) :
        \E ranked \in Ranked(ExactRerank(C), PostgresBefore) :
          answer' = First(ResultLimit(n), ranked)
    BY <1>2 DEF SearchPostgres
  <2>2. PICK ranked \in Ranked(ExactRerank(C), PostgresBefore) :
          answer' = First(ResultLimit(n), ranked)
    OBVIOUS
  <2>3. table' = table /\ limit' = n /\ dialect' = "postgres"
    BY <1>2 DEF SearchPostgres
  <2>4. /\ C \in HalfvecCandidates(limit)'
        /\ ranked \in Ranked(ExactRerank(C), PostgresBefore)'
    BY <2>2, <2>3 DEF HalfvecCandidates, Present, Live, ExactRerank, Ranked, IsSorted,
                      PostgresBefore, PostgresCombined
  <2>5. Explained'
    BY <2>2, <2>3, <2>4 DEF Explained
  <2> QED
    BY <2>1, <2>5 DEF IInv
<1>3. ASSUME NEW n \in Limits, SearchPostgresFails(n) PROVE IInv'
  BY <1>3 DEF SearchPostgresFails, IInv, Typed, Explained
<1>4. ASSUME NEW n \in Limits, SearchCockroach(n) PROVE IInv'
  <2>1. Typed'
    BY <1>4 DEF SearchCockroach, IInv, Typed
  <2> PICK C \in VectorCandidates(n) :
        \E ranked \in Ranked(C, CockroachBefore) :
          answer' = First(ResultLimit(n), ranked)
    BY <1>4 DEF SearchCockroach
  <2>2. PICK ranked \in Ranked(C, CockroachBefore) :
          answer' = First(ResultLimit(n), ranked)
    OBVIOUS
  <2>3. table' = table /\ limit' = n /\ dialect' = "cockroachdb"
    BY <1>4 DEF SearchCockroach
  <2>4. C \in VectorCandidates(limit)' /\ ranked \in Ranked(C, CockroachBefore)'
    BY <2>2, <2>3 DEF VectorCandidates, Present, Live, Ranked, IsSorted,
                      CockroachBefore, CockroachCombined, CockroachLexical
  <2>5. Explained'
    BY <2>2, <2>3, <2>4 DEF Explained
  <2> QED
    BY <2>1, <2>5 DEF IInv
<1> QED
  BY <1>1, <1>2, <1>3, <1>4 DEF Next

LEMMA Inductive == Spec => []IInv
BY InitIInv, NextIInv, PTL DEF Spec
-----------------------------------------------------------------------------
(* The theorems.                                                            *)

LEMMA TypeLemma == IInv => TypeOK
<1> SUFFICES ASSUME IInv, answer # Failed
             PROVE  IsInjective(answer) /\ Found \subseteq Live /\ Len(answer) <= ResultCeiling
  BY DEF IInv, Typed, TypeOK
<1>1. ResultLimit(limit) \in Nat /\ ResultLimit(limit) <= ResultCeiling /\ ResultCeiling \in Nat
      /\ IsFiniteSet(Present) /\ IsFiniteSet(Live)
  BY PresentFacts, LimitFacts, LimitsAssumption DEF IInv
<1>2. CASE dialect = "none"
  <2>1. answer = <<>>
    BY <1>2 DEF IInv, Explained
  <2> QED
    BY <1>1, <2>1 DEF IsInjective, Found, ToSet
<1>3. CASE dialect = "postgres"
  <2>1. PICK C \in HalfvecCandidates(limit) :
          /\ Len(answer) = Least(ResultLimit(limit), Cardinality(C \cap Live))
          /\ Found \subseteq C \cap Live
          /\ IsInjective(answer)
    BY <1>3, PostgresAnswer
  <2>2. Cardinality(C \cap Live) \in Nat
    BY <1>1, FS_Subset, FS_CardinalityType
  <2> QED
    BY <1>1, <2>1, <2>2 DEF Least
<1>4. CASE dialect = "cockroachdb"
  <2>1. PICK C \in VectorCandidates(limit) :
          /\ C \subseteq Live
          /\ Len(answer) = Least(ResultLimit(limit), Cardinality(C))
          /\ Found \subseteq C
          /\ IsInjective(answer)
    BY <1>4, CockroachAnswer
  <2>2. Cardinality(C) \in Nat
    BY <1>1, <2>1, FS_Subset, FS_CardinalityType
  <2> QED
    BY <1>1, <2>1, <2>2 DEF Least
<1> QED
  BY <1>2, <1>3, <1>4 DEF IInv, Typed

\* An answer of either dialect holds live rows, each once, and at most
\* ResultCeiling of them, whatever limit the caller passes.
THEOREM TypeCorrect == Spec => []TypeOK
BY TypeLemma, Inductive, PTL

\* The two ways to write the score of PostgreSQL.
LEMMA PostgresScore ==
  ASSUME IInv, NEW i \in Present
  PROVE  PostgresCombined(i) = Score(i) /\ Score(i) \in Nat
BY PresentFacts DEF IInv, PostgresCombined, Score, Least, LexicalOne

LEMMA CrowdedLemma == IInv => LeftOutWasCrowdedOut
<1> SUFFICES ASSUME IInv, Answered, NEW h \in Live \ Found,
                    \/ Len(answer) < ResultLimit(limit)
                    \/ dialect = "postgres" /\ \E i \in Found : Score(i) < Score(h)
             PROVE  LET nearer == IF dialect = "postgres"
                          THEN {j \in Present \ {h} : table[j].distance <= table[h].distance}
                          ELSE {j \in Live \ {h} : table[j].semantic >= table[h].semantic}
                    IN  Cardinality(nearer) >= CandidateLimit(limit)
  BY DEF LeftOutWasCrowdedOut
<1>1. /\ IsFiniteSet(Present) /\ IsFiniteSet(Live) /\ Live \subseteq Present
      /\ CandidateLimit(limit) \in Nat /\ ResultLimit(limit) \in Nat
  BY PresentFacts, LimitFacts DEF IInv
<1>2. CASE dialect = "postgres"
  <2>1. PICK C \in HalfvecCandidates(limit) :
          /\ Found \subseteq C \cap Live
          /\ \A r \in (C \cap Live) \ Found :
               Len(answer) = ResultLimit(limit) /\ \A i \in Found : PostgresBefore(i, r)
    BY <1>2, PostgresAnswer DEF Answered
  <2>2. h \notin C
    <3> SUFFICES ASSUME h \in C PROVE FALSE
      OBVIOUS
    <3>1. Len(answer) = ResultLimit(limit) /\ \A i \in Found : PostgresBefore(i, h)
      BY <2>1
    <3>2. PICK i \in Found : Score(i) < Score(h)
      BY <1>1, <3>1
    <3>3. PostgresCombined(i) >= PostgresCombined(h)
      <4>1. /\ PostgresCombined(i) = Score(i) /\ Score(i) \in Nat
            /\ PostgresCombined(h) = Score(h) /\ Score(h) \in Nat
        BY <1>1, <2>1, PostgresScore
      <4> QED
        BY <3>1, <4>1 DEF PostgresBefore
    <3> QED
      BY <1>1, <2>1, <3>2, <3>3, PostgresScore
  <2> DEFINE key == [i \in Present |-> table[i].distance]
  <2>3. Cardinality({j \in Present \ {h} : key[j] <= key[h]}) >= CandidateLimit(limit)
    BY <1>1, <2>2, NearestFacts DEF HalfvecCandidates
  <2>4. {j \in Present \ {h} : key[j] <= key[h]}
          = {j \in Present \ {h} : table[j].distance <= table[h].distance}
    BY <1>1
  <2> QED
    BY <1>2, <2>3, <2>4
<1>3. CASE dialect = "cockroachdb"
  <2>1. PICK C \in VectorCandidates(limit) :
          \A r \in C \ Found : Len(answer) = ResultLimit(limit)
    BY <1>3, CockroachAnswer DEF Answered
  <2>2. h \notin C
    BY <1>1, <1>3, <2>1
  <2> DEFINE key == [i \in Live |-> -table[i].semantic]
  <2>3. Cardinality({j \in Live \ {h} : key[j] <= key[h]}) >= CandidateLimit(limit)
    <3>1. C \in Nearest(Live, key, CandidateLimit(limit))
      BY DEF VectorCandidates
    <3> HIDE DEF key
    <3> QED
      BY <1>1, <2>2, <3>1, NearestFacts
  <2>4. {j \in Live \ {h} : key[j] <= key[h]}
          = {j \in Live \ {h} : table[j].semantic >= table[h].semantic}
    <3>1. \A j \in Live : table[j].semantic \in Nat
      BY PresentFacts DEF IInv
    <3> QED
      BY <3>1
  <2> QED
    BY <1>3, <2>3, <2>4
<1> QED
  BY <1>2, <1>3 DEF IInv, Typed, Answered

\* No live row is missing from an answer with room for it, or in PostgreSQL from
\* behind a worse one, unless as many others as there may be candidates are as
\* near as it is.
THEOREM OnlyCrowdingLeavesOut == Spec => []LeftOutWasCrowdedOut
BY CrowdedLemma, Inductive, PTL

\* Where the words count alike, the score of CockroachDB is the same.
LEMMA CockroachScore ==
  ASSUME IInv, WordsCountAlike, NEW i \in Present
  PROVE  CockroachCombined(i) = Score(i) /\ Score(i) \in Nat
BY PresentFacts
   DEF IInv, WordsCountAlike, CockroachCombined, CockroachLexical, Score, LexicalOne

LEMMA RankingLemma == IInv => SameRanking
<1> SUFFICES ASSUME IInv, Answered,
                    Cardinality(Present) <= CandidateLimit(limit),
                    WordsCountAlike
             PROVE  /\ \A k \in 1..Len(answer) - 1 : Score(answer[k]) >= Score(answer[k + 1])
                    /\ \A i \in Found, j \in Live \ Found : Score(i) >= Score(j)
                    /\ Len(answer) = Least(Cardinality(Live), ResultLimit(limit))
  BY DEF SameRanking
<1>1. /\ IsFiniteSet(Present) /\ IsFiniteSet(Live) /\ Live \subseteq Present
      /\ CandidateLimit(limit) \in Nat /\ ResultLimit(limit) \in Nat
      /\ Cardinality(Live) \in Nat /\ Cardinality(Present) \in Nat
      /\ Cardinality(Live) <= Cardinality(Present)
  BY PresentFacts, LimitFacts, FS_Subset, FS_CardinalityType DEF IInv
<1>2. \A i \in Live : /\ PostgresCombined(i) = Score(i) /\ CockroachCombined(i) = Score(i)
                      /\ Score(i) \in Nat
  BY <1>1, PostgresScore, CockroachScore
<1>3. /\ Len(answer) = Least(ResultLimit(limit), Cardinality(Live))
      /\ Len(answer) \in Nat /\ DOMAIN answer = 1 .. Len(answer)
      /\ Found \subseteq Live
      /\ \A i \in Found, j \in Live \ Found : Score(i) >= Score(j)
      /\ \A j, k \in 1 .. Len(answer) : j < k => Score(answer[j]) >= Score(answer[k])
  <2>1. CASE dialect = "postgres"
    <3>1. PICK C \in HalfvecCandidates(limit) :
            /\ C \subseteq Present
            /\ Len(answer) = Least(ResultLimit(limit), Cardinality(C \cap Live))
            /\ Len(answer) \in Nat /\ DOMAIN answer = 1 .. Len(answer)
            /\ Found \subseteq C \cap Live
            /\ \A h \in (C \cap Live) \ Found : \A i \in Found : PostgresBefore(i, h)
            /\ \A j, k \in 1 .. Len(answer) : j < k => PostgresBefore(answer[j], answer[k])
      BY <2>1, PostgresAnswer DEF Answered
    <3>2. C = Present
      BY <1>1, NearestFacts DEF HalfvecCandidates
    <3>3. C \cap Live = Live
      BY <1>1, <3>2
    <3>4. \A i, j \in Live : PostgresBefore(i, j) => Score(i) >= Score(j)
      BY <1>2 DEF PostgresBefore
    <3>5. \A k \in 1 .. Len(answer) : answer[k] \in Live
      BY <3>1 DEF Found, ToSet
    <3> QED
      BY <3>1, <3>3, <3>4, <3>5
  <2>2. CASE dialect = "cockroachdb"
    <3>1. PICK C \in VectorCandidates(limit) :
            /\ Len(answer) = Least(ResultLimit(limit), Cardinality(C))
            /\ Len(answer) \in Nat /\ DOMAIN answer = 1 .. Len(answer)
            /\ Found \subseteq C
            /\ \A h \in C \ Found : \A i \in Found : CockroachBefore(i, h)
            /\ \A j, k \in 1 .. Len(answer) : j < k => CockroachBefore(answer[j], answer[k])
      BY <2>2, CockroachAnswer DEF Answered
    <3>2. C = Live
      BY <1>1, NearestFacts DEF VectorCandidates
    <3>3. \A i, j \in Live : CockroachBefore(i, j) => Score(i) >= Score(j)
      BY <1>2 DEF CockroachBefore
    <3>4. \A k \in 1 .. Len(answer) : answer[k] \in Live
      BY <3>1, <3>2 DEF Found, ToSet
    <3> QED
      BY <3>1, <3>2, <3>3, <3>4
  <2> QED
    BY <2>1, <2>2 DEF IInv, Typed, Answered
<1>4. \A k \in 1..Len(answer) - 1 : Score(answer[k]) >= Score(answer[k + 1])
  BY <1>3
<1>5. Len(answer) = Least(Cardinality(Live), ResultLimit(limit))
  BY <1>1, <1>3 DEF Least
<1> QED
  BY <1>3, <1>4, <1>5

\* The dialects rank alike: where all rows are candidates, and each matches the
\* words fully in either dialect's reading of the query or in neither, both
\* return the best rows, best first.
THEOREM DialectsRankAlike == Spec => []SameRanking
BY RankingLemma, Inductive, PTL
=============================================================================
