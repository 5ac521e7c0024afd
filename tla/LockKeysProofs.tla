--------------------------- MODULE LockKeysProofs ---------------------------
(***************************************************************************)
(* The invariants of LockKeys, for any processes, any values callers fill  *)
(* in, and any entries they declare beside the catalog.                    *)
(***************************************************************************)
EXTENDS LockKeys, FiniteSetTheorems, TLAPS

\* No two processes hold one key.
Exclusive ==
  \A p, q \in Holders : Key(request[p]) = Key(request[q]) => p = q

\* A process has a request exactly while it waits for its lock or holds it.
Typed ==
  /\ request \in [Processes -> Requests \cup {NoRequest}]
  /\ at \in [Processes -> {"idle", "waiting", "holding"}]
  /\ \A p \in Processes : at[p] = "idle" <=> request[p] = NoRequest

IInv == Typed /\ Exclusive
-----------------------------------------------------------------------------
(* Keys.                                                                    *)

LEMMA CatalogFacts ==
  ASSUME NEW e \in Catalog
  PROVE  Len(e.name) \in Nat
<1>1. Len(MIGRATIONS_APPLY.name) = 1 /\ Len(OUTBOX_DRAIN.name) = 1
  BY DEF MIGRATIONS_APPLY, OUTBOX_DRAIN
<1>2. Len(JOBS_SINGLETON_JOB.name) = 4
  BY DEF JOBS_SINGLETON_JOB
<1>3. Len(TENANT_TENANT_ID_MUTATE.name) = 5
  BY DEF TENANT_TENANT_ID_MUTATE
<1> QED
  BY <1>1, <1>2, <1>3 DEF Catalog

LEMMA RequestFacts ==
  ASSUME NEW r \in Requests
  PROVE  /\ r.runtime \in Runtimes
         /\ r.entry \in Entries
         /\ Len(r.entry.name) \in Nat
         /\ Len(r.fill) \in Nat
         /\ \A i \in 1..Len(r.fill) : r.fill[i] \in Seq(STRING)
<1>1. r.runtime \in Runtimes /\ r.entry \in Entries
      /\ r.fill \in UNION {[1..n -> Values] : n \in 0..2}
  BY DEF Requests
<1>2. Len(r.entry.name) \in Nat
  <2>1. CASE r.entry \in Catalog
    BY <2>1, CatalogFacts
  <2>2. CASE r.entry \notin Catalog
    <3>1. r.entry.name \in OwnNames
      BY <1>1, <2>2 DEF Entries
    <3> QED
      BY <3>1, ValuesAssumption
  <2> QED
    BY <2>1, <2>2
<1>3. PICK n \in 0..2 : r.fill \in [1..n -> Values]
  BY <1>1
<1>4. Len(r.fill) = n /\ \A i \in 1..n : r.fill[i] \in Seq(STRING)
  BY <1>3, ValuesAssumption
<1> QED
  BY <1>1, <1>2, <1>4

\* Where every brace is closed, what is cut out is what is matched.
LEMMA CutIsMatched ==
  ASSUME NEW name, Len(name) \in Nat, Closed(name)
  PROVE  Cut(name) = Matched(name)
<1> SUFFICES ASSUME NEW i \in Cut(name) PROVE \E k \in i..Len(name) : name[k] = "}"
  BY DEF Matched
<1>1. i \in 1..Len(name)
  BY DEF Cut
<1>2. PICK j \in 1..i : name[j] = "{" /\ \A k \in j..(i - 1) : name[k] # "}"
  BY DEF Cut
<1>3. j \in 1..Len(name)
  BY <1>1
<1>4. PICK k \in j..Len(name) : name[k] = "}"
  BY <1>2, <1>3 DEF Closed
<1>5. k \notin j..(i - 1)
  BY <1>2, <1>4
<1>6. k \in i..Len(name)
  BY <1>1, <1>3, <1>5
<1> QED
  BY <1>4, <1>6

\* The same entry and values give the same key, if the name leaves no room for
\* the two algorithms to differ or one of them builds both.
LEMMA SameKey ==
  ASSUME NEW r \in Requests, NEW s \in Requests,
         r.entry = s.entry, r.fill = s.fill,
         Closed(r.entry.name) \/ (r.runtime \in Cutting <=> s.runtime \in Cutting)
  PROVE  Key(r) = Key(s)
<1> DEFINE cut == Filled(r.entry.name, Cut(r.entry.name), r.fill)
<1> DEFINE matched == Filled(r.entry.name, Matched(r.entry.name), r.fill)
<1> DEFINE prefix == <<"fanwaave/", r.entry.domain, "/">>
<1>1. r.runtime \in Runtimes /\ s.runtime \in Runtimes
  BY RequestFacts
<1>2. /\ Key(r) = prefix \o (IF r.runtime \in Cutting THEN cut ELSE matched)
      /\ Key(s) = prefix \o (IF s.runtime \in Cutting THEN cut ELSE matched)
  BY <1>1 DEF Key, Runtimes, Cutting, RustName, GleamName, GoName, TypescriptName, DartName
<1>3. Closed(r.entry.name) => cut = matched
  BY CutIsMatched, RequestFacts
<1> HIDE DEF cut, matched, prefix
<1> QED
  BY <1>2, <1>3
-----------------------------------------------------------------------------
(* The steps.                                                               *)

LEMMA InitIInv == Init => IInv
BY DEF Init, IInv, Typed, Exclusive, Holders

LEMMA NextIInv == IInv /\ [Next]_vars => IInv'
<1> SUFFICES ASSUME IInv, [Next]_vars PROVE IInv'
  OBVIOUS
<1>1. CASE UNCHANGED vars
  BY <1>1 DEF vars, IInv, Typed, Exclusive, Holders, Key, RustName, GleamName, GoName,
              TypescriptName, DartName
<1>2. ASSUME NEW p \in Processes, Request(p) PROVE IInv'
  <2>1. Typed'
    BY <1>2, RequestAssumption DEF Request, IInv, Typed
  <2>2. \A q \in Holders' : q \in Holders /\ request'[q] = request[q]
    BY <1>2 DEF Request, Holders, IInv, Typed
  <2>3. Exclusive'
    BY <2>2 DEF IInv, Exclusive
  <2> QED
    BY <2>1, <2>3 DEF IInv
<1>3. ASSUME NEW p \in Processes, Acquire(p) PROVE IInv'
  <2>1. Typed'
    BY <1>3 DEF Acquire, IInv, Typed
  <2>2. Holders' = Holders \cup {p} /\ request' = request
    BY <1>3 DEF Acquire, Holders, IInv, Typed
  <2>3. \A q \in Holders : Key(request[q]) # Key(request[p])
    BY <1>3 DEF Acquire
  <2>4. Exclusive'
    BY <2>2, <2>3 DEF IInv, Exclusive
  <2> QED
    BY <2>1, <2>4 DEF IInv
<1>4. ASSUME NEW p \in Processes, InvalidLockKey(p) \/ GiveUp(p) \/ Release(p) PROVE IInv'
  <2>1. Typed'
    BY <1>4, RequestAssumption DEF InvalidLockKey, GiveUp, Release, Leave, IInv, Typed
  <2>2. \A q \in Holders' : q \in Holders /\ request'[q] = request[q]
    BY <1>4 DEF InvalidLockKey, GiveUp, Release, Leave, Holders, IInv, Typed
  <2>3. Exclusive'
    BY <2>2 DEF IInv, Exclusive
  <2> QED
    BY <2>1, <2>3 DEF IInv
<1> QED
  BY <1>1, <1>2, <1>3, <1>4 DEF Next

LEMMA Inductive == Spec => []IInv
BY InitIInv, NextIInv, PTL DEF Spec
-----------------------------------------------------------------------------
(* The theorems.                                                            *)

LEMMA ExclusionLemma == IInv => MutualExclusion
<1> SUFFICES ASSUME IInv, NEW p \in Holders, NEW q \in Holders,
                    request[p].entry = request[q].entry,
                    request[p].fill = request[q].fill,
                    \/ Closed(request[p].entry.name)
                    \/ request[p].runtime \in Cutting <=> request[q].runtime \in Cutting
             PROVE  p = q
  BY DEF MutualExclusion
<1>1. request[p] \in Requests /\ request[q] \in Requests
  BY DEF IInv, Typed, Holders
<1>2. Key(request[p]) = Key(request[q])
  BY <1>1, SameKey
<1> QED
  BY <1>2 DEF IInv, Exclusive

\* Two processes never hold the lock of one entry with the same values, for any
\* two runtimes if the braces of its name are closed, and for a name with an open
\* brace if both runtimes fill it by the same algorithm.
THEOREM LocksExclude == Spec => []MutualExclusion
BY ExclusionLemma, Inductive, PTL
-----------------------------------------------------------------------------
(* The pieces of a filled name.  FlattenSeq recurses over them; for as many *)
(* pieces as the names of the catalog have, its function is written out.    *)

LEMMA FlattenOne ==
  ASSUME NEW s, Len(s) = 1
  PROVE  FlattenSeq(s) = s[1]
<1> DEFINE step(f) == [i \in 1..Len(s) |-> IF i = 1 THEN s[i] ELSE f[i-1] \o s[i]]
<1> DEFINE flatten == CHOOSE f : f = step(f)
<1>1. FlattenSeq(s) = flatten[1]
  BY DEF FlattenSeq
<1>2. \E f : f = step(f)
  <2> DEFINE g == [i \in 1..Len(s) |-> s[1]]
  <2>1. g = step(g)
    OBVIOUS
  <2> QED
    BY <2>1
<1>3. flatten = step(flatten)
  BY <1>2
<1> HIDE DEF flatten
<1> QED
  BY <1>1, <1>3

LEMMA FlattenFour ==
  ASSUME NEW s, Len(s) = 4
  PROVE  FlattenSeq(s) = ((s[1] \o s[2]) \o s[3]) \o s[4]
<1> DEFINE step(f) == [i \in 1..Len(s) |-> IF i = 1 THEN s[i] ELSE f[i-1] \o s[i]]
<1> DEFINE flatten == CHOOSE f : f = step(f)
<1>1. FlattenSeq(s) = flatten[4]
  BY DEF FlattenSeq
<1>2. \E f : f = step(f)
  <2> DEFINE two == s[1] \o s[2]
  <2> DEFINE three == two \o s[3]
  <2> DEFINE four == three \o s[4]
  <2> DEFINE g == [i \in 1..Len(s) |-> IF i = 1 THEN s[1] ELSE IF i = 2 THEN two
                                       ELSE IF i = 3 THEN three ELSE four]
  <2>1. \A i \in 1..Len(s) : g[i] = IF i = 1 THEN s[i] ELSE g[i-1] \o s[i]
    OBVIOUS
  <2>2. g = step(g)
    BY <2>1
  <2> QED
    BY <2>2
<1>3. flatten = step(flatten)
  BY <1>2
<1> HIDE DEF flatten
<1>4. /\ \A i \in 1..4 : i = 1 => flatten[i] = s[i]
      /\ \A i \in 1..4 : i # 1 => flatten[i] = flatten[i-1] \o s[i]
  BY <1>3
<1>5. flatten[1] = s[1]
  BY <1>4
<1>6. flatten[2] = flatten[1] \o s[2]
  <2>1. 2 \in 1..4 /\ 2 # 1 /\ 2 - 1 = 1
    OBVIOUS
  <2> QED
    BY <1>4, <2>1, Zenon
<1>7. flatten[3] = flatten[2] \o s[3]
  <2>1. 3 \in 1..4 /\ 3 # 1 /\ 3 - 1 = 2
    OBVIOUS
  <2> QED
    BY <1>4, <2>1, Zenon
<1>8. flatten[4] = flatten[3] \o s[4]
  <2>1. 4 \in 1..4 /\ 4 # 1 /\ 4 - 1 = 3
    OBVIOUS
  <2> QED
    BY <1>4, <2>1, Zenon
<1> QED
  BY <1>1, <1>5, <1>6, <1>7, <1>8, Zenon

LEMMA FlattenFive ==
  ASSUME NEW s, Len(s) = 5
  PROVE  FlattenSeq(s) = (((s[1] \o s[2]) \o s[3]) \o s[4]) \o s[5]
<1> DEFINE step(f) == [i \in 1..Len(s) |-> IF i = 1 THEN s[i] ELSE f[i-1] \o s[i]]
<1> DEFINE flatten == CHOOSE f : f = step(f)
<1>1. FlattenSeq(s) = flatten[5]
  BY DEF FlattenSeq
<1>2. \E f : f = step(f)
  <2> DEFINE two == s[1] \o s[2]
  <2> DEFINE three == two \o s[3]
  <2> DEFINE four == three \o s[4]
  <2> DEFINE five == four \o s[5]
  <2> DEFINE g == [i \in 1..Len(s) |-> IF i = 1 THEN s[1] ELSE IF i = 2 THEN two
                                       ELSE IF i = 3 THEN three ELSE IF i = 4 THEN four
                                       ELSE five]
  <2>1. \A i \in 1..Len(s) : g[i] = IF i = 1 THEN s[i] ELSE g[i-1] \o s[i]
    OBVIOUS
  <2>2. g = step(g)
    BY <2>1
  <2> QED
    BY <2>2
<1>3. flatten = step(flatten)
  BY <1>2
<1> HIDE DEF flatten
<1>4. /\ \A i \in 1..5 : i = 1 => flatten[i] = s[i]
      /\ \A i \in 1..5 : i # 1 => flatten[i] = flatten[i-1] \o s[i]
  BY <1>3
<1>5. flatten[1] = s[1]
  BY <1>4
<1>6. flatten[2] = flatten[1] \o s[2]
  <2>1. 2 \in 1..5 /\ 2 # 1 /\ 2 - 1 = 1
    OBVIOUS
  <2> QED
    BY <1>4, <2>1, Zenon
<1>7. flatten[3] = flatten[2] \o s[3]
  <2>1. 3 \in 1..5 /\ 3 # 1 /\ 3 - 1 = 2
    OBVIOUS
  <2> QED
    BY <1>4, <2>1, Zenon
<1>8. flatten[4] = flatten[3] \o s[4]
  <2>1. 4 \in 1..5 /\ 4 # 1 /\ 4 - 1 = 3
    OBVIOUS
  <2> QED
    BY <1>4, <2>1, Zenon
<1>9. flatten[5] = flatten[4] \o s[5]
  <2>1. 5 \in 1..5 /\ 5 # 1 /\ 5 - 1 = 4
    OBVIOUS
  <2> QED
    BY <1>4, <2>1, Zenon
<1> QED
  BY <1>1, <1>5, <1>6, <1>7, <1>8, <1>9, Zenon

\* What the only placeholder of a name gets.
FirstOf(values) == IF 1 <= Len(values) THEN values[1] ELSE <<>>

\* Braces, as predicates the provers of arithmetic need not look into.
Opens(name, i) == name[i] = "{"
Shuts(name, i) == name[i] = "}"

LEMMA CutBy ==
  ASSUME NEW name, NEW i
  PROVE  i \in Cut(name) <=>
           /\ i \in 1..Len(name)
           /\ \E j \in 1..i : Opens(name, j) /\ \A k \in j..(i - 1) : ~Shuts(name, k)
BY DEF Cut, Opens, Shuts

LEMMA NothingCut ==
  ASSUME NEW name, Len(name) = 1, ~Opens(name, 1)
  PROVE  Cut(name) = {}
<1>1. ASSUME NEW i \in Cut(name) PROVE FALSE
  <2>1. i \in 1..Len(name)
    BY CutBy, Zenon
  <2>2. PICK j \in 1..i : Opens(name, j)
    BY CutBy
  <2> QED
    BY <2>1, <2>2
<1> QED
  BY <1>1

LEMMA NoPlaceholder ==
  ASSUME NEW name, Len(name) = 1, ~Opens(name, 1), NEW values
  PROVE  /\ Filled(name, Cut(name), values) = <<name[1]>>
         /\ Matched(name) = Cut(name)
<1>1. Cut(name) = {}
  BY NothingCut
<1>2. Cut(name) = {} /\ Matched(name) = {} /\ Starts(name, {}) = {}
  BY <1>1 DEF Matched, Starts
<1> DEFINE s == Pieces(name, {}, values)
<1>3. s = [i \in 1..1 |-> <<name[i]>>]
  BY <1>2 DEF Pieces
<1> HIDE DEF s
<1>4. Len(s) = 1 /\ s[1] = <<name[1]>>
  BY <1>3
<1>5. FlattenSeq(s) = <<name[1]>>
  BY <1>4, FlattenOne
<1> QED
  BY <1>2, <1>5 DEF Filled, s

\* A name with a placeholder at positions 2 to 4 after a plain part.
LEMMA HoleAtTheEnd ==
  ASSUME NEW name, Len(name) = 4,
         ~Opens(name, 1), Opens(name, 2), ~Opens(name, 3), ~Opens(name, 4),
         ~Shuts(name, 2), ~Shuts(name, 3), Shuts(name, 4)
  PROVE  Cut(name) = 2..4 /\ Matched(name) = 2..4 /\ Starts(name, 2..4) = {2}
<1>1. ASSUME NEW i \in Cut(name) PROVE i \in 2..4
  <2>1. i \in 1..Len(name) /\ \E j \in 1..i : Opens(name, j)
    BY CutBy, Zenon
  <2>2. PICK j \in 1..i : Opens(name, j)
    BY <2>1
  <2> QED
    BY <2>1, <2>2
<1>2. ASSUME NEW i \in 2..4 PROVE i \in Cut(name)
  <2>1. i \in 1..Len(name) /\ 2 \in 1..i /\ \A k \in 2..(i - 1) : ~Shuts(name, k)
    OBVIOUS
  <2> QED
    BY <2>1, CutBy, Zenon
<1>3. Cut(name) = 2..4
  BY <1>1, <1>2
<1>4. \A i \in 2..4 : \E k \in i..Len(name) : Shuts(name, k)
  OBVIOUS
<1>5. Matched(name) = 2..4
  BY <1>3, <1>4 DEF Matched, Shuts
<1>6. Starts(name, 2..4) = {i \in 2..4 : Opens(name, i) /\ (i - 1 \notin 2..4 \/ Shuts(name, i - 1))}
  BY DEF Starts, Opens, Shuts
<1>7. Starts(name, 2..4) = {2}
  BY <1>6
<1> QED
  BY <1>3, <1>5, <1>7

\* A name with a placeholder at positions 1 to 3 before two plain parts.
LEMMA HoleAtTheStart ==
  ASSUME NEW name, Len(name) = 5,
         Opens(name, 1), ~Opens(name, 2), ~Opens(name, 3), ~Opens(name, 4), ~Opens(name, 5),
         ~Shuts(name, 1), ~Shuts(name, 2), Shuts(name, 3)
  PROVE  Cut(name) = 1..3 /\ Matched(name) = 1..3 /\ Starts(name, 1..3) = {1}
<1>1. ASSUME NEW i \in Cut(name) PROVE i \in 1..3
  <2>1. i \in 1..Len(name) /\ \E j \in 1..i : Opens(name, j) /\ \A k \in j..(i - 1) : ~Shuts(name, k)
    BY CutBy, Zenon
  <2>2. PICK j \in 1..i : Opens(name, j) /\ \A k \in j..(i - 1) : ~Shuts(name, k)
    BY <2>1
  <2>3. j = 1
    BY <2>1, <2>2
  <2> QED
    BY <2>1, <2>2, <2>3
<1>2. ASSUME NEW i \in 1..3 PROVE i \in Cut(name)
  <2>1. i \in 1..Len(name) /\ 1 \in 1..i /\ \A k \in 1..(i - 1) : ~Shuts(name, k)
    OBVIOUS
  <2> QED
    BY <2>1, CutBy, Zenon
<1>3. Cut(name) = 1..3
  BY <1>1, <1>2
<1>4. \A i \in 1..3 : \E k \in i..Len(name) : Shuts(name, k)
  OBVIOUS
<1>5. Matched(name) = 1..3
  BY <1>3, <1>4 DEF Matched, Shuts
<1>6. Starts(name, 1..3) = {i \in 1..3 : Opens(name, i) /\ (i - 1 \notin 1..3 \/ Shuts(name, i - 1))}
  BY DEF Starts, Opens, Shuts
<1>7. Starts(name, 1..3) = {1}
  BY <1>6
<1> QED
  BY <1>3, <1>5, <1>7

LEMMA OneFilling ==
  ASSUME NEW name, NEW placeholders, NEW values, NEW b \in Nat,
         Starts(name, placeholders) = {b}
  PROVE  Filling(name, placeholders, values, b) = FirstOf(values)
<1>1. {j \in Starts(name, placeholders) : j <= b} = {b}
  OBVIOUS
<1>2. Cardinality({b}) = 1
  BY FS_Singleton
<1> QED
  BY <1>1, <1>2 DEF Filling, FirstOf

LEMMA FirstInSeq ==
  ASSUME NEW r \in Requests
  PROVE  FirstOf(r.fill) \in Seq(STRING)
<1>1. CASE 1 <= Len(r.fill)
  <2>1. 1 \in 1..Len(r.fill)
    BY <1>1, RequestFacts
  <2>2. r.fill[1] \in Seq(STRING)
    BY <2>1, RequestFacts, Zenon
  <2> QED
    BY <1>1, <2>2, Zenon DEF FirstOf
<1>2. CASE ~(1 <= Len(r.fill))
  <2>1. <<>> \in Seq(STRING)
    OBVIOUS
  <2> QED
    BY <1>2, <2>1, Zenon DEF FirstOf
<1> QED
  BY <1>1, <1>2

\* The names of the two entries that have a placeholder, once it is filled.
LEMMA JobsName ==
  ASSUME NEW name, Len(name) = 4, NEW values, FirstOf(values) \in Seq(STRING),
         ~Opens(name, 1), Opens(name, 2), ~Opens(name, 3), ~Opens(name, 4),
         ~Shuts(name, 2), ~Shuts(name, 3), Shuts(name, 4)
  PROVE  Filled(name, Cut(name), values) = <<name[1]>> \o FirstOf(values)
<1> DEFINE s == Pieces(name, 2..4, values)
<1>1. Cut(name) = 2..4 /\ Starts(name, 2..4) = {2}
  BY HoleAtTheEnd
<1>2. Filling(name, 2..4, values, 2) = FirstOf(values)
  BY <1>1, OneFilling
<1>3. \A i \in 1..4 : s[i] = IF i \in {2} THEN Filling(name, 2..4, values, i)
                            ELSE IF i \in 2..4 THEN <<>> ELSE <<name[i]>>
  BY <1>1 DEF Pieces
<1>4. Len(s) = 4
  BY DEF Pieces
<1> HIDE DEF s
<1>5. s[1] = <<name[1]>>
  BY <1>3
<1>6. s[2] = FirstOf(values)
  BY <1>2, <1>3
<1>7. s[3] = <<>> /\ s[4] = <<>>
  BY <1>3
<1>8. FlattenSeq(s) = ((s[1] \o s[2]) \o s[3]) \o s[4]
  BY <1>4, FlattenFour
<1>9. FlattenSeq(s) = ((<<name[1]>> \o FirstOf(values)) \o <<>>) \o <<>>
  BY <1>5, <1>6, <1>7, <1>8, Zenon
<1>10. <<name[1]>> \o FirstOf(values) \in Seq(STRING \cup {name[1]})
  OBVIOUS
<1>11. FlattenSeq(s) = <<name[1]>> \o FirstOf(values)
  BY <1>9, <1>10
<1> QED
  BY <1>1, <1>11, Zenon DEF Filled, s

LEMMA TenantName ==
  ASSUME NEW name, Len(name) = 5, NEW values, FirstOf(values) \in Seq(STRING),
         Opens(name, 1), ~Opens(name, 2), ~Opens(name, 3), ~Opens(name, 4), ~Opens(name, 5),
         ~Shuts(name, 1), ~Shuts(name, 2), Shuts(name, 3)
  PROVE  Filled(name, Cut(name), values)
           = (FirstOf(values) \o <<name[4]>>) \o <<name[5]>>
<1> DEFINE s == Pieces(name, 1..3, values)
<1>1. Cut(name) = 1..3 /\ Starts(name, 1..3) = {1}
  BY HoleAtTheStart
<1>2. Filling(name, 1..3, values, 1) = FirstOf(values)
  BY <1>1, OneFilling
<1>3. \A i \in 1..5 : s[i] = IF i \in {1} THEN Filling(name, 1..3, values, i)
                            ELSE IF i \in 1..3 THEN <<>> ELSE <<name[i]>>
  BY <1>1 DEF Pieces
<1>4. Len(s) = 5
  BY DEF Pieces
<1> HIDE DEF s
<1>5. s[1] = FirstOf(values)
  BY <1>2, <1>3
<1>6. s[2] = <<>> /\ s[3] = <<>>
  BY <1>3
<1>7. s[4] = <<name[4]>> /\ s[5] = <<name[5]>>
  BY <1>3
<1>8. FlattenSeq(s) = (((s[1] \o s[2]) \o s[3]) \o s[4]) \o s[5]
  BY <1>4, FlattenFive
<1>9. FlattenSeq(s) = (((FirstOf(values) \o <<>>) \o <<>>) \o <<name[4]>>) \o <<name[5]>>
  BY <1>5, <1>6, <1>7, <1>8, Zenon
<1>10. (FirstOf(values) \o <<>>) \o <<>> = FirstOf(values)
  OBVIOUS
<1> QED
  BY <1>1, <1>9, <1>10, Zenon DEF Filled, s
-----------------------------------------------------------------------------
(* The keys of the catalog.                                                 *)

LEMMA LeftCancel ==
  ASSUME NEW T, NEW u \in Seq(T), NEW s \in Seq(T), NEW t \in Seq(T), u \o s = u \o t
  PROVE  s = t
OBVIOUS

LEMMA RightCancel ==
  ASSUME NEW T, NEW s \in Seq(T), NEW t \in Seq(T), NEW a \in T, s \o <<a>> = t \o <<a>>
  PROVE  s = t
<1>1. Len(s \o <<a>>) = Len(s) + 1 /\ Len(t \o <<a>>) = Len(t) + 1
  OBVIOUS
<1>2. Len(s) = Len(t)
  BY <1>1
<1>3. ASSUME NEW i \in 1..Len(s) PROVE s[i] = t[i]
  <2>1. (s \o <<a>>)[i] = s[i] /\ (t \o <<a>>)[i] = t[i]
    BY <1>2
  <2> QED
    BY <2>1
<1> QED
  BY <1>2, <1>3

Prefix(domain) == <<"fanwaave/", domain, "/">>

LEMMA ConcatIndex ==
  ASSUME NEW T, NEW u \in Seq(T), NEW s \in Seq(T), NEW i \in 1..Len(u)
  PROVE  (u \o s)[i] = u[i]
OBVIOUS

LEMMA SecondOfKey ==
  ASSUME NEW domain, NEW T, NEW s \in Seq(T)
  PROVE  (Prefix(domain) \o s)[2] = domain
<1>1. Prefix(domain) \in Seq({"fanwaave/", domain, "/"}) /\ Len(Prefix(domain)) = 3
      /\ Prefix(domain)[2] = domain
  BY DEF Prefix
<1> HIDE DEF Prefix
<1> DEFINE U == {"fanwaave/", domain, "/"} \cup T
<1> DEFINE u == Prefix(domain)
<1>2. u \in Seq(U) /\ s \in Seq(U)
  BY <1>1
<1>3. 2 \in 1..Len(u)
  BY <1>1
<1> HIDE DEF U, u
<1>4. (u \o s)[2] = u[2]
  BY <1>2, <1>3, ConcatIndex
<1> QED
  BY <1>1, <1>4 DEF u

\* Of the two algorithms one is enough where they cut the same.
LEMMA KeyByCut ==
  ASSUME NEW r \in Requests, Matched(r.entry.name) = Cut(r.entry.name)
  PROVE  Key(r) = Prefix(r.entry.domain) \o Filled(r.entry.name, Cut(r.entry.name), r.fill)
<1>1. r.runtime \in Runtimes
  BY RequestFacts
<1> QED
  BY <1>1 DEF Key, Prefix, Runtimes, RustName, GleamName, GoName, TypescriptName, DartName

LEMMA MigrationsFacts ==
  LET e == MIGRATIONS_APPLY
  IN  /\ e.domain = "migrations" /\ Len(e.name) = 1 /\ e.name[1] = "apply" /\ ~Opens(e.name, 1)
BY DEF MIGRATIONS_APPLY, Opens

LEMMA OutboxFacts ==
  LET e == OUTBOX_DRAIN
  IN  /\ e.domain = "outbox" /\ Len(e.name) = 1 /\ e.name[1] = "drain" /\ ~Opens(e.name, 1)
BY DEF OUTBOX_DRAIN, Opens

LEMMA JobsFacts ==
  LET e == JOBS_SINGLETON_JOB
  IN  /\ e.domain = "jobs" /\ Len(e.name) = 4
      /\ ~Opens(e.name, 1) /\ Opens(e.name, 2) /\ ~Opens(e.name, 3) /\ ~Opens(e.name, 4)
      /\ ~Shuts(e.name, 2) /\ ~Shuts(e.name, 3) /\ Shuts(e.name, 4)
BY DEF JOBS_SINGLETON_JOB, Opens, Shuts

LEMMA TenantFacts ==
  LET e == TENANT_TENANT_ID_MUTATE
  IN  /\ e.domain = "tenant" /\ Len(e.name) = 5
      /\ Opens(e.name, 1) /\ ~Opens(e.name, 2) /\ ~Opens(e.name, 3)
      /\ ~Opens(e.name, 4) /\ ~Opens(e.name, 5)
      /\ ~Shuts(e.name, 1) /\ ~Shuts(e.name, 2) /\ Shuts(e.name, 3)
BY DEF TENANT_TENANT_ID_MUTATE, Opens, Shuts

\* What an entry of the catalog is called once it is filled.
CatalogName(r) ==
  IF r.entry = JOBS_SINGLETON_JOB THEN <<JOBS_SINGLETON_JOB.name[1]>> \o FirstOf(r.fill)
  ELSE IF r.entry = TENANT_TENANT_ID_MUTATE
       THEN (FirstOf(r.fill) \o <<TENANT_TENANT_ID_MUTATE.name[4]>>)
              \o <<TENANT_TENANT_ID_MUTATE.name[5]>>
       ELSE <<r.entry.name[1]>>

LEMMA CatalogDiffers ==
  /\ MIGRATIONS_APPLY # JOBS_SINGLETON_JOB /\ OUTBOX_DRAIN # JOBS_SINGLETON_JOB
  /\ TENANT_TENANT_ID_MUTATE # JOBS_SINGLETON_JOB
  /\ MIGRATIONS_APPLY # TENANT_TENANT_ID_MUTATE /\ OUTBOX_DRAIN # TENANT_TENANT_ID_MUTATE
<1>1. /\ MIGRATIONS_APPLY.domain = "migrations" /\ OUTBOX_DRAIN.domain = "outbox"
      /\ JOBS_SINGLETON_JOB.domain = "jobs" /\ TENANT_TENANT_ID_MUTATE.domain = "tenant"
  BY MigrationsFacts, OutboxFacts, JobsFacts, TenantFacts
<1>2. "migrations" # "jobs" /\ "outbox" # "jobs" /\ "tenant" # "jobs"
      /\ "migrations" # "tenant" /\ "outbox" # "tenant"
  OBVIOUS
<1> QED
  BY <1>1, <1>2, Zenon

LEMMA CatalogKey ==
  ASSUME NEW r \in Requests, r.entry \in Catalog
  PROVE  Key(r) = Prefix(r.entry.domain) \o CatalogName(r)
<1>1. FirstOf(r.fill) \in Seq(STRING)
  BY FirstInSeq
<1>2. CASE r.entry = MIGRATIONS_APPLY
  <2>1. /\ Filled(r.entry.name, Cut(r.entry.name), r.fill) = <<r.entry.name[1]>>
        /\ Matched(r.entry.name) = Cut(r.entry.name)
    BY <1>2, MigrationsFacts, NoPlaceholder
  <2> QED
    BY <1>2, <2>1, KeyByCut, CatalogDiffers, Zenon DEF CatalogName
<1>3. CASE r.entry = OUTBOX_DRAIN
  <2>1. /\ Filled(r.entry.name, Cut(r.entry.name), r.fill) = <<r.entry.name[1]>>
        /\ Matched(r.entry.name) = Cut(r.entry.name)
    BY <1>3, OutboxFacts, NoPlaceholder
  <2> QED
    BY <1>3, <2>1, KeyByCut, CatalogDiffers, Zenon DEF CatalogName
<1>4. CASE r.entry = JOBS_SINGLETON_JOB
  <2>1. /\ Filled(r.entry.name, Cut(r.entry.name), r.fill)
             = <<JOBS_SINGLETON_JOB.name[1]>> \o FirstOf(r.fill)
        /\ Matched(r.entry.name) = Cut(r.entry.name)
    BY <1>1, <1>4, JobsFacts, JobsName, HoleAtTheEnd, Zenon
  <2> QED
    BY <1>4, <2>1, KeyByCut, Zenon DEF CatalogName
<1>5. CASE r.entry = TENANT_TENANT_ID_MUTATE
  <2>1. /\ Filled(r.entry.name, Cut(r.entry.name), r.fill)
             = (FirstOf(r.fill) \o <<TENANT_TENANT_ID_MUTATE.name[4]>>)
                 \o <<TENANT_TENANT_ID_MUTATE.name[5]>>
        /\ Matched(r.entry.name) = Cut(r.entry.name)
    BY <1>1, <1>5, TenantFacts, TenantName, HoleAtTheStart, Zenon
  <2> QED
    BY <1>5, <2>1, KeyByCut, CatalogDiffers, Zenon DEF CatalogName
<1> QED
  BY <1>2, <1>3, <1>4, <1>5 DEF Catalog

LEMMA CatalogNameInSeq ==
  ASSUME NEW r \in Requests
  PROVE  \E T : CatalogName(r) \in Seq(T)
<1> DEFINE f == FirstOf(r.fill)
<1>1. f \in Seq(STRING)
  BY FirstInSeq
<1> HIDE DEF f
<1>2. <<JOBS_SINGLETON_JOB.name[1]>> \o f \in Seq(STRING \cup {JOBS_SINGLETON_JOB.name[1]})
  BY <1>1
<1>3. (f \o <<TENANT_TENANT_ID_MUTATE.name[4]>>) \o <<TENANT_TENANT_ID_MUTATE.name[5]>>
        \in Seq(STRING \cup {TENANT_TENANT_ID_MUTATE.name[4], TENANT_TENANT_ID_MUTATE.name[5]})
  BY <1>1
<1>4. <<r.entry.name[1]>> \in Seq({r.entry.name[1]})
  OBVIOUS
<1> QED
  BY <1>2, <1>3, <1>4, Zenon DEF CatalogName, f

\* The domain of a key tells the entries of the catalog apart.
LEMMA DomainOfKey ==
  ASSUME NEW r \in Requests, NEW s \in Requests,
         r.entry \in Catalog, s.entry \in Catalog, Key(r) = Key(s)
  PROVE  r.entry = s.entry
<1>1. PICK T : CatalogName(r) \in Seq(T)
  BY CatalogNameInSeq
<1>2. PICK U : CatalogName(s) \in Seq(U)
  BY CatalogNameInSeq
<1>3. Key(r)[2] = r.entry.domain
  BY <1>1, CatalogKey, SecondOfKey, Zenon
<1>4. Key(s)[2] = s.entry.domain
  BY <1>2, CatalogKey, SecondOfKey, Zenon
<1>5. r.entry.domain = s.entry.domain
  BY <1>3, <1>4
<1>6. /\ MIGRATIONS_APPLY.domain = "migrations" /\ OUTBOX_DRAIN.domain = "outbox"
      /\ JOBS_SINGLETON_JOB.domain = "jobs" /\ TENANT_TENANT_ID_MUTATE.domain = "tenant"
  BY MigrationsFacts, OutboxFacts, JobsFacts, TenantFacts
<1>7. /\ "migrations" # "jobs" /\ "outbox" # "jobs" /\ "tenant" # "jobs"
      /\ "migrations" # "tenant" /\ "outbox" # "tenant" /\ "migrations" # "outbox"
  OBVIOUS
<1> QED
  BY <1>5, <1>6, <1>7, Zenon DEF Catalog

\* What follows the domain tells their values apart.
LEMMA ValueOfKey ==
  ASSUME NEW r \in Requests, NEW s \in Requests,
         r.entry \in {JOBS_SINGLETON_JOB, TENANT_TENANT_ID_MUTATE},
         r.entry = s.entry, Key(r) = Key(s)
  PROVE  FirstOf(r.fill) = FirstOf(s.fill)
<1> DEFINE f == FirstOf(r.fill)
<1> DEFINE g == FirstOf(s.fill)
<1>1. f \in Seq(STRING) /\ g \in Seq(STRING)
  BY FirstInSeq
<1> DEFINE d == r.entry.domain
<1>2. Prefix(d) \o CatalogName(r) = Prefix(d) \o CatalogName(s)
  BY CatalogKey, Zenon DEF Catalog
<1>3. Prefix(d) \in Seq({"fanwaave/", d, "/"})
  BY DEF Prefix
<1> HIDE DEF f, g, d
<1>4. CASE r.entry = JOBS_SINGLETON_JOB
  <2> DEFINE a == JOBS_SINGLETON_JOB.name[1]
  <2>1. CatalogName(r) = <<a>> \o f /\ CatalogName(s) = <<a>> \o g
    BY <1>4, Zenon DEF CatalogName, f, g
  <2> HIDE DEF a
  <2> DEFINE T == STRING \cup {a} \cup {"fanwaave/", d, "/"}
  <2>2. Prefix(d) \in Seq(T) /\ <<a>> \in Seq(T) /\ f \in Seq(T) /\ g \in Seq(T)
    BY <1>1, <1>3
  <2> HIDE DEF T
  <2>3. <<a>> \o f \in Seq(T) /\ <<a>> \o g \in Seq(T)
    BY <2>2
  <2>4. <<a>> \o f = <<a>> \o g
    BY <1>2, <2>1, <2>2, <2>3, LeftCancel, Zenon
  <2> QED
    BY <2>2, <2>4, LeftCancel, Zenon DEF f, g
<1>5. CASE r.entry = TENANT_TENANT_ID_MUTATE
  <2> DEFINE a == TENANT_TENANT_ID_MUTATE.name[4]
  <2> DEFINE b == TENANT_TENANT_ID_MUTATE.name[5]
  <2>1. /\ CatalogName(r) = (f \o <<a>>) \o <<b>>
        /\ CatalogName(s) = (g \o <<a>>) \o <<b>>
    BY <1>5, CatalogDiffers, Zenon DEF CatalogName, f, g
  <2> HIDE DEF a, b
  <2> DEFINE T == STRING \cup {a, b} \cup {"fanwaave/", d, "/"}
  <2>2. Prefix(d) \in Seq(T) /\ f \in Seq(T) /\ g \in Seq(T) /\ a \in T /\ b \in T
    BY <1>1, <1>3
  <2> HIDE DEF T
  <2>3. f \o <<a>> \in Seq(T) /\ g \o <<a>> \in Seq(T)
        /\ (f \o <<a>>) \o <<b>> \in Seq(T) /\ (g \o <<a>>) \o <<b>> \in Seq(T)
    BY <2>2
  <2>4. (f \o <<a>>) \o <<b>> = (g \o <<a>>) \o <<b>>
    BY <1>2, <2>1, <2>2, <2>3, LeftCancel, Zenon
  <2>5. f \o <<a>> = g \o <<a>>
    <3> DEFINE fa == f \o <<a>>
    <3> DEFINE ga == g \o <<a>>
    <3>1. fa \in Seq(T) /\ ga \in Seq(T) /\ b \in T /\ fa \o <<b>> = ga \o <<b>>
      BY <2>2, <2>3, <2>4
    <3> HIDE DEF fa, ga
    <3>2. fa = ga
      BY <3>1, RightCancel
    <3> QED
      BY <3>2 DEF fa, ga
  <2> QED
    BY <2>2, <2>5, RightCancel, Zenon DEF f, g
<1> QED
  BY <1>4, <1>5

LEMMA SameEffect ==
  ASSUME NEW r \in Requests, NEW s \in Requests,
         r.entry \in Catalog, s.entry \in Catalog, Key(r) = Key(s)
  PROVE  r.entry = s.entry /\ Effective(r) = Effective(s)
<1> DEFINE name == r.entry.name
<1> DEFINE starts == Starts(name, Matched(name))
<1>1. r.entry = s.entry
  BY DomainOfKey
<1>2. ASSUME NEW i \in starts
      PROVE  Filling(name, Matched(name), r.fill, i) = Filling(name, Matched(name), s.fill, i)
  <2>1. CASE r.entry \in {MIGRATIONS_APPLY, OUTBOX_DRAIN}
    <3>1. Cut(name) = {}
      BY <2>1, MigrationsFacts, OutboxFacts, NothingCut
    <3> QED
      BY <3>1 DEF Matched, Starts
  <2>2. CASE r.entry = JOBS_SINGLETON_JOB
    <3>1. starts = {2}
      BY <2>2, JobsFacts, HoleAtTheEnd, Zenon
    <3>2. \A v : Filling(name, Matched(name), v, 2) = FirstOf(v)
      BY <3>1, OneFilling
    <3> QED
      BY <1>1, <2>2, <3>1, <3>2, ValueOfKey
  <2>3. CASE r.entry = TENANT_TENANT_ID_MUTATE
    <3>1. starts = {1}
      BY <2>3, TenantFacts, HoleAtTheStart, Zenon
    <3>2. \A v : Filling(name, Matched(name), v, 1) = FirstOf(v)
      BY <3>1, OneFilling
    <3> QED
      BY <1>1, <2>3, <3>1, <3>2, ValueOfKey
  <2> QED
    BY <2>1, <2>2, <2>3 DEF Catalog
<1> QED
  BY <1>1, <1>2 DEF Effective

LEMMA SharingLemma == IInv => NoFalseSharing
<1> SUFFICES ASSUME IInv, NEW p \in Processes, NEW q \in Holders, at[p] = "waiting",
                    {request[p].entry, request[q].entry} \subseteq Catalog,
                    Key(request[p]) = Key(request[q])
             PROVE  /\ request[p].entry = request[q].entry
                    /\ Effective(request[p]) = Effective(request[q])
  BY DEF NoFalseSharing
<1>1. request[p] \in Requests /\ request[q] \in Requests
  BY DEF IInv, Typed, Holders
<1> QED
  BY <1>1, SameEffect

\* Who waits for a lock of the catalog waits for the same entry with the same
\* values, whatever the values are and whichever languages build the keys.
THEOREM LocksTellApart == Spec => []NoFalseSharing
BY SharingLemma, Inductive, PTL
=============================================================================
