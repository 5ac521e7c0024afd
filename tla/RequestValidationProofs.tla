---------------------- MODULE RequestValidationProofs ----------------------
(***************************************************************************)
(* The invariants of RequestValidation, for any inputs: any number of      *)
(* fields at once, texts of any length and script, lists and integers of   *)
(* any size.  TLC varies one field of a record at a time.                  *)
(***************************************************************************)
EXTENDS RequestValidation, TLAPS

-----------------------------------------------------------------------------
(* The declarations.                                                        *)

\* What the fields of the records have in common.
GoodField(f) ==
  /\ f.kind \in {"text", "int", "ip", "list"} /\ f.optional \in BOOLEAN
  /\ f.min \in Nat /\ f.max \in Nat /\ f.min <= f.max
  /\ ~f.optional => f.kind # "ip" /\ (f.kind # "list" => f.min > 0)
  /\ f.optional => f.kind \in {"text", "ip"}
  /\ f.optional /\ f.min = 0 => f.kind = "text"
  /\ f.kind = "ip" => f.min <= 2 /\ f.max >= 45

AllGood(fields) == \A x \in DOMAIN fields : GoodField(fields[x])

LEMMA GoodFields ==
  /\ \A min, max \in Nat \ {0} : min <= max =>
       /\ GoodField(Text(min, max)) /\ GoodField(Optional(Text(min, max)))
       /\ GoodField(Integer(min, max))
  /\ GoodField(Optional(Text(0, 4096)))
  /\ GoodField(Optional(Ip(2, 45)))
  /\ GoodField(ListOf(Text(1, 128), 64))
BY DEF GoodField, Text, Optional, Integer, Ip, ListOf

LEMMA JoinedGood ==
  ASSUME NEW f, NEW g, AllGood(f), AllGood(g)
  PROVE  AllGood(Joined(f, g))
BY DEF AllGood, Joined

LEMMA RustGood ==
  ASSUME NEW r \in Records
  PROVE  AllGood(FieldsOf("Rust", r))
<1>1. AllGood(RustMeta)
  BY GoodFields DEF AllGood, RustMeta
<1>2. AllGood(RustPage)
  BY GoodFields DEF AllGood, RustPage
<1>3. AllGood(RustProblem)
  BY GoodFields DEF AllGood, RustProblem
<1>4. AllGood(RustActor)
  BY GoodFields DEF AllGood, RustActor
<1>5. AllGood([sourceIp |-> Optional(Ip(2, 45))])
  BY GoodFields DEF AllGood
<1>6. AllGood([operationId |-> Text(1, 256), idempotencyKey |-> Optional(Text(1, 128))])
  BY GoodFields DEF AllGood
<1>7. AllGood(RustContext)
  BY <1>1, <1>4, <1>5, JoinedGood, Zenon DEF RustContext
<1>8. AllGood(RustCommand)
  BY <1>6, <1>7, JoinedGood, Zenon DEF RustCommand
<1> QED
  BY <1>1, <1>2, <1>3, <1>4, <1>7, <1>8
     DEF FieldsOf, Fields, Declared, Records, PublicRecords, ServerRecords

LEMMA SameDeclarations ==
  ASSUME NEW l \in Languages, NEW r \in Records
  PROVE  FieldsOf(l, r) = FieldsOf("Rust", r)
<1>1. GoMeta = RustMeta /\ TypeScriptMeta = RustMeta /\ GleamMeta = RustMeta
  BY Zenon DEF RustMeta, GoMeta, TypeScriptMeta, GleamMeta, Token
<1>2. GoPage = RustPage /\ TypeScriptPage = RustPage /\ GleamPage = RustPage
  BY Zenon DEF RustPage, GoPage, TypeScriptPage, GleamPage
<1>3. GoProblem = RustProblem /\ TypeScriptProblem = RustProblem /\ GleamProblem = RustProblem
  BY Zenon DEF RustProblem, GoProblem, TypeScriptProblem, GleamProblem, Token
<1>4. GoActor = RustActor /\ TypeScriptActor = RustActor /\ GleamActor = RustActor
  BY Zenon DEF RustActor, GoActor, TypeScriptActor, GleamActor, Token
<1>5. GoContext = RustContext /\ TypeScriptContext = RustContext /\ GleamContext = RustContext
  BY <1>1, <1>4, Zenon DEF RustContext, GoContext, TypeScriptContext, GleamContext
<1>6. GoCommand = RustCommand /\ TypeScriptCommand = RustCommand /\ GleamCommand = RustCommand
  BY <1>5, Zenon DEF RustCommand, GoCommand, TypeScriptCommand, GleamCommand, Token
<1>7. Fields["Go"] = Fields["Rust"] /\ Fields["TypeScript"] = Fields["Rust"]
      /\ Fields["Gleam"] = Fields["Rust"]
  BY <1>1, <1>2, <1>3, <1>4, <1>5, <1>6 DEF Fields
<1> QED
  BY <1>7 DEF Languages, FieldsOf

LEMMA FieldFacts ==
  ASSUME NEW l \in Languages, NEW r \in Records, NEW x \in DOMAIN FieldsOf(l, r)
  PROVE  GoodField(FieldsOf(l, r)[x])
BY RustGood, SameDeclarations DEF AllGood
-----------------------------------------------------------------------------
(* Values.                                                                  *)

Sent(f) == {Absent, Null} \cup ValuesOf(f)

Held(f) == {None} \cup ValuesOf(f)

\* What Go has where nothing was sent.
Zero(f) == Value(f.kind, "ascii", 0, 1)

LEMMA NothingFacts ==
  /\ Absent.is = "absent" /\ Null.is = "null" /\ None.is = "none"
  /\ ~Present(Absent) /\ ~Present(Null) /\ ~Present(None)
  /\ Absent # Null /\ Absent # None /\ Null # None
<1>1. Absent.is = "absent" /\ Null.is = "null" /\ None.is = "none"
  BY DEF Absent, Null, None, Value
<1>2. ~Present(Absent) /\ ~Present(Null) /\ ~Present(None)
  BY <1>1 DEF Present
<1>3. "absent" # "null" /\ "absent" # "none" /\ "null" # "none"
  OBVIOUS
<1> QED
  BY <1>1, <1>2, <1>3, Zenon

LEMMA ValueFacts ==
  ASSUME NEW f, GoodField(f), NEW v \in ValuesOf(f)
  PROVE  /\ Present(v) /\ v.is = f.kind /\ v.script \in Scripts /\ v.items \in Nat
         /\ v.n \in Int /\ (f.kind # "int" => v.n \in Nat)
         /\ v.script = "ip" => 2 <= v.n /\ v.n <= 45
         /\ v # Absent /\ v # Null /\ v # None
<1>1. v.is = f.kind /\ v.script \in Scripts /\ v.items \in Nat
  BY DEF ValuesOf
<1>2. v.n \in (IF f.kind = "int" THEN Int ELSE Nat)
      /\ (v.script = "ip" => v.n \in 2..45)
  BY DEF ValuesOf
<1>3. Present(v)
  BY <1>1 DEF Present, GoodField
<1> QED
  BY <1>1, <1>2, <1>3, NothingFacts

LEMMA ZeroFacts ==
  ASSUME NEW f, GoodField(f)
  PROVE  /\ Zero(f) \in ValuesOf(f)
         /\ Zero(f).is = f.kind /\ Zero(f).script = "ascii" /\ Zero(f).n = 0
<1>1. Zero(f) \in ValuesOf(f)
  BY DEF Zero, Value, ValuesOf, Scripts
<1> QED
  BY <1>1 DEF Zero, Value

LEMMA NativeFacts ==
  ASSUME NEW l \in Languages, NEW f, GoodField(f), NEW e \in Sent(f)
  PROVE  /\ Native(l, f, e) \in Held(f)
         /\ e \in ValuesOf(f) => Native(l, f, e) = e
         /\ e \notin ValuesOf(f) /\ l = "Go" /\ f.kind # "list" => Native(l, f, e) = Zero(f)
         /\ e \notin ValuesOf(f) /\ ~(l = "Go" /\ f.kind # "list") => Native(l, f, e) = None
<1>1. CASE e \in ValuesOf(f)
  BY <1>1, ValueFacts DEF Native, Held
<1>2. CASE e \notin ValuesOf(f)
  <2>1. ~Present(e)
    BY <1>2, NothingFacts DEF Sent
  <2> QED
    BY <1>2, <2>1, ZeroFacts DEF Native, Held, Zero
<1> QED
  BY <1>1, <1>2

LEMMA EncodedFacts ==
  ASSUME NEW l \in Languages, NEW f, NEW v \in Held(f)
  PROVE  /\ Encoded(l, f, v) \in Sent(f)
         /\ v = None => Encoded(l, f, v) = IF l = "TypeScript" THEN Absent ELSE Null
         /\ v # None /\ l = "Go" /\ f.optional /\ v.n = 0 => Encoded(l, f, v) = Absent
         /\ v # None /\ ~(l = "Go" /\ f.optional /\ v.n = 0) => Encoded(l, f, v) = v
BY DEF Encoded, Held, Sent

LEMMA UnitFacts ==
  ASSUME NEW l \in Languages
  PROVE  Unit[l]["ascii"] = 1 /\ Unit[l]["ip"] = 1
BY DEF Unit, Languages
-----------------------------------------------------------------------------
(* The verdict on one field.                                                *)

InBounds(f, n) == f.min <= n /\ n <= f.max

\* The verdict every declaration means, where the libraries do not differ.
Meant(f, e) ==
  \/ e = Absent /\ f.optional
  \/ /\ e \in ValuesOf(f)
     /\ \/ f.kind \in {"text", "int"} /\ InBounds(f, e.n)
        \/ f.kind = "ip" /\ e.script = "ip"
        \/ f.kind = "list" /\ e.items <= f.most /\ (e.items > 0 => InBounds(f, e.n))

\* A service finds nothing, where it reads it at all, valid if it may be left out.
LEMMA NothingIsMeant ==
  ASSUME NEW l \in Languages, NEW f, GoodField(f), f.kind # "list"
  PROVE  Passes(l, f, Absent) <=> f.optional
<1>1. Absent \in Sent(f) /\ Absent \notin ValuesOf(f)
  BY ValueFacts DEF Sent
<1>2. CASE l = "Go"
  <2>1. Native(l, f, Absent) = Zero(f) /\ Readable(l, f, Absent)
    BY <1>1, <1>2, NativeFacts DEF Readable
  <2>2. Zero(f) # None /\ Zero(f).n = 0 /\ Zero(f).script = "ascii"
    BY ZeroFacts, ValueFacts
  <2>3. Within(l, f, Zero(f)) <=> f.min <= 0 /\ 0 <= f.max
    BY <2>2, UnitFacts DEF Within
  <2> QED
    BY <1>2, <2>1, <2>2, <2>3 DEF Passes, Valid, GoodField
<1>3. CASE l # "Go"
  <2>1. Native(l, f, Absent) = None
    BY <1>1, <1>3, NativeFacts
  <2>2. Readable(l, f, Absent) <=> f.optional
    BY <1>3, NothingFacts DEF Readable, GoodField
  <2> QED
    BY <2>1, <2>2 DEF Passes, Valid
<1> QED
  BY <1>2, <1>3

LEMMA SomethingIsMeant ==
  ASSUME NEW l \in Languages, NEW f, GoodField(f), NEW e \in ValuesOf(f), Unambiguous(f, e)
  PROVE  Passes(l, f, e) <=> Meant(f, e)
<1>1. Native(l, f, e) = e /\ Readable(l, f, e) /\ e # None /\ e # Absent
  BY NativeFacts, ValueFacts DEF Sent, Readable
<1>2. e.script \in {"ascii", "ip"} /\ e.n \in Int
  BY ValueFacts DEF Unambiguous
<1>3. e.n * Unit[l][e.script] = e.n
  BY <1>2, UnitFacts
<1>4. Within(l, f, e) <=> InBounds(f, e.n)
  BY <1>3 DEF Within, InBounds
<1>5. f.kind = "ip" => (IsAddress(l, f, e) <=> e.script = "ip")
  BY <1>2, <1>4, ValueFacts DEF IsAddress, InBounds, GoodField
<1>6. f.optional /\ e.n = 0 => f.kind = "text" /\ InBounds(f, e.n)
  <2>1. SUFFICES ASSUME f.optional, e.n = 0 PROVE f.kind = "text" /\ InBounds(f, e.n)
    OBVIOUS
  <2>2. ~(f.min > 0)
    <3>1. f.min > 0 => e.n > 0
      BY <2>1, ValueFacts, Zenon DEF Unambiguous
    <3> QED
      BY <2>1, <3>1
  <2>3. f.min \in Nat /\ f.max \in Nat /\ f.min <= f.max
    BY Zenon DEF GoodField
  <2>4. f.min = 0
    BY <2>2, <2>3
  <2>5. f.kind = "text"
    BY <2>1, <2>4, Zenon DEF GoodField
  <2> QED
    BY <2>1, <2>3, <2>4, <2>5 DEF InBounds
<1> QED
  BY <1>1, <1>4, <1>5, <1>6 DEF Passes, Valid, Meant, InBounds

LEMMA VerdictIsMeant ==
  ASSUME NEW l \in Languages, NEW f, GoodField(f), NEW e \in Sent(f), Unambiguous(f, e)
  PROVE  Passes(l, f, e) <=> Meant(f, e)
<1>1. CASE e \in ValuesOf(f)
  BY <1>1, SomethingIsMeant
<1>2. CASE e \notin ValuesOf(f)
  <2>1. e = Absent /\ f.kind # "list"
    BY <1>2 DEF Sent, Unambiguous
  <2> QED
    BY <1>2, <2>1, NothingIsMeant DEF Meant
<1> QED
  BY <1>1, <1>2
-----------------------------------------------------------------------------
(* What one service holds, in what it sends.                                *)

Empty(v) == ~Present(v) \/ (v.is # "list" /\ v.n = 0)

Survives(o, v) == v = o \/ (Empty(v) /\ Empty(o))

\* A service holds v in a field: what it makes of something it finds valid.
HoldsFine(l, f, v) == \E e \in Sent(f) : Passes(l, f, e) /\ v = Native(l, f, e)

SendsFine(l, f, e) == \E v \in Held(f) : HoldsFine(l, f, v) /\ e = Encoded(l, f, v)

LEMMA NativeSurvives ==
  ASSUME NEW l \in Languages, NEW f, GoodField(f), NEW e \in Sent(f)
  PROVE  Survives(e, Native(l, f, e))
<1>1. CASE e \in ValuesOf(f)
  BY <1>1, NativeFacts DEF Survives
<1>2. CASE e \notin ValuesOf(f)
  <2>1. Empty(e)
    BY <1>2, NothingFacts DEF Sent, Empty
  <2>2. Native(l, f, e) = None \/ (f.kind # "list" /\ Native(l, f, e) = Zero(f))
    BY <1>2, NativeFacts
  <2>3. Empty(None) /\ (f.kind # "list" => Empty(Zero(f)))
    BY NothingFacts, ZeroFacts DEF Empty
  <2> QED
    BY <2>1, <2>2, <2>3 DEF Survives
<1> QED
  BY <1>1, <1>2

LEMMA EncodedSurvives ==
  ASSUME NEW l \in Languages, NEW f, GoodField(f), NEW v \in Held(f)
  PROVE  Survives(v, Encoded(l, f, v))
<1>1. Empty(None) /\ Empty(Absent) /\ Empty(Null)
  BY NothingFacts DEF Empty
<1>2. CASE v = None
  <2>1. Encoded(l, f, v) \in {Absent, Null}
    BY <1>2, EncodedFacts
  <2> QED
    BY <1>1, <1>2, <2>1 DEF Survives
<1>3. CASE v # None /\ l = "Go" /\ f.optional /\ v.n = 0
  <2>1. Encoded(l, f, v) = Absent
    BY <1>3, EncodedFacts, Zenon
  <2>2. v \in ValuesOf(f) /\ v.n = 0
    BY <1>3 DEF Held
  <2>3. f.kind # "list"
    <3>1. f.kind \in {"text", "ip"}
      BY <1>3, Zenon DEF GoodField
    <3> QED
      BY <3>1
  <2>4. Empty(v)
    BY <2>2, <2>3, ValueFacts DEF Empty
  <2> QED
    BY <1>1, <2>1, <2>4 DEF Survives
<1>4. CASE v # None /\ ~(l = "Go" /\ f.optional /\ v.n = 0)
  BY <1>4, EncodedFacts, Zenon DEF Survives
<1> QED
  BY <1>2, <1>3, <1>4, Zenon

LEMMA SurvivesOn ==
  ASSUME NEW o, NEW v, NEW w, Survives(o, v), Survives(v, w)
  PROVE  Survives(o, w)
BY DEF Survives

\* What one service sends, another one reads as valid too, unless the field is
\* null or its text is counted in other units.
LEMMA ReceivedFine ==
  ASSUME NEW s \in Emitters, NEW l \in Languages, NEW f, GoodField(f), NEW e,
         SendsFine(s, f, e), e # Null,
         Present(e) => Unit[s][e.script] = Unit[l][e.script]
  PROVE  Passes(l, f, e)
<1>1. PICK v \in Held(f) : HoldsFine(s, f, v) /\ e = Encoded(s, f, v)
  BY DEF SendsFine
<1>2. PICK sent \in Sent(f) : Passes(s, f, sent) /\ v = Native(s, f, sent)
  BY <1>1 DEF HoldsFine
<1>3. s \in Languages /\ s # "Gleam"
  BY DEF Emitters, Languages
<1>4. Valid(s, f, v) /\ Readable(s, f, sent)
  BY <1>2 DEF Passes
<1>5. CASE v = None
  <2>1. e = Absent /\ s = "TypeScript"
    BY <1>1, <1>3, <1>5, EncodedFacts
  <2>2. sent \notin ValuesOf(f)
    BY <1>2, <1>3, <1>5, NativeFacts, ValueFacts
  <2>3. ~Present(sent)
    BY <2>2, NothingFacts DEF Sent
  <2>4. f.optional
    BY <1>4, <2>1, <2>3, Zenon DEF Readable
  <2>5. f.kind # "list"
    <3>1. f.kind \in {"text", "ip"}
      BY <2>4, Zenon DEF GoodField
    <3> QED
      BY <3>1
  <2> QED
    BY <2>1, <2>4, <2>5, NothingIsMeant, Zenon
<1>6. CASE v # None /\ s = "Go" /\ f.optional /\ v.n = 0
  <2>1. e = Absent
    BY <1>1, <1>3, <1>6, EncodedFacts, Zenon
  <2>2. f.kind # "list"
    <3>1. f.kind \in {"text", "ip"}
      BY <1>6, Zenon DEF GoodField
    <3> QED
      BY <3>1
  <2> QED
    BY <1>6, <2>1, <2>2, NothingIsMeant, Zenon
<1>7. CASE v # None /\ ~(s = "Go" /\ f.optional /\ v.n = 0)
  <2>1. e = v
    BY <1>1, <1>3, <1>7, EncodedFacts, Zenon
  <2>2. e \in ValuesOf(f)
    BY <1>7, <2>1 DEF Held
  <2>3. Present(e) /\ Native(l, f, e) = e /\ e # None
    BY <2>2, NativeFacts, ValueFacts DEF Sent
  <2>4. Unit[s][e.script] = Unit[l][e.script]
    BY <2>3
  <2>5. Within(s, f, e) <=> Within(l, f, e)
    BY <2>4, Zenon DEF Within
  <2>6. \/ f.kind = "text" /\ Within(l, f, e)
        \/ f.kind = "int" /\ f.min <= e.n /\ e.n <= f.max
        \/ f.kind = "ip" /\ e.script = "ip"
        \/ f.kind = "list" /\ e.items <= f.most /\ (e.items > 0 => Within(l, f, e))
    <3>1. IsAddress(s, f, e) => e.script = "ip"
      BY <1>3, Zenon DEF IsAddress
    <3> QED
      BY <1>4, <1>7, <2>1, <2>5, <3>1, Zenon DEF Valid
  <2>7. f.kind = "ip" /\ e.script = "ip" => IsAddress(l, f, e)
    <3>1. SUFFICES ASSUME f.kind = "ip", e.script = "ip" PROVE Within(l, f, e)
      BY Zenon DEF IsAddress
    <3>2. f.min <= 2 /\ f.max >= 45 /\ f.min \in Nat /\ f.max \in Nat
      BY <3>1, Zenon DEF GoodField
    <3>3. 2 <= e.n /\ e.n <= 45 /\ e.n \in Int
      BY <2>2, <3>1, ValueFacts, Zenon
    <3>4. e.n * Unit[l][e.script] = e.n
      BY <3>1, <3>3, UnitFacts
    <3> QED
      BY <3>2, <3>3, <3>4 DEF Within
  <2>8. Valid(l, f, e)
    BY <2>6, <2>7, Zenon DEF Valid
  <2> QED
    BY <2>3, <2>8, Zenon DEF Passes, Readable
<1> QED
  BY <1>5, <1>6, <1>7, Zenon
-----------------------------------------------------------------------------
(* The invariant.                                                           *)

Names(r) == DOMAIN FieldsOf("Rust", r)

FieldOf(r, x) == FieldsOf("Rust", r)[x]

WellFormed(m) ==
  /\ m.record \in Records
  /\ m.bare \in MaybeBare(m.record)
  /\ DOMAIN m.fields = Names(m.record)
  /\ \A x \in Names(m.record) : m.fields[x] \in Sent(FieldOf(m.record, x))

\* A service in l holds a valid record r.
HeldBy(l, r, fields) ==
  /\ DOMAIN fields = Names(r)
  /\ \A x \in Names(r) :
       fields[x] \in Held(FieldOf(r, x)) /\ HoldsFine(l, FieldOf(r, x), fields[x])

\* It has sent one.
SentBy(l, m) ==
  /\ m.unknown = FALSE
  /\ m.bare => l = "TypeScript" /\ m.record = "InternalCommand"
  /\ m.shape = Shape(l, m.record)
  /\ \A x \in Names(m.record) : SendsFine(l, FieldOf(m.record, x), m.fields[x])

AllSurvive(r, from, to) ==
  /\ DOMAIN to = Names(r)
  /\ \A x \in Names(r) : Survives(from[x], to[x])

Typed ==
  /\ stage \in {"wire", "held", "refused"}
  /\ sender \in {"client"} \cup Emitters
  /\ service \in {"client"} \cup Languages
  /\ stage # "wire" => service \in Languages

IInv ==
  /\ Typed
  /\ WellFormed(message)
  /\ sender # "client" => SentBy(sender, message)
  /\ AllSurvive(message.record, original, message.fields)
  /\ stage = "held" => /\ HeldBy(service, message.record, values)
                       /\ AllSurvive(message.record, original, values)
  /\ stage = "refused" => ~Accepts(service, message)

LEMMA NamesFacts ==
  ASSUME NEW l \in Languages, NEW r \in Records
  PROVE  /\ DOMAIN FieldsOf(l, r) = Names(r)
         /\ \A x \in Names(r) : FieldsOf(l, r)[x] = FieldOf(r, x) /\ GoodField(FieldOf(r, x))
BY SameDeclarations, FieldFacts, Zenon DEF Names, FieldOf

LEMMA VerdictOfFields ==
  ASSUME NEW l \in Languages, NEW m, WellFormed(m)
  PROVE  Accepts(l, m) <=>
           /\ m.unknown => l = "Gleam"
           /\ m.bare => l \in {"Go", "TypeScript"}
           /\ m.shape = Shape(l, m.record)
           /\ \A x \in Names(m.record) : Passes(l, FieldOf(m.record, x), m.fields[x])
<1>1. DOMAIN m.fields = Names(m.record) /\ m.record \in Records
  BY DEF WellFormed
<1>2. \A x \in Names(m.record) : FieldsOf(l, m.record)[x] = FieldOf(m.record, x)
  BY <1>1, NamesFacts
<1> QED
  BY <1>1, <1>2, Zenon DEF Accepts, Passes

LEMMA AcceptedIsHeld ==
  ASSUME NEW l \in Languages, NEW m, WellFormed(m), Accepts(l, m), NEW fields,
         fields = [x \in DOMAIN m.fields |-> Native(l, FieldsOf(l, m.record)[x], m.fields[x])]
  PROVE  HeldBy(l, m.record, fields) /\ AllSurvive(m.record, m.fields, fields)
<1>1. DOMAIN m.fields = Names(m.record) /\ m.record \in Records
  BY DEF WellFormed
<1>2. DOMAIN fields = Names(m.record)
  BY <1>1
<1>3. ASSUME NEW x \in Names(m.record)
      PROVE  /\ fields[x] \in Held(FieldOf(m.record, x))
             /\ HoldsFine(l, FieldOf(m.record, x), fields[x])
             /\ Survives(m.fields[x], fields[x])
  <2> DEFINE f == FieldOf(m.record, x)
  <2>1. GoodField(f) /\ FieldsOf(l, m.record)[x] = f
    BY <1>1, NamesFacts
  <2>2. fields[x] = Native(l, f, m.fields[x])
    BY <1>1, <2>1
  <2>3. m.fields[x] \in Sent(f)
    BY DEF WellFormed
  <2>4. Passes(l, f, m.fields[x])
    BY VerdictOfFields
  <2> HIDE DEF f
  <2>5. HoldsFine(l, f, fields[x]) /\ fields[x] \in Held(f) /\ Survives(m.fields[x], fields[x])
    <3>1. Native(l, f, m.fields[x]) \in Held(f)
      BY <2>1, <2>3, NativeFacts
    <3>2. Survives(m.fields[x], Native(l, f, m.fields[x]))
      BY <2>1, <2>3, NativeSurvives
    <3> QED
      BY <2>2, <2>3, <2>4, <3>1, <3>2, Zenon DEF HoldsFine
  <2> QED
    BY <2>5 DEF f
<1> QED
  BY <1>2, <1>3 DEF HeldBy, AllSurvive

LEMMA HeldIsSent ==
  ASSUME NEW l \in Languages, NEW r \in Records, NEW fields, HeldBy(l, r, fields),
         NEW bare \in MaybeBare(r), NEW m, m = EncodedMessage(l, r, bare, fields)
  PROVE  m.record = r /\ WellFormed(m) /\ SentBy(l, m) /\ AllSurvive(r, fields, m.fields)
<1>1. m.record = r /\ m.unknown = FALSE /\ m.shape = Shape(l, r)
      /\ m.bare = (bare /\ l = "TypeScript")
      /\ m.fields = [x \in DOMAIN fields |-> Encoded(l, FieldsOf(l, r)[x], fields[x])]
  BY DEF EncodedMessage, Message
<1>2. DOMAIN fields = Names(r) /\ DOMAIN m.fields = Names(r)
  BY <1>1 DEF HeldBy
<1>3. ASSUME NEW x \in Names(r)
      PROVE  /\ m.fields[x] \in Sent(FieldOf(r, x))
             /\ SendsFine(l, FieldOf(r, x), m.fields[x])
             /\ Survives(fields[x], m.fields[x])
  <2> DEFINE f == FieldOf(r, x)
  <2>1. GoodField(f) /\ FieldsOf(l, r)[x] = f
    BY NamesFacts
  <2>2. m.fields[x] = Encoded(l, f, fields[x])
    BY <1>1, <1>2, <2>1
  <2>3. fields[x] \in Held(f) /\ HoldsFine(l, f, fields[x])
    BY DEF HeldBy
  <2> HIDE DEF f
  <2>4. m.fields[x] \in Sent(f) /\ SendsFine(l, f, m.fields[x]) /\ Survives(fields[x], m.fields[x])
    <3>1. Encoded(l, f, fields[x]) \in Sent(f)
      BY <2>3, EncodedFacts
    <3>2. Survives(fields[x], Encoded(l, f, fields[x]))
      BY <2>1, <2>3, EncodedSurvives
    <3> QED
      BY <2>2, <2>3, <3>1, <3>2, Zenon DEF SendsFine
  <2> QED
    BY <2>4 DEF f
<1>4. m.bare \in MaybeBare(r) /\ (m.bare => l = "TypeScript" /\ r = "InternalCommand")
  BY <1>1 DEF MaybeBare
<1> QED
  BY <1>1, <1>2, <1>3, <1>4 DEF WellFormed, SentBy, AllSurvive

LEMMA BuiltIsHeld ==
  ASSUME NEW l \in Languages, NEW r \in Records, NEW fields \in ValidFields(l, r)
  PROVE  HeldBy(l, r, fields)
<1> DEFINE F == FieldsOf(l, r)
<1>1. DOMAIN F = Names(r)
      /\ \A x \in Names(r) : F[x] = FieldOf(r, x) /\ GoodField(FieldOf(r, x))
  BY NamesFacts
<1>2. PICK input \in Inputs(F) :
         /\ \A x \in DOMAIN F : Passes(l, F[x], input[x])
         /\ fields = [x \in DOMAIN F |-> Native(l, F[x], input[x])]
  BY DEF ValidFields
<1>3. \A x \in DOMAIN F : input[x] \in Sent(F[x])
  BY <1>2, InputsAssumption, Zenon DEF Sent
<1> HIDE DEF F
<1>4. DOMAIN fields = Names(r)
  BY <1>1, <1>2
<1>5. ASSUME NEW x \in Names(r)
      PROVE  fields[x] \in Held(FieldOf(r, x)) /\ HoldsFine(l, FieldOf(r, x), fields[x])
  <2> DEFINE f == FieldOf(r, x)
  <2>1. GoodField(f) /\ F[x] = f /\ x \in DOMAIN F
    BY <1>1
  <2>2. fields[x] = Native(l, f, input[x])
    BY <1>2, <2>1
  <2>3. input[x] \in Sent(f) /\ Passes(l, f, input[x])
    BY <1>2, <1>3, <2>1, Zenon
  <2> HIDE DEF f
  <2>4. HoldsFine(l, f, fields[x]) /\ fields[x] \in Held(f)
    <3>1. Native(l, f, input[x]) \in Held(f)
      BY <2>1, <2>3, NativeFacts
    <3> QED
      BY <2>2, <2>3, <3>1, Zenon DEF HoldsFine
  <2> QED
    BY <2>4 DEF f
<1> QED
  BY <1>4, <1>5 DEF HeldBy
-----------------------------------------------------------------------------
(* The steps.                                                               *)

LEMMA InitIInv == Init => IInv
<1> SUFFICES ASSUME Init PROVE IInv
  OBVIOUS
<1>1. stage = "wire" /\ service = sender
  BY DEF Init
<1>2. CASE sender = "client" /\ message \in ClientMessages /\ original = message.fields
  <2>1. PICK r \in Records : \E l \in Languages, u \in BOOLEAN, bare \in MaybeBare(r) :
           \E input \in Inputs(FieldsOf("Rust", r)) :
             message = Message(r, Shape(l, r), u, bare, input)
    BY <1>2 DEF ClientMessages
  <2>2. PICK input \in Inputs(FieldsOf("Rust", r)) :
           message.record = r /\ message.bare \in MaybeBare(r) /\ message.fields = input
    BY <2>1 DEF Message
  <2>3. "Rust" \in Languages
    BY DEF Languages
  <2>4. WellFormed(message)
    BY <2>2, <2>3, InputsAssumption, Zenon DEF WellFormed, Names, FieldOf, Sent
  <2>5. AllSurvive(message.record, original, message.fields)
    BY <1>2, <2>4 DEF AllSurvive, Survives, WellFormed
  <2> QED
    BY <1>1, <1>2, <2>4, <2>5 DEF IInv, Typed
<1>3. CASE /\ sender \in Emitters
           /\ \E r \in ServerRecords : \E bare \in MaybeBare(r), fields \in ValidFields(sender, r) :
                message = EncodedMessage(sender, r, bare, fields) /\ original = fields
  <2>1. PICK r \in ServerRecords : \E bare \in MaybeBare(r), fields \in ValidFields(sender, r) :
                message = EncodedMessage(sender, r, bare, fields) /\ original = fields
    BY <1>3
  <2>2. PICK bare \in MaybeBare(r), fields \in ValidFields(sender, r) :
           message = EncodedMessage(sender, r, bare, fields) /\ original = fields
    BY <2>1
  <2>3. r \in Records /\ sender \in Languages /\ sender # "client"
    BY <1>3 DEF Records, Emitters, Languages
  <2>4. HeldBy(sender, r, fields)
    BY <2>3, BuiltIsHeld
  <2>5. message.record = r /\ WellFormed(message) /\ SentBy(sender, message)
        /\ AllSurvive(r, fields, message.fields)
    BY <2>2, <2>3, <2>4, HeldIsSent
  <2> QED
    BY <1>1, <1>3, <2>2, <2>3, <2>5 DEF IInv, Typed
<1> QED
  BY <1>2, <1>3 DEF Init

LEMMA AllSurviveOn ==
  ASSUME NEW r, NEW o, NEW v, NEW w, AllSurvive(r, o, v), AllSurvive(r, v, w)
  PROVE  AllSurvive(r, o, w)
BY SurvivesOn DEF AllSurvive

LEMMA NextIInv == IInv /\ [Next]_vars => IInv'
<1> SUFFICES ASSUME IInv, [Next]_vars PROVE IInv'
  OBVIOUS
<1>1. CASE UNCHANGED vars
  BY <1>1 DEF vars, IInv, Typed, Accepts
<1>2. CASE Forward
  <2>1. /\ stage = "held" /\ service \in Emitters /\ stage' = "wire" /\ sender' = service
        /\ message' = EncodedMessage(service, message.record, message.bare, values)
        /\ UNCHANGED <<service, values, original>>
    BY <1>2 DEF Forward
  <2>2. service \in Languages /\ message.record \in Records
        /\ message.bare \in MaybeBare(message.record)
        /\ HeldBy(service, message.record, values)
        /\ AllSurvive(message.record, original, values)
    BY <2>1 DEF IInv, Typed, WellFormed
  <2>3. message'.record = message.record /\ WellFormed(message') /\ SentBy(service, message')
        /\ AllSurvive(message.record, values, message'.fields)
    BY <2>1, <2>2, HeldIsSent
  <2>4. AllSurvive(message.record, original, message'.fields)
    BY <2>2, <2>3, AllSurviveOn
  <2>5. Typed'
    BY <2>1, <2>2 DEF IInv, Typed
  <2> QED
    BY <2>1, <2>3, <2>4, <2>5 DEF IInv
<1>3. ASSUME NEW l \in Languages, Accept(l) PROVE IInv'
  <2>1. /\ stage = "wire" /\ Accepts(l, message) /\ stage' = "held" /\ service' = l
        /\ values' = [x \in DOMAIN message.fields |->
                        Native(l, FieldsOf(l, message.record)[x], message.fields[x])]
        /\ UNCHANGED <<message, sender, original>>
    BY <1>3 DEF Accept
  <2>2. WellFormed(message) /\ AllSurvive(message.record, original, message.fields)
    BY DEF IInv
  <2>3. HeldBy(l, message.record, values') /\ AllSurvive(message.record, message.fields, values')
    BY <2>1, <2>2, AcceptedIsHeld
  <2>4. AllSurvive(message.record, original, values')
    BY <2>2, <2>3, AllSurviveOn
  <2>5. Typed'
    BY <2>1 DEF IInv, Typed
  <2> QED
    BY <2>1, <2>3, <2>4, <2>5 DEF IInv
<1>4. ASSUME NEW l \in Languages, Refuse(l) PROVE IInv'
  <2>1. /\ stage = "wire" /\ ~Accepts(l, message) /\ stage' = "refused" /\ service' = l
        /\ UNCHANGED <<message, sender, values, original>>
    BY <1>4 DEF Refuse
  <2>2. Typed'
    BY <2>1 DEF IInv, Typed
  <2> QED
    BY <2>1, <2>2 DEF IInv
<1> QED
  BY <1>1, <1>2, <1>3, <1>4 DEF Next

LEMMA Inductive == Spec => []IInv
BY InitIInv, NextIInv, PTL DEF Spec
-----------------------------------------------------------------------------
(* The theorems.                                                            *)

LEMMA TypeLemma == IInv => TypeOK
<1> SUFFICES ASSUME IInv PROVE TypeOK
  OBVIOUS
<1>1. message.record \in Records /\ DOMAIN message.fields = Names(message.record)
  BY DEF IInv, WellFormed
<1>2. ASSUME NEW x \in DOMAIN message.fields
      PROVE  Present(message.fields[x]) \/ message.fields[x] \in {Absent, Null}
  <2>1. message.fields[x] \in Sent(FieldOf(message.record, x))
    BY <1>1, <1>2 DEF IInv, WellFormed
  <2>2. GoodField(FieldOf(message.record, x))
    BY <1>1, <1>2, NamesFacts DEF Languages
  <2> QED
    BY <2>1, <2>2, ValueFacts DEF Sent
<1>3. ASSUME stage = "held", NEW x \in DOMAIN values PROVE Present(values[x]) \/ values[x] = None
  <2>1. x \in Names(message.record)
    BY <1>3 DEF IInv, HeldBy
  <2>2. values[x] \in Held(FieldOf(message.record, x))
    BY <1>3, <2>1 DEF IInv, HeldBy
  <2>3. GoodField(FieldOf(message.record, x))
    BY <1>1, <2>1, NamesFacts DEF Languages
  <2> QED
    BY <2>2, <2>3, ValueFacts DEF Held
<1> QED
  BY <1>1, <1>2, <1>3 DEF TypeOK, IInv, Typed

\* On the wire a field is present, absent or null, in a service present or none.
THEOREM TypeCorrect == Spec => []TypeOK
BY TypeLemma, Inductive, PTL

LEMMA VerdictLemma == IInv => VerdictsAgree
<1> SUFFICES ASSUME IInv, ~message.unknown, ~message.bare,
                    \A x \in DOMAIN message.fields :
                      Unambiguous(FieldsOf("Rust", message.record)[x], message.fields[x]),
                    NEW l1 \in Languages, NEW l2 \in Languages,
                    Shape(l1, message.record) = Shape(l2, message.record)
             PROVE  Accepts(l1, message) <=> Accepts(l2, message)
  BY Zenon DEF VerdictsAgree
<1>1. WellFormed(message) /\ message.record \in Records
      /\ DOMAIN message.fields = Names(message.record)
  BY DEF IInv, WellFormed
<1>2. ASSUME NEW x \in Names(message.record), NEW l \in Languages
      PROVE  Passes(l, FieldOf(message.record, x), message.fields[x])
               <=> Meant(FieldOf(message.record, x), message.fields[x])
  <2> DEFINE f == FieldOf(message.record, x)
  <2>1. Unambiguous(f, message.fields[x])
    BY <1>1, <1>2, Zenon DEF FieldOf
  <2>2. message.fields[x] \in Sent(f) /\ GoodField(f)
    BY <1>1, <1>2, NamesFacts DEF WellFormed
  <2> HIDE DEF f
  <2>3. Passes(l, f, message.fields[x]) <=> Meant(f, message.fields[x])
    BY <2>1, <2>2, VerdictIsMeant
  <2> QED
    BY <2>3 DEF f
<1>3. \A l \in Languages :
        Accepts(l, message) <=>
          /\ message.shape = Shape(l, message.record)
          /\ \A x \in Names(message.record) : Meant(FieldOf(message.record, x), message.fields[x])
  BY <1>1, <1>2, VerdictOfFields, Zenon
<1> QED
  BY <1>3, Zenon

\* The declarations of the four languages say the same: where their libraries do
\* not differ, a message is valid for each or for none of those with one shape.
THEOREM LanguagesAgree == Spec => []VerdictsAgree
BY VerdictLemma, Inductive, PTL

LEMMA RefusalLemma == IInv => RefusalIsExplained
<1> SUFFICES ASSUME IInv, stage = "refused", sender # "client",
                    Shape(sender, message.record) = Shape(service, message.record)
             PROVE  LET refused == {x \in DOMAIN message.fields :
                          ~Passes(service, FieldsOf(service, message.record)[x], message.fields[x])}
                    IN  /\ refused # {}
                        /\ \A x \in refused :
                             LET v == message.fields[x]
                             IN v = Null
                                \/ (Present(v) /\ Unit[sender][v.script] # Unit[service][v.script])
  BY Zenon DEF RefusalIsExplained
<1>1. /\ WellFormed(message) /\ message.record \in Records
      /\ DOMAIN message.fields = Names(message.record)
      /\ sender \in Emitters /\ service \in Languages
      /\ SentBy(sender, message) /\ ~Accepts(service, message)
  BY DEF IInv, WellFormed, Typed
<1>2. ASSUME NEW x \in Names(message.record), message.fields[x] # Null,
             Present(message.fields[x]) =>
               Unit[sender][message.fields[x].script] = Unit[service][message.fields[x].script]
      PROVE  Passes(service, FieldOf(message.record, x), message.fields[x])
  <2>1. GoodField(FieldOf(message.record, x))
    BY <1>1, NamesFacts
  <2>2. SendsFine(sender, FieldOf(message.record, x), message.fields[x])
    BY <1>1 DEF SentBy
  <2> QED
    BY <1>1, <1>2, <2>1, <2>2, ReceivedFine
<1>3. message.unknown = FALSE /\ message.shape = Shape(service, message.record)
  BY <1>1 DEF SentBy
<1>4. message.bare => service \in {"Go", "TypeScript"}
  BY <1>1 DEF SentBy, Shape, ServerRecords, Languages
<1>5. \E x \in Names(message.record) :
        ~Passes(service, FieldOf(message.record, x), message.fields[x])
  BY <1>1, <1>3, <1>4, VerdictOfFields, Zenon
<1>6. \A x \in Names(message.record) : FieldsOf(service, message.record)[x] = FieldOf(message.record, x)
  BY <1>1, NamesFacts
<1> QED
  BY <1>1, <1>2, <1>5, <1>6, Zenon

\* What one service sends on, another refuses only for the shape of the record,
\* or each field it refuses for a null or a text that the two count in other units.
THEOREM RefusalsAreExplained == Spec => []RefusalIsExplained
BY RefusalLemma, Inductive, PTL

LEMMA SurvivalLemma == IInv => TextSurvives
BY DEF IInv, TextSurvives, AllSurvive, Survives, Empty

\* On any way through any number of services nothing is lost but the difference
\* between none and an empty text.
THEOREM NothingIsLost == Spec => []TextSurvives
BY SurvivalLemma, Inductive, PTL
=============================================================================
