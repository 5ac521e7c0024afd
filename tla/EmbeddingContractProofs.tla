----------------------- MODULE EmbeddingContractProofs -----------------------
(***************************************************************************)
(* The invariants of EmbeddingContract, for outputs of every length: TLC   *)
(* checks the lengths around each limit.                                   *)
(***************************************************************************)
EXTENDS EmbeddingContract, TLAPS

\* What each result says of the output, and what is padded.
Reasons ==
  /\ padded # None => /\ padded = Resize(Vector)
                      /\ Supported
                      /\ Strongest(Vector) \in Faint .. Huge
  /\ result = "unsupported" => ModelDimensions(output.provider, output.model) = None
  /\ result = "invalid dimensions" =>
       /\ ModelDimensions(output.provider, output.model) # None
       /\ ~ValidDimensions(output.provider, output.model, Vector.dimensions)
  /\ result \in {"non-finite", "zero"} => Strongest(Vector) \in {Zero, Below, NotFinite}
  /\ result \in {"stored", "refused", "stored in cockroachdb", "refused by cockroachdb"}
       => padded # None
  /\ result = "stored" => Registered(output)
  /\ result = "refused" => ~(Registered(output) /\ Storable(padded) /\ Projectable(padded))
  /\ result = "stored in cockroachdb" => CockroachRegistered(output)
  /\ result = "refused by cockroachdb" =>
       ~(CockroachRegistered(output) /\ CockroachStorable(padded))

IInv == TypeOK /\ Reasons
-----------------------------------------------------------------------------
(* The registries.                                                          *)

\* Each profile of the databases is the one of the Rust registry.
LEMMA ProfilesAgree ==
  ASSUME NEW r \in EmbeddingModelProfiles
  PROVE  /\ ModelDimensions(r.provider, r.model) = Lengths(r.minimum, r.maximum)
         /\ r.minimum \in Nat /\ r.maximum \in Nat
         /\ r.minimum >= 1 /\ r.maximum <= MaximumSourceDimensions
BY DEF EmbeddingModelProfiles, Profile, ModelDimensions, Lengths, MaximumSourceDimensions

\* The two databases have the same registry.
LEMMA SameProfiles == CockroachModelProfiles = EmbeddingModelProfiles
BY DEF CockroachModelProfiles, EmbeddingModelProfiles

\* The Rust registry knows no model that the databases do not, but those of
\* provider custom.
LEMMA RustProfiles ==
  ASSUME NEW p, NEW m, ModelDimensions(p, m) # None, p # "custom"
  PROVE  \E r \in EmbeddingModelProfiles : r.provider = p /\ r.model = m
<1>1. \/ p = "openai" /\ m \in {"ada-002", "3-small", "3-large"}
      \/ p = "google" /\ m = "gemini-001"
      \/ p = "qwen" /\ m = "qwen3-8b"
      \/ p = "nvidia" /\ m = "nv-embed-v2"
      \/ p = "baai" /\ m = "bge-en-icl"
      \/ p = "voyage" /\ m \in {"voyage-4-large", "voyage-4", "voyage-4-lite"}
  BY DEF ModelDimensions
<1> QED
  BY <1>1 DEF EmbeddingModelProfiles, Profile

LEMMA CustomDimensions ==
  ASSUME NEW m
  PROVE  ModelDimensions("custom", m) = Lengths(1, MaximumSourceDimensions)
BY DEF ModelDimensions, MaximumSourceDimensions

\* A supported length is one of the profile, at least 1 and at most 4,096.
LEMMA SupportedLength ==
  ASSUME IInv, Supported
  PROVE  /\ Vector.dimensions \in 1 .. MaximumSourceDimensions
         /\ \A r \in EmbeddingModelProfiles :
              r.provider = output.provider /\ r.model = output.model =>
                Vector.dimensions \in r.minimum .. r.maximum
         /\ output.provider = "voyage" => Vector.dimensions \in {256, 512, 1024, 2048}
<1> DEFINE d == Vector.dimensions
<1> DEFINE expected == ModelDimensions(output.provider, output.model)
<1>1. d \in Nat
  BY DimensionsAssumption DEF IInv, TypeOK, Outputs, Vectors, Vector
<1>2. expected # None /\ d >= expected.minimum /\ d <= expected.maximum
      /\ ~DiscreteVoyage(output.provider, d)
  BY DEF Supported, ValidDimensions
<1>3. expected.minimum \in Nat /\ expected.maximum \in Nat
      /\ expected.minimum >= 1 /\ expected.maximum <= MaximumSourceDimensions
  <2>1. CASE output.provider = "custom"
    <3>1. expected = Lengths(1, MaximumSourceDimensions)
      BY <2>1, CustomDimensions
    <3> QED
      BY <3>1 DEF Lengths, MaximumSourceDimensions
  <2>2. CASE output.provider # "custom"
    <3>1. PICK r \in EmbeddingModelProfiles :
            r.provider = output.provider /\ r.model = output.model
      BY <1>2, <2>2, RustProfiles
    <3>2. expected = Lengths(r.minimum, r.maximum)
          /\ r.minimum \in Nat /\ r.maximum \in Nat
          /\ r.minimum >= 1 /\ r.maximum <= MaximumSourceDimensions
      BY <3>1, ProfilesAgree
    <3> QED
      BY <3>2 DEF Lengths
  <2> QED
    BY <2>1, <2>2
<1>4. d \in 1 .. MaximumSourceDimensions
  <2> HIDE DEF d, expected
  <2> QED
    BY <1>1, <1>2, <1>3 DEF MaximumSourceDimensions
<1>5. \A r \in EmbeddingModelProfiles :
        r.provider = output.provider /\ r.model = output.model =>
          d \in r.minimum .. r.maximum
  <2> SUFFICES ASSUME NEW r \in EmbeddingModelProfiles,
                      r.provider = output.provider, r.model = output.model
               PROVE  d \in r.minimum .. r.maximum
    OBVIOUS
  <2>1. expected = Lengths(r.minimum, r.maximum)
        /\ r.minimum \in Nat /\ r.maximum \in Nat
    BY ProfilesAgree
  <2> QED
    BY <1>1, <1>2, <2>1 DEF Lengths
<1>6. output.provider = "voyage" => d \in {256, 512, 1024, 2048}
  BY <1>2 DEF DiscreteVoyage
<1> QED
  BY <1>4, <1>5, <1>6

\* The magnitudes of an output, and the strongest of them.
LEMMA VectorFacts ==
  ASSUME IInv
  PROVE  /\ Vector.dimensions \in Nat
         /\ Vector.head \in Magnitudes /\ Vector.tail \in Magnitudes
         /\ Strongest(Vector) \in Magnitudes
         /\ Strongest(Vector) >= Vector.head
<1>1. Vector.dimensions \in Nat /\ Vector.head \in Magnitudes /\ Vector.tail \in Magnitudes
  BY DimensionsAssumption DEF IInv, TypeOK, Outputs, Vectors, Vector
<1> QED
  BY <1>1 DEF Strongest, Magnitudes, Zero, NotFinite
-----------------------------------------------------------------------------
(* The steps.                                                               *)

LEMMA InitIInv == Init => IInv
BY NoneAssumption DEF Init, IInv, TypeOK, Reasons, Results

LEMMA RejectStep ==
  ASSUME IInv, UnsupportedProviderModel \/ InvalidDimensions \/ NonFiniteValue \/ ZeroVector
  PROVE  IInv'
<1>1. /\ padded = None /\ padded' = padded /\ output' = output
  BY DEF UnsupportedProviderModel, InvalidDimensions, NonFiniteValue, ZeroVector, Reject
<1>2. CASE UnsupportedProviderModel
  BY <1>1, <1>2, NoneAssumption
  DEF UnsupportedProviderModel, Reject, IInv, TypeOK, Reasons, Results
<1>3. CASE InvalidDimensions
  BY <1>1, <1>3, NoneAssumption
  DEF InvalidDimensions, Supported, Reject, IInv, TypeOK, Reasons, Results, Vector
<1>4. CASE NonFiniteValue
  BY <1>1, <1>4, NoneAssumption
  DEF NonFiniteValue, Reject, IInv, TypeOK, Reasons, Results, Vector, Strongest
<1>5. CASE ZeroVector
  BY <1>1, <1>5, NoneAssumption
  DEF ZeroVector, Reject, IInv, TypeOK, Reasons, Results, Vector, Strongest
<1> QED
  BY <1>2, <1>3, <1>4, <1>5

LEMMA PadStep ==
  ASSUME IInv, Pad
  PROVE  IInv'
<1>1. /\ result = None /\ result' = result /\ output' = output
      /\ padded' = Resize(Vector)
      /\ Supported /\ Strongest(Vector) \in Faint .. Huge
  BY DEF Pad
<1>2. padded' \in Paddings
  BY <1>1, SupportedLength, VectorFacts DEF Resize, Paddings
<1>3. TypeOK'
  BY <1>1, <1>2 DEF IInv, TypeOK
<1>4. Reasons'
  <2>1. Supported' /\ Vector' = Vector /\ Resize(Vector)' = Resize(Vector)
        /\ Strongest(Vector)' = Strongest(Vector)
    BY <1>1 DEF Supported, Vector, Resize, Strongest, ModelDimensions, ValidDimensions
  <2> QED
    BY <1>1, <2>1, NoneAssumption DEF Reasons, Results
<1> QED
  BY <1>3, <1>4 DEF IInv

LEMMA StoreStep ==
  ASSUME IInv, Store \/ StoreFails \/ StoreInCockroach \/ StoreInCockroachFails
  PROVE  IInv'
<1>1. /\ padded # None /\ padded' = padded /\ output' = output
      /\ result' \in Results
      /\ result' = "stored" => Registered(output)
      /\ result' = "refused" => ~(Registered(output) /\ Storable(padded) /\ Projectable(padded))
      /\ result' = "stored in cockroachdb" => CockroachRegistered(output)
      /\ result' = "refused by cockroachdb" =>
           ~(CockroachRegistered(output) /\ CockroachStorable(padded))
      /\ result' \in {"stored", "refused", "stored in cockroachdb", "refused by cockroachdb"}
  BY DEF Store, StoreFails, StoreInCockroach, StoreInCockroachFails, Results
<1>2. TypeOK'
  BY <1>1 DEF IInv, TypeOK
<1>3. Reasons'
  <2>1. /\ padded' = Resize(Vector)' /\ Supported'
        /\ (Strongest(Vector) \in Faint .. Huge)'
    BY <1>1 DEF IInv, Reasons, Resize, Vector, Supported, Strongest
  <2> QED
    BY <1>1, <2>1 DEF Reasons, Registered, CockroachRegistered, Storable, Projectable,
                      CockroachStorable
<1> QED
  BY <1>2, <1>3 DEF IInv

LEMMA NextIInv == IInv /\ [Next]_vars => IInv'
<1> SUFFICES ASSUME IInv, [Next]_vars PROVE IInv'
  OBVIOUS
<1>1. CASE UNCHANGED vars
  BY <1>1 DEF vars, IInv, TypeOK, Reasons, Vector, Supported, Strongest, Resize, Registered,
              Storable, Projectable, CockroachRegistered, CockroachStorable
<1> QED
  BY <1>1, RejectStep, PadStep, StoreStep DEF Next

LEMMA Inductive == Spec => []IInv
BY InitIInv, NextIInv, PTL DEF Spec
-----------------------------------------------------------------------------
(* The theorems.                                                            *)

\* What is padded fits the exact table of both databases.
LEMMA PaddedFits ==
  ASSUME IInv, padded # None
  PROVE  Storable(padded) /\ CockroachStorable(padded)
<1>1. padded = Resize(Vector) /\ Strongest(Vector) \in Faint .. Huge
      /\ Vector.dimensions \in 1 .. MaximumSourceDimensions
  <2>1. Supported /\ padded = Resize(Vector) /\ Strongest(Vector) \in Faint .. Huge
    BY DEF IInv, Reasons
  <2> QED
    BY <2>1, SupportedLength
<1>2. Strongest(padded) = Strongest(Vector)
  BY <1>1 DEF Resize, Strongest
<1> QED
  BY <1>1, <1>2 DEF Storable, CockroachStorable, Resize, Below, Faint, Huge, NotFinite

\* Every variable keeps its type: what is padded has 4,100 slots.
THEOREM TypeCorrect == Spec => []TypeOK
<1>1. IInv => TypeOK
  BY DEF IInv
<1> QED
  BY <1>1, Inductive, PTL

LEMMA StoredLength ==
  ASSUME IInv, Supported, Registered(output)
  PROVE  WithinProfile(EmbeddingModelProfiles)
<1>1. PICK r \in EmbeddingModelProfiles :
        r.provider = output.provider /\ r.model = output.model
  BY DEF Registered
<1>2. Vector.dimensions \in r.minimum .. r.maximum
  BY <1>1, SupportedLength
<1>3. output.provider = "voyage" => Vector.dimensions \in {256, 512, 1024, 2048}
  BY SupportedLength
<1> QED
  BY <1>1, <1>2, <1>3 DEF WithinProfile

LEMMA WithinLemma == IInv => StoredWithinProfile
<1>1. ASSUME IInv, result \in {"stored", "stored in cockroachdb"}
      PROVE  Supported /\ Registered(output)
  BY <1>1, SameProfiles DEF IInv, Reasons, Registered, CockroachRegistered
<1>2. ASSUME IInv, result \in {"stored", "stored in cockroachdb"}
      PROVE  WithinProfile(EmbeddingModelProfiles)
  BY <1>1, <1>2, StoredLength
<1>3. WithinProfile(CockroachModelProfiles) <=> WithinProfile(EmbeddingModelProfiles)
  BY SameProfiles
<1> QED
  BY <1>2, <1>3 DEF StoredWithinProfile

\* The databases hold no length that the profile of its model does not allow.
THEOREM LengthsAreProfiled == Spec => []StoredWithinProfile
BY WithinLemma, Inductive, PTL

LEMMA JustifiedLemma == IInv => RejectionsAreJustified
<1> SUFFICES ASSUME IInv PROVE RejectionsAreJustified
  OBVIOUS
<1>1. ASSUME result \in {"unsupported", "invalid dimensions"}
      PROVE  \/ DiscreteVoyage(output.provider, Vector.dimensions)
             \/ \A r \in EmbeddingModelProfiles :
                  r.provider = output.provider /\ r.model = output.model =>
                    Vector.dimensions \notin r.minimum .. r.maximum
  <2> SUFFICES ASSUME ~DiscreteVoyage(output.provider, Vector.dimensions),
                      NEW r \in EmbeddingModelProfiles,
                      r.provider = output.provider, r.model = output.model
               PROVE  Vector.dimensions \notin r.minimum .. r.maximum
    OBVIOUS
  <2>1. /\ ModelDimensions(output.provider, output.model) = Lengths(r.minimum, r.maximum)
        /\ r.minimum \in Nat /\ r.maximum \in Nat
    BY ProfilesAgree
  <2>2. Lengths(r.minimum, r.maximum) # None
    BY <2>1, NoneAssumption DEF Lengths
  <2>3. ~ValidDimensions(output.provider, output.model, Vector.dimensions)
    BY <1>1, <2>1, <2>2 DEF IInv, Reasons
  <2> QED
    BY <2>1, <2>3, VectorFacts DEF ValidDimensions, Lengths
<1>2. ASSUME result \in {"non-finite", "zero"}
      PROVE  ~(Storable(Resize(Vector)) /\ Projectable(Resize(Vector)))
  <2>1. Strongest(Vector) \in {Zero, Below, NotFinite}
    BY <1>2 DEF IInv, Reasons
  <2>2. Strongest(Resize(Vector)) = Strongest(Vector) /\ Resize(Vector).head = Vector.head
    BY DEF Resize, Strongest
  <2> QED
    BY <2>1, <2>2, VectorFacts
    DEF Storable, Projectable, Magnitudes, Zero, Below, Normal, Huge, NotFinite
<1> QED
  BY <1>1, <1>2 DEF RejectionsAreJustified

\* No output is refused that the databases and its profile would take.
THEOREM NoFalseRejection == Spec => []RejectionsAreJustified
BY JustifiedLemma, Inductive, PTL

LEMMA RefusedLemma == IInv => RefusedForProjection
<1> SUFFICES ASSUME IInv PROVE RefusedForProjection
  OBVIOUS
<1>1. result \in {"refused", "refused by cockroachdb"} =>
        Storable(padded) /\ CockroachStorable(padded)
  BY PaddedFits DEF IInv, Reasons
<1> QED
  BY <1>1 DEF IInv, Reasons, RefusedForProjection

\* A registered model's accepted output is refused for its projection alone.
THEOREM OnlyProjectionRefuses == Spec => []RefusedForProjection
BY RefusedLemma, Inductive, PTL
=============================================================================
