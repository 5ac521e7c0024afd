------------------------- MODULE EmbeddingContract -------------------------
(***************************************************************************)
(* What becomes of one output of an embedding model: the checks and the    *)
(* padding of PaddedEmbedding::from_model_output                           *)
(* (src/embedding_contract.rs), then the insert of its row, which meets    *)
(* the constraints of semantic_embeddings, and the insert of its           *)
(* projection by the trigger, which meets those of the index               *)
(* (embedding-contract/sql/postgres/desired.sql); or the insert of its row *)
(* in CockroachDB, which has a table of its own and no projection          *)
(* (sql/cockroachdb/desired.sql).  Each of the three has a registry of     *)
(* models.                                                                 *)
(*                                                                         *)
(* The lengths are the real ones.  Of the values of a vector only two      *)
(* magnitudes are kept, that of its first 4,000 values and that of the     *)
(* rest: the strongest value, in classes that the code tells apart.  A     *)
(* padded vector has a third one, that of the slots behind its own values. *)
(***************************************************************************)
EXTENDS Naturals

CONSTANTS
  Dimensions,  \* the lengths a model's output may have
  None         \* no value yet

ASSUME DimensionsAssumption == Dimensions \subseteq Nat

StorageDimensions == 4100
IndexDimensions == 4000
MaximumSourceDimensions == 4096

\* Zero: only zeros.  Below: the squared norm is not above f64::EPSILON.
\* Faint: above it, yet every value rounds to zero at half precision.
\* Normal: none of the others.  Huge: finite, outside the range of half
\* precision.  NotFinite: a NaN or an infinity.
Zero == 0
Below == 1
Faint == 2
Normal == 3
Huge == 4
NotFinite == 5
Magnitudes == Zero .. NotFinite

Providers == {"openai", "google", "voyage", "qwen", "nvidia", "baai", "custom"}
Models == {"ada-002", "3-small", "3-large", "gemini-001", "qwen3-8b", "nv-embed-v2",
           "bge-en-icl", "voyage-4-large", "voyage-4", "voyage-4-lite", "another"}

Strongest(v) == IF v.head > v.tail THEN v.head ELSE v.tail

\* An output of up to 4,000 values has no others.
Vectors == {v \in [dimensions : Dimensions, head : Magnitudes, tail : Magnitudes] :
              /\ v.dimensions = 0 => v.head = Zero
              /\ v.dimensions <= IndexDimensions => v.tail = Zero}

Outputs == [provider : Providers, model : Models, vector : Vectors]

Paddings ==
  [dimensions : 1 .. MaximumSourceDimensions, length : {StorageDimensions},
   head : Magnitudes, tail : Magnitudes, padding : {Zero}]

Results == {"unsupported", "invalid dimensions", "non-finite", "zero", "stored", "refused",
            "stored in cockroachdb", "refused by cockroachdb"}

ASSUME NoneAssumption ==
  None \notin Paddings \cup [minimum : Nat, maximum : Nat] \cup Results

VARIABLES
  output,  \* what the model gave, and the names the caller gives it
  padded,  \* the PaddedEmbedding
  result   \* None while it is under way, then what became of it

vars == <<output, padded, result>>

-----------------------------------------------------------------------------
(* The registry of the Rust side.                                          *)

Lengths(min, max) == [minimum |-> min, maximum |-> max]

\* (Faulty: a known provider's model need not be one the registry knows.)
ModelDimensionsOfProvider(p, m) == Lengths(1, MaximumSourceDimensions)

ModelDimensions(p, m) ==
  CASE p = "openai" /\ m = "ada-002" -> Lengths(1536, 1536)
    [] p = "openai" /\ m = "3-small" -> Lengths(1, 1536)
    [] p = "openai" /\ m = "3-large" -> Lengths(1, 3072)
    [] p = "google" /\ m = "gemini-001" -> Lengths(128, 3072)
    [] p = "qwen" /\ m = "qwen3-8b" -> Lengths(32, 4096)
    [] \/ p = "nvidia" /\ m = "nv-embed-v2"
       \/ p = "baai" /\ m = "bge-en-icl" -> Lengths(4096, 4096)
    [] p = "voyage" /\ m \in {"voyage-4-large", "voyage-4", "voyage-4-lite"} ->
         Lengths(256, 2048)
    [] p = "custom" -> Lengths(1, 4096)
    [] OTHER -> None

\* Voyage models give four lengths only.
DiscreteVoyage(p, d) == p = "voyage" /\ d \notin {256, 512, 1024, 2048}

\* (Faulty: the longest length is refused.)
ValidDimensionsBelowMaximum(p, m, d) ==
  LET expected == ModelDimensions(p, m) IN
    /\ d >= expected.minimum
    /\ d < expected.maximum
    /\ ~DiscreteVoyage(p, d)

\* validate_model_dimensions
ValidDimensions(p, m, d) ==
  LET expected == ModelDimensions(p, m) IN
    /\ d >= expected.minimum
    /\ d <= expected.maximum
    /\ ~DiscreteVoyage(p, d)

-----------------------------------------------------------------------------
(* The registries and the constraints of the databases.                    *)

Profile(p, m, min, max) == [provider |-> p, model |-> m, minimum |-> min, maximum |-> max]

EmbeddingModelProfiles ==
  {Profile("openai", "ada-002", 1536, 1536),
   Profile("openai", "3-small", 1, 1536),
   Profile("openai", "3-large", 1, 3072),
   Profile("google", "gemini-001", 128, 3072),
   Profile("qwen", "qwen3-8b", 32, 4096),
   Profile("nvidia", "nv-embed-v2", 4096, 4096),
   Profile("baai", "bge-en-icl", 4096, 4096),
   Profile("voyage", "voyage-4-large", 256, 2048),
   Profile("voyage", "voyage-4", 256, 2048),
   Profile("voyage", "voyage-4-lite", 256, 2048)}

\* FOREIGN KEY (embedding_provider, model)
Registered(o) ==
  \E r \in EmbeddingModelProfiles : r.provider = o.provider /\ r.model = o.model

\* The constraints of semantic_embeddings on a row with these 4,100 slots; the
\* vector type admits no value that is not finite.
Storable(slots) ==
  /\ slots.dimensions \in 1 .. MaximumSourceDimensions
  /\ slots.length = StorageDimensions
  /\ slots.padding \in {Zero, Below}   \* vector_norm(subvector(...)) <= 0.000001
  /\ Strongest(slots) \in Below .. Huge

\* The trigger's cast to halfvec, and CHECK (l2_norm(indexed_embedding) > 0).
Projectable(slots) == slots.head = Normal

CockroachModelProfiles ==
  {Profile("openai", "ada-002", 1536, 1536),
   Profile("openai", "3-small", 1, 1536),
   Profile("openai", "3-large", 1, 3072),
   Profile("google", "gemini-001", 128, 3072),
   Profile("qwen", "qwen3-8b", 32, 4096),
   Profile("nvidia", "nv-embed-v2", 4096, 4096),
   Profile("baai", "bge-en-icl", 4096, 4096),
   Profile("voyage", "voyage-4-large", 256, 2048),
   Profile("voyage", "voyage-4", 256, 2048),
   Profile("voyage", "voyage-4-lite", 256, 2048)}

CockroachRegistered(o) ==
  \E r \in CockroachModelProfiles : r.provider = o.provider /\ r.model = o.model

\* embedding_tail_is_zero_4100; a vector without signal is not refused.
CockroachStorable(slots) ==
  /\ slots.dimensions \in 1 .. MaximumSourceDimensions
  /\ slots.length = StorageDimensions
  /\ slots.padding \in {Zero, Below}
  /\ Strongest(slots) # NotFinite

-----------------------------------------------------------------------------
Init ==
  /\ output \in Outputs
  /\ padded = None
  /\ result = None

Reject(error) ==
  /\ padded = None
  /\ result = None
  /\ result' = error
  /\ UNCHANGED <<output, padded>>

Vector == output.vector

UnsupportedProviderModel ==
  /\ ModelDimensions(output.provider, output.model) = None
  /\ Reject("unsupported")

Supported ==
  /\ ModelDimensions(output.provider, output.model) # None
  /\ ValidDimensions(output.provider, output.model, Vector.dimensions)

InvalidDimensions ==
  /\ ModelDimensions(output.provider, output.model) # None
  /\ ~Supported
  /\ Reject("invalid dimensions")

NonFiniteValue ==
  /\ Supported
  /\ Strongest(Vector) = NotFinite
  /\ Reject("non-finite")

ZeroVector ==
  /\ Supported
  /\ Strongest(Vector) \in {Zero, Below}
  /\ Reject("zero")

\* values.resize(EMBEDDING_STORAGE_DIMENSIONS, 0.0)
\* (Faulty: the vector is padded to the longest source length only.)
ResizeToSource(v) ==
  [dimensions |-> v.dimensions, length |-> MaximumSourceDimensions,
   head |-> v.head, tail |-> v.tail, padding |-> Zero]
Resize(v) ==
  [dimensions |-> v.dimensions, length |-> StorageDimensions,
   head |-> v.head, tail |-> v.tail, padding |-> Zero]

\* (Faulty: the values are not looked at.)
PadUnchecked ==
  /\ padded = None /\ result = None
  /\ Supported
  /\ padded' = Resize(Vector)
  /\ UNCHANGED <<output, result>>

Pad ==
  /\ padded = None /\ result = None
  /\ Supported
  /\ Strongest(Vector) \in Faint .. Huge
  /\ padded' = Resize(Vector)
  /\ UNCHANGED <<output, result>>

Store ==
  /\ padded # None /\ result = None
  /\ Registered(output) /\ Storable(padded) /\ Projectable(padded)
  /\ result' = "stored"
  /\ UNCHANGED <<output, padded>>

\* The database refuses the row, or the trigger's, and with it both.
StoreFails ==
  /\ padded # None /\ result = None
  /\ ~(Registered(output) /\ Storable(padded) /\ Projectable(padded))
  /\ result' = "refused"
  /\ UNCHANGED <<output, padded>>

StoreInCockroach ==
  /\ padded # None /\ result = None
  /\ CockroachRegistered(output) /\ CockroachStorable(padded)
  /\ result' = "stored in cockroachdb"
  /\ UNCHANGED <<output, padded>>

StoreInCockroachFails ==
  /\ padded # None /\ result = None
  /\ ~(CockroachRegistered(output) /\ CockroachStorable(padded))
  /\ result' = "refused by cockroachdb"
  /\ UNCHANGED <<output, padded>>

Next ==
  \/ UnsupportedProviderModel
  \/ InvalidDimensions
  \/ NonFiniteValue
  \/ ZeroVector
  \/ Pad
  \/ Store
  \/ StoreFails
  \/ StoreInCockroach
  \/ StoreInCockroachFails

Spec == Init /\ [][Next]_vars

-----------------------------------------------------------------------------
(* Properties                                                              *)

TypeOK ==
  /\ output \in Outputs
  /\ padded \in Paddings \cup {None}
  /\ result \in Results \cup {None}

\* The length is one that the profile of the model allows.
WithinProfile(registry) ==
  /\ \E r \in registry :
       /\ r.provider = output.provider /\ r.model = output.model
       /\ Vector.dimensions \in r.minimum .. r.maximum
  /\ output.provider = "voyage" => Vector.dimensions \in {256, 512, 1024, 2048}

\* Nothing is stored under a name whose profile in the database does not allow
\* its length: both databases only compare the length with 1..4096, and rely on
\* the Rust registry for the rest.
StoredWithinProfile ==
  /\ result = "stored" => WithinProfile(EmbeddingModelProfiles)
  /\ result = "stored in cockroachdb" => WithinProfile(CockroachModelProfiles)

\* from_model_output refuses no vector of a registered model and a length of
\* its profile that the two tables would take; Voyage's four lengths are the
\* exception, which the database does not know.
RejectionsAreJustified ==
  result \in {"unsupported", "invalid dimensions", "non-finite", "zero"} =>
    \/ DiscreteVoyage(output.provider, Vector.dimensions)
    \/ \A r \in EmbeddingModelProfiles :
         r.provider = output.provider /\ r.model = output.model =>
           Vector.dimensions \notin r.minimum .. r.maximum
    \/ ~(Storable(Resize(Vector)) /\ Projectable(Resize(Vector)))

\* What the contract accepts for a registered model always fits the exact
\* table; if PostgreSQL refuses it, it is for its projection alone, and
\* CockroachDB, which has none, does not.
RefusedForProjection ==
  /\ result = "refused" /\ Registered(output) =>
       Storable(padded) /\ ~Projectable(padded)
  /\ result = "refused by cockroachdb" => ~CockroachRegistered(output)

\* "supports provider outputs up to 4,096 dimensions and stores every vector in
\* exactly 4,100 slots" (embedding-contract/README.md).  False of the code: the
\* database refuses some vectors the contract accepts, those of provider custom
\* and those whose first 4,000 values do not survive at half precision.
AcceptedIsStored == result # "refused"
=============================================================================
