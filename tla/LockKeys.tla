------------------------------ MODULE LockKeys ------------------------------
(***************************************************************************)
(* The lock catalog (locks/): processes in five runtimes build the key of  *)
(* a catalog entry, each with the code of its own runtime, and lock it.    *)
(*                                                                         *)
(* The runtimes fill the {placeholders} of an entry's name by two          *)
(* algorithms: Rust and Gleam cut the name at each brace, Go, TypeScript   *)
(* and Dart replace the matches of \{[^}]*\}.  A lock excludes exactly     *)
(* those who build the same key, so the two must agree.  Names and values  *)
(* are short sequences of characters here, since it is their characters    *)
(* the algorithms look at.                                                 *)
(*                                                                         *)
(* The lock itself belongs to ores_locks_and_leases, outside the           *)
(* repository: one holder per key, an entry that does not wait gives up.   *)
(* So does LockKey, which may refuse a key before anybody locks it; which  *)
(* keys it refuses in which language is not known here.  That two keys may *)
(* share one number of an advisory lock is left out.                       *)
(***************************************************************************)
EXTENDS Naturals, SequencesExt

CONSTANTS
  Processes,  \* those that lock
  Values,     \* what callers fill in: sequences of characters
  OwnNames,   \* names of entries that callers declare beside the catalog
  NoRequest   \* not a request

Runtimes == {"rust", "gleam", "go", "typescript", "dart"}

Domains == {"jobs", "migrations", "outbox", "tenant"}

\* The catalog; of an entry's defaults only wait matters to the keys' users.
MIGRATIONS_APPLY == [domain |-> "migrations", name |-> <<"apply">>, wait |-> FALSE]
JOBS_SINGLETON_JOB ==
  [domain |-> "jobs", name |-> <<"singleton:", "{", "job", "}">>, wait |-> FALSE]
OUTBOX_DRAIN == [domain |-> "outbox", name |-> <<"drain">>, wait |-> FALSE]
TENANT_TENANT_ID_MUTATE ==
  [domain |-> "tenant", name |-> <<"{", "tenant_id", "}", "/", "mutate">>, wait |-> TRUE]

Catalog == {MIGRATIONS_APPLY, JOBS_SINGLETON_JOB, OUTBOX_DRAIN, TENANT_TENANT_ID_MUTATE}

\* Entry is a public type in every runtime: callers may declare their own.
Entries == Catalog \cup
  {[domain |-> d, name |-> n, wait |-> TRUE] : d \in {"jobs"}, n \in OwnNames}

\* A call of Entry.key: by code of a runtime, for an entry, with values for its
\* placeholders, one too few or too many among them.
Requests == [runtime : Runtimes, entry : Entries,
             fill : UNION {[1..n -> Values] : n \in 0..2}]

ASSUME RequestAssumption == NoRequest \notin Requests

\* A character is a string of length one; a fixed part of a name may be longer.
ASSUME ValuesAssumption ==
  Values \subseteq Seq(STRING) /\ OwnNames \subseteq Seq(STRING)

VARIABLES
  request,  \* request[p]: what p locks, or is about to
  at        \* at[p]: "idle", "waiting" or "holding"

vars == <<request, at>>

-----------------------------------------------------------------------------
(* Building a key.                                                          *)

\* The positions of a name that the loops of Rust and Gleam cut out: an open brace
\* and all that follows, to the first closing one or, without one, to the end.
Cut(name) ==
  {i \in 1..Len(name) :
     \E j \in 1..i : name[j] = "{" /\ \A k \in j..(i - 1) : name[k] # "}"}

\* Those of the matches of \{[^}]*\}: an open brace without a closing one is none.
Matched(name) == {i \in Cut(name) : \E k \in i..Len(name) : name[k] = "}"}

\* Where a placeholder begins: another open brace before it is closed is part of it.
Starts(name, placeholders) ==
  {i \in placeholders : name[i] = "{" /\ (i - 1 \notin placeholders \/ name[i - 1] = "}")}

\* What the placeholder that begins at i gets: a missing value is empty.
Filling(name, placeholders, values, i) ==
  LET n == Cardinality({j \in Starts(name, placeholders) : j <= i})
  IN  IF n <= Len(values) THEN values[n] ELSE <<>>

Pieces(name, placeholders, values) ==
  [i \in 1..Len(name) |->
     IF i \in Starts(name, placeholders) THEN Filling(name, placeholders, values, i)
     ELSE IF i \in placeholders THEN <<>> ELSE <<name[i]>>]

Filled(name, placeholders, values) == FlattenSeq(Pieces(name, placeholders, values))

\* (The faulty form of Rust's: the values are not put in.)
RustNameWithoutValues(e, values) == Filled(e.name, Cut(e.name), <<>>)
RustName(e, values) == Filled(e.name, Cut(e.name), values)

GleamName(e, values) == Filled(e.name, Cut(e.name), values)

\* (The faulty form of Go's: the first value for every placeholder.)
GoNameByFirst(e, values) ==
  Filled(e.name, Matched(e.name),
         [i \in 1..Len(e.name) |-> IF values = <<>> THEN <<>> ELSE Head(values)])
GoName(e, values) == Filled(e.name, Matched(e.name), values)

TypescriptName(e, values) == Filled(e.name, Matched(e.name), values)

DartName(e, values) == Filled(e.name, Matched(e.name), values)

\* fanwaave/<domain>/<name>, in the runtime of the request.
Key(r) ==
  <<"fanwaave/", r.entry.domain, "/">> \o
  CASE r.runtime = "rust"       -> RustName(r.entry, r.fill)
    [] r.runtime = "gleam"      -> GleamName(r.entry, r.fill)
    [] r.runtime = "go"         -> GoName(r.entry, r.fill)
    [] r.runtime = "typescript" -> TypescriptName(r.entry, r.fill)
    [] r.runtime = "dart"       -> DartName(r.entry, r.fill)

-----------------------------------------------------------------------------
(* Locking.                                                                 *)

Holders == {p \in Processes : at[p] = "holding"}

Init ==
  /\ request = [p \in Processes |-> NoRequest]
  /\ at = [p \in Processes |-> "idle"]

Request(p) ==
  /\ at[p] = "idle"
  /\ \E r \in Requests : request' = [request EXCEPT ![p] = r]
  /\ at' = [at EXCEPT ![p] = "waiting"]

Acquire(p) ==
  /\ at[p] = "waiting"
  /\ \A q \in Holders : Key(request[q]) # Key(request[p])
  /\ at' = [at EXCEPT ![p] = "holding"]
  /\ UNCHANGED request

\* The caller is done, with the lock or without it.
Leave(p) ==
  /\ at' = [at EXCEPT ![p] = "idle"]
  /\ request' = [request EXCEPT ![p] = NoRequest]

\* LockKey refuses the key: Err(InvalidLockKey), an error, an exception.
InvalidLockKey(p) == at[p] = "waiting" /\ Leave(p)

\* An entry that does not wait: the caller goes without the lock.
GiveUp(p) ==
  /\ at[p] = "waiting"
  /\ ~request[p].entry.wait
  /\ \E q \in Holders : Key(request[q]) = Key(request[p])
  /\ Leave(p)

Release(p) == at[p] = "holding" /\ Leave(p)

Next == \E p \in Processes :
  Request(p) \/ InvalidLockKey(p) \/ Acquire(p) \/ GiveUp(p) \/ Release(p)

Spec == Init /\ [][Next]_vars

-----------------------------------------------------------------------------
(* Properties.                                                              *)

\* Every brace that is opened is closed.
Closed(name) ==
  \A i \in 1..Len(name) : name[i] = "{" => \E k \in i..Len(name) : name[k] = "}"

Cutting == {"rust", "gleam"}

\* Two processes never hold the lock of one entry with the same values, whatever
\* their languages; for a name with a brace that is left open only if both cut or
\* both match.  ("x{a" is the key "x" in Rust and "x{a" in Go.)
MutualExclusion ==
  \A p, q \in Holders :
    /\ request[p].entry = request[q].entry
    /\ request[p].fill = request[q].fill
    /\ \/ Closed(request[p].entry.name)
       \/ request[p].runtime \in Cutting <=> request[q].runtime \in Cutting
    => p = q

\* What an entry's placeholders get, missing values being empty.
Effective(r) ==
  [i \in Starts(r.entry.name, Matched(r.entry.name)) |->
     Filling(r.entry.name, Matched(r.entry.name), r.fill, i)]

\* Nobody waits for another job, tenant or entry of the catalog: the keys of the
\* catalog are as different as what they stand for.
NoFalseSharing ==
  \A p \in Processes, q \in Holders :
    /\ at[p] = "waiting"
    /\ {request[p].entry, request[q].entry} \subseteq Catalog
    /\ Key(request[p]) = Key(request[q])
    => /\ request[p].entry = request[q].entry
       /\ Effective(request[p]) = Effective(request[q])

=============================================================================
