---------------------------- MODULE AdminLedger ----------------------------
(***************************************************************************)
(* What AdminWriteContext::record_action promises its callers              *)
(* (admin-orm/src/lib.rs and the last paragraph of admin-orm/README.md),   *)
(* with no database in it: a ledger that accepts at most one command per   *)
(* idempotency key, an audit trail that grows with the ledger in the same  *)
(* step, and answers that the ledger justifies at the moment they are      *)
(* given.  AdminActions implements it with one transaction per call.       *)
(***************************************************************************)

CONSTANTS
  Calls,      \* the calls of record_action, each named by its fresh uuid
  Inputs,     \* the AdminAction payloads; an input has a field "key"
  NoInput,    \* the payload of a call that is not made yet
  NoCall      \* no operation id

VARIABLES
  asked,      \* asked[o]: the payload of call o
  accepted,   \* the calls whose command is in the ledger
  audit,      \* the operations the audit trail announces
  result      \* result[o]: what call o returned

vars == <<asked, accepted, audit, result>>

Results == [outcome : {"none", "ok", "conflict", "error"},
            operation : Calls \cup {NoCall}]

Outcome(kind, o) == [outcome |-> kind, operation |-> o]

NoResult == Outcome("none", NoCall)

Init ==
  /\ asked = [o \in Calls |-> NoInput]
  /\ accepted = {}
  /\ audit = {}
  /\ result = [o \in Calls |-> NoResult]

Ask(o, i) ==
  /\ asked[o] = NoInput
  /\ asked' = [asked EXCEPT ![o] = i]
  /\ UNCHANGED <<accepted, audit, result>>

\* A command enters the ledger and the audit trail together, and only under
\* a key that no other command holds.  Its caller may already have been told
\* that the outcome is unknown ("error").
Accept(o) ==
  /\ asked[o] # NoInput
  /\ o \notin accepted
  /\ \A p \in accepted : asked[p].key # asked[o].key
  /\ accepted' = accepted \cup {o}
  /\ audit' = audit \cup {o}
  /\ UNCHANGED <<asked, result>>

\* The answers the ledger allows: the operation that holds exactly this
\* payload, a conflict with an operation that holds the key for another
\* payload, or an error, which says nothing.
Allowed(o) ==
  {Outcome("ok", p) : p \in {q \in accepted : asked[q] = asked[o]}}
    \cup {Outcome("conflict", NoCall) :
            p \in {q \in accepted : /\ asked[q].key = asked[o].key
                                    /\ asked[q] # asked[o]}}
    \cup {Outcome("error", NoCall)}

Answer(o) ==
  /\ asked[o] # NoInput
  /\ result[o] = NoResult
  /\ \E r \in Allowed(o) : result' = [result EXCEPT ![o] = r]
  /\ UNCHANGED <<asked, accepted, audit>>

Next ==
  \E o \in Calls :
    \/ \E i \in Inputs : Ask(o, i)
    \/ Accept(o)
    \/ Answer(o)

Spec == Init /\ [][Next]_vars
=============================================================================
