--------------------------- MODULE MCAdminActions ---------------------------
(* An instance of AdminActions for TLC.  Calls are finitely many, so a      *)
(* behaviour ends when all of them have returned and been cleaned up;       *)
(* stopping anywhere else is a deadlock.                                    *)
EXTENDS AdminActions, TLC

\* Calls, keys, actors and commands are interchangeable.  SYMMETRY would be
\* unsound for the liveness properties, so the symmetry is broken by hand:
\* of the ways to distribute inputs over the calls that only differ in names,
\* one is explored.
Renamed(asked) ==
  {[o \in Calls |-> [key |-> k[asked[c[o]].key],
                     actor |-> a[asked[c[o]].actor],
                     command |-> m[asked[c[o]].command]]] :
     c \in Permutations(Calls), k \in Permutations(Keys),
     a \in Permutations(Actors), m \in Permutations(Commands)}

Representatives ==
  {CHOOSE asked \in class : TRUE :
     class \in {Renamed(asked) : asked \in [Calls -> Inputs]}}

Representative ==
  \E asked \in Representatives :
    \A o \in Calls : input[o] \in {NoInput, asked[o]}

AllDone ==
  /\ \A o \in Calls : pc[o] \in Returned
  /\ \A o \in Calls : txn[o] \notin {"open", "committing"}
  /\ conn = {}
  /\ UNCHANGED vars

MCNext == (Next /\ Representative') \/ AllDone

MCSpec == Init /\ [][MCNext]_vars /\ Fairness
=============================================================================
