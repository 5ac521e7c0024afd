-------------------------- MODULE AdminAccessProofs --------------------------
(***************************************************************************)
(* Proofs about AdminAccess, for any processes, roles and pool size.       *)
(*                                                                         *)
(* What a probe saw of one session must follow for all the others.  The    *)
(* link is the catalog: unless it has changed, every session has the       *)
(* settings that the catalog and the process's own URL give a session now  *)
(* (Identity, Mode), so that a probe of one session is a probe of both.    *)
(***************************************************************************)
EXTENDS AdminAccess, TLAPS

\* The settings a session of c takes over when it is opened now.
Assumes(c) == Effective(query[c].assumes, catalog[role[c]].assumes)
DefaultsToReadOnly(c) == Effective(query[c].readOnly, catalog[role[c]].readOnly)

\* While the role's identity is unchanged the sessions act as a new one would,
\* and past the role probe that is known to be good.
Identity(c) ==
  "identity" \notin changed[c] =>
    /\ \A s \in Sessions(c) : pool[c][s].assumes = Assumes(c)
    /\ at[c] \in {"mode", "admitted"} =>
         catalog[role[c]].safe /\ ~query[c].other /\ ~Assumes(c)

\* While the mode is unchanged the sessions have the default of a new one, and
\* an admitted process has the mode it must have.
Mode(c) ==
  "mode" \notin changed[c] =>
    /\ \A s \in Sessions(c) : pool[c][s].readOnly = DefaultsToReadOnly(c)
    /\ at[c] = "admitted" =>
         (DefaultsToReadOnly(c) \/ recovery <=> c \in ReadContexts)

IInv == TypeOK /\ \A c \in Contexts : Identity(c) /\ Mode(c)

\* Before a process calls connect there is no session to speak of.
LEMMA InitIInv == Init => IInv
<1> SUFFICES ASSUME Init PROVE IInv
  OBVIOUS
<1>1. \A c \in Contexts : Sessions(c) = {}
  BY DEF Init, Sessions, NoSessions
<1>2. TypeOK
  BY <1>1 DEF Init, TypeOK, NoSessions, Aspects, Open, Connecting, Errors
<1>3. \A c \in Contexts : Identity(c) /\ Mode(c)
  BY <1>1 DEF Init, Identity, Mode
<1> QED
  BY <1>2, <1>3 DEF IInv

-----------------------------------------------------------------------------
(* Type correctness.                                                        *)

LEMMA NextTypeOK == TypeOK /\ [Next]_vars => TypeOK'
<1> SUFFICES ASSUME TypeOK, [Next]_vars PROVE TypeOK'
  OBVIOUS
<1> USE DEF TypeOK, Sessions, NoSessions, Connecting, Open, Errors
<1>1. ASSUME NEW c \in Contexts, Connect(c) PROVE TypeOK'
  BY <1>1 DEF Connect
<1>14. ASSUME NEW c \in Contexts, ConnectRefuses(c) PROVE TypeOK'
  BY <1>14 DEF ConnectRefuses, TargetFaults
<1>2. ASSUME NEW c \in Contexts, Fail(c) PROVE TypeOK'
  <2>1. PICK result \in {"Database", "Decode"} :
          Return(c, result) /\ UNCHANGED <<catalog, recovery>>
    BY <1>2 DEF Fail
  <2> QED
    BY <2>1 DEF Return, Forget
<1>3. ASSUME NEW c \in Contexts, Stop(c) PROVE TypeOK'
  BY <1>3 DEF Stop, Return, Forget
<1>4. ASSUME NEW c \in Contexts, NEW s \in Slots, OpenSession(c, s) PROVE TypeOK'
  <2>1. catalog[role[c]] \in RoleRecords
    BY <1>4 DEF OpenSession
  <2>2. [assumes |-> Assumes(c), readOnly |-> DefaultsToReadOnly(c)]
          \in SessionRecords
    BY <2>1 DEF RoleRecords, SessionRecords, Assumes, DefaultsToReadOnly, Effective
  <2> QED
    BY <1>4, <2>2 DEF OpenSession, Assumes, DefaultsToReadOnly
<1>5. ASSUME NEW c \in Contexts, NEW s \in Slots, LoseSession(c, s) PROVE TypeOK'
  BY <1>5 DEF LoseSession
<1>6. ASSUME NEW c \in Contexts, NEW s \in Slots, ProbeRole(c, s) PROVE TypeOK'
  BY <1>6 DEF ProbeRole
<1>7. ASSUME NEW c \in Contexts, NEW s \in Slots, ProbeRoleRefuses(c, s)
      PROVE TypeOK'
  BY <1>7 DEF ProbeRoleRefuses, Return, Forget
<1>8. ASSUME NEW c \in Contexts, NEW s \in Slots, ProbeMode(c, s) PROVE TypeOK'
  BY <1>8 DEF ProbeMode
<1>9. ASSUME NEW c \in Contexts, NEW s \in Slots, ProbeModeRefuses(c, s)
      PROVE TypeOK'
  BY <1>9 DEF ProbeModeRefuses, Return, Forget
<1>10. ASSUME NEW r \in Roles, AlterRole(r) PROVE TypeOK'
  <2>1. PICK part \in {"safe", "assumes", "readOnly"} :
          /\ catalog' = [catalog EXCEPT ![r][part] = ~@]
          /\ changed' = [c \in Contexts |->
               IF at[c] \in Open /\ role[c] = r
               THEN changed[c] \cup {AspectOf[part]} ELSE changed[c]]
          /\ UNCHANGED <<at, role, query, pool, recovery>>
    BY <1>10 DEF AlterRole, AspectOf
  <2>2. catalog' \in [Roles -> RoleRecords]
    BY <2>1 DEF RoleRecords
  <2>3. changed' \in [Contexts -> SUBSET Aspects]
    BY <2>1 DEF AspectOf, Aspects
  <2> QED
    BY <2>1, <2>2, <2>3
<1>11. CASE Promote
  BY <1>11 DEF Promote, ModeChangesForAll, Aspects
<1>12. CASE Demote
  BY <1>12 DEF Demote, ModeChangesForAll, Aspects
<1>13. CASE UNCHANGED vars
  BY <1>13 DEF vars
<1> QED
  BY <1>1, <1>2, <1>3, <1>4, <1>5, <1>6, <1>7, <1>8, <1>9, <1>10, <1>11, <1>12,
     <1>13, <1>14 DEF Next

\* For any processes, roles and pool size, every variable keeps its type, and a
\* connect that returned an error holds no session.
THEOREM TypeCorrect == Spec => []TypeOK
<1>1. Init => TypeOK
  BY InitIInv DEF IInv
<1> QED
  BY <1>1, NextTypeOK, PTL DEF Spec

-----------------------------------------------------------------------------
(* The probes speak for every session.                                      *)

LEMMA NextIInv == IInv /\ [Next]_vars => IInv'
<1> SUFFICES ASSUME IInv, [Next]_vars PROVE IInv'
  OBVIOUS
<1>1. TypeOK /\ TypeOK'
  BY NextTypeOK DEF IInv
<1> SUFFICES ASSUME NEW d \in Contexts PROVE Identity(d)' /\ Mode(d)'
  BY <1>1 DEF IInv
<1>2. Identity(d) /\ Mode(d)
  BY DEF IInv
<1> USE <1>1, <1>2 DEF TypeOK, Identity, Mode, Assumes, DefaultsToReadOnly,
                       Sessions, NoSessions, Open, Connecting
<1>3. ASSUME NEW c \in Contexts, Connect(c) PROVE Identity(d)' /\ Mode(d)'
  BY <1>3 DEF Connect
<1>16. ASSUME NEW c \in Contexts, ConnectRefuses(c) PROVE Identity(d)' /\ Mode(d)'
  BY <1>16 DEF ConnectRefuses, TargetFaults
<1>4. ASSUME NEW c \in Contexts, Fail(c) PROVE Identity(d)' /\ Mode(d)'
  <2>1. PICK result \in {"Database", "Decode"} :
          Return(c, result) /\ UNCHANGED <<catalog, recovery>>
    BY <1>4 DEF Fail
  <2> QED
    BY <2>1 DEF Return, Forget
<1>5. ASSUME NEW c \in Contexts, Stop(c) PROVE Identity(d)' /\ Mode(d)'
  BY <1>5 DEF Stop, Return, Forget, Errors
<1>6. ASSUME NEW c \in Contexts, NEW s \in Slots, OpenSession(c, s)
      PROVE Identity(d)' /\ Mode(d)'
  \* The new session takes over what the catalog and the URL say.
  <2> DEFINE session == [assumes |-> Assumes(c), readOnly |-> DefaultsToReadOnly(c)]
  <2>1. session.assumes = Assumes(c) /\ session.readOnly = DefaultsToReadOnly(c)
    OBVIOUS
  <2>2. /\ pool' = [pool EXCEPT ![c][s] = session]
        /\ UNCHANGED <<role, query, catalog, recovery, changed>>
        /\ at'[d] \in {"mode", "admitted"} => at'[d] = at[d]
    BY <1>6 DEF OpenSession
  <2> QED
    BY <2>1, <2>2
<1>7. ASSUME NEW c \in Contexts, NEW s \in Slots, LoseSession(c, s)
      PROVE Identity(d)' /\ Mode(d)'
  BY <1>7 DEF LoseSession
<1>8. ASSUME NEW c \in Contexts, NEW s \in Slots, ProbeRole(c, s)
      PROVE Identity(d)' /\ Mode(d)'
  \* One session tells what the catalog says, and thereby all of them.
  BY <1>8 DEF ProbeRole, RoleAccepted
<1>9. ASSUME NEW c \in Contexts, NEW s \in Slots, ProbeRoleRefuses(c, s)
      PROVE Identity(d)' /\ Mode(d)'
  BY <1>9 DEF ProbeRoleRefuses, Return, Forget
<1>10. ASSUME NEW c \in Contexts, NEW s \in Slots, ProbeMode(c, s)
       PROVE Identity(d)' /\ Mode(d)'
  BY <1>10 DEF ProbeMode, ModeAccepted, TransactionReadOnly, ReadOnly
<1>11. ASSUME NEW c \in Contexts, NEW s \in Slots, ProbeModeRefuses(c, s)
       PROVE Identity(d)' /\ Mode(d)'
  BY <1>11 DEF ProbeModeRefuses, Return, Forget
<1>12. ASSUME NEW r \in Roles, AlterRole(r) PROVE Identity(d)' /\ Mode(d)'
  \* A process under which the aspect did not change does not see the rest.
  <2>1. PICK part \in {"safe", "assumes", "readOnly"} :
          /\ catalog' = [catalog EXCEPT ![r][part] = ~@]
          /\ changed' = [c \in Contexts |->
               IF at[c] \in Open /\ role[c] = r
               THEN changed[c] \cup {AspectOf[part]} ELSE changed[c]]
          /\ UNCHANGED <<at, role, query, pool, recovery>>
    BY <1>12 DEF AlterRole, AspectOf
  <2>2. CASE ~(at[d] \in Open /\ role[d] = r)
    BY <2>1, <2>2
  <2>3. CASE at[d] \in Open /\ role[d] = r
    <3>1. changed'[d] = changed[d] \cup {AspectOf[part]}
      BY <2>1, <2>3
    <3>2. "identity" \notin changed'[d] =>
            /\ catalog'[r].safe = catalog[r].safe
            /\ catalog'[r].assumes = catalog[r].assumes
      BY <2>1, <3>1 DEF AspectOf, RoleRecords
    <3>3. "mode" \notin changed'[d] => catalog'[r].readOnly = catalog[r].readOnly
      BY <2>1, <3>1 DEF AspectOf, RoleRecords
    <3> QED
      BY <2>1, <2>3, <3>1, <3>2, <3>3
  <2> QED
    BY <2>2, <2>3
<1>13. CASE Promote
  BY <1>13 DEF Promote, ModeChangesForAll
<1>14. CASE Demote
  BY <1>14 DEF Demote, ModeChangesForAll
<1>15. CASE UNCHANGED vars
  BY <1>15 DEF vars
<1> QED
  BY <1>3, <1>4, <1>5, <1>6, <1>7, <1>8, <1>9, <1>10, <1>11, <1>12, <1>13, <1>14,
     <1>15, <1>16 DEF Next

LEMMA Inductive == Spec => []IInv
BY InitIInv, NextIInv, PTL DEF Spec

\* For any processes, roles and pool size: unless the role has been altered since
\* connect was called, every session of an admitted process acts as the
\* expected role in the expected database, and the role has none of the refused
\* powers.
THEOREM RoleProbeSuffices == Spec => []RoleIsProved
<1>1. IInv => RoleIsProved
  BY DEF IInv, Identity, RoleIsProved
<1> QED
  BY <1>1, Inductive, PTL

\* The same of the mode: unless the default of the role or the recovery state
\* has changed, an admitted reader has read-only sessions alone, an admitted
\* writer none.
THEOREM ModeProbeSuffices == Spec => []ModeIsProved
<1>1. IInv => ModeIsProved
  BY DEF IInv, Mode, ModeIsProved, ReadOnly
<1> QED
  BY <1>1, Inductive, PTL

\* A reader and a writer with the same database_url, role and options alike, are
\* never both admitted, unless the mode changed under one of them.
THEOREM SeparatePlanes == Spec => []PlanesAreSeparate
<1>1. IInv => PlanesAreSeparate
  <2> SUFFICES ASSUME IInv, NEW r \in ReadContexts, NEW w \in WriteContexts,
                      at[r] = "admitted", at[w] = "admitted",
                      "mode" \notin changed[r] \cup changed[w],
                      role[r] = role[w], query[r] = query[w]
               PROVE FALSE
    BY DEF PlanesAreSeparate
  <2>1. r \in Contexts /\ w \in Contexts /\ w \notin ReadContexts
    BY ContextsAssumption DEF Contexts
  <2> QED
    BY <2>1 DEF IInv, Mode, DefaultsToReadOnly
<1> QED
  BY <1>1, Inductive, PTL

=============================================================================
