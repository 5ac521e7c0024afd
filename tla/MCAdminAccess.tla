---------------------------- MODULE MCAdminAccess ----------------------------
(* Model values and symmetry for AdminAccess: one web server and one API that *)
(* share a database, with two sessions each.                                  *)
EXTENDS AdminAccess, TLC

CONSTANTS web, api, r1, s1, s2

MCReadContexts == {web}

MCWriteContexts == {api}

MCRoles == {r1}

\* A URL that sets nothing, one for each setting of the mode, one that names
\* another database or user, and one that acts as the role that logged in.
Plain == [other |-> FALSE, assumes |-> "unset", readOnly |-> "unset"]

MCQueries ==
  {Plain,
   [Plain EXCEPT !.readOnly = "on"],
   [Plain EXCEPT !.readOnly = "off"],
   [Plain EXCEPT !.other = TRUE],
   [Plain EXCEPT !.assumes = "off"]}

MCSlots == {s1, s2}

\* Sessions are compared with each other nowhere.
Symmetry == Permutations(MCSlots)
=============================================================================
