----------------------------- MODULE MCLockKeys -----------------------------
(* Names and values for LockKeys.  The own names have two placeholders, braces *)
(* in odd places, and one left open; the values hold the characters of names.  *)
(* The loops of the sources are here too: LockKeys states what they compute.   *)
EXTENDS LockKeys, TLC

CONSTANTS p1, p2

MCProcesses == {p1, p2}

MCValues == {<<"a">>, <<"a", "/", "mutate">>}

MCOwnNames == {
  <<"{", "a", "}", "/", "{", "b", "}">>,
  <<"{", "{", "a", "}">>,
  <<"}", "{", "}", "a">>,
  <<"a", "{", "a">>}

Symmetry == Permutations(MCProcesses)
-----------------------------------------------------------------------------
\* The first position of character c at or after i, or none (Len + 1).
Find(name, c, i) ==
  LET later == {j \in i..Len(name) : name[j] = c}
  IN  IF later = {} THEN Len(name) + 1 ELSE CHOOSE j \in later : \A k \in later : j <= k

From(name, i) == SubSeq(name, i, Len(name))

FirstValue(values) == IF values = <<>> THEN <<>> ELSE Head(values)

OtherValues(values) == IF values = <<>> THEN <<>> ELSE Tail(values)

\* Rust's loop and Gleam's fill_placeholders.
RECURSIVE Scan(_, _)
Scan(name, values) ==
  LET open  == Find(name, "{", 1)
      close == Find(name, "}", open)
  IN  IF open > Len(name) THEN name
      ELSE SubSeq(name, 1, open - 1) \o FirstValue(values)
             \o Scan(From(name, close + 1), OtherValues(values))

\* replace(/\{[^}]*\}/g), match by match.
RECURSIVE Replace(_, _)
Replace(name, values) ==
  LET open  == Find(name, "{", 1)
      close == Find(name, "}", open)
  IN  IF close > Len(name) THEN name
      ELSE SubSeq(name, 1, open - 1) \o FirstValue(values)
             \o Replace(From(name, close + 1), OtherValues(values))

Names == SeqOf({"{", "}", "a"}, 5) \cup {e.name : e \in Entries}

Fills == {<<>>, <<<<"b">>>>, <<<<"b">>, <<"}", "{">>>>, <<<<>>, <<"b">>, <<"c">>>>}

ASSUME LoopsAssumption ==
  \A name \in Names, values \in Fills :
    /\ Scan(name, values) = Filled(name, Cut(name), values)
    /\ Replace(name, values) = Filled(name, Matched(name), values)
=============================================================================
