------------------------ MODULE MCRequestValidation ------------------------
(* Inputs for RequestValidation: one field is varied around its bounds, absent *)
(* or null; the others are plain.                                              *)
EXTENDS RequestValidation

PlainValue(f) ==
  Value(f.kind, IF f.kind = "ip" THEN "ip" ELSE "ascii", IF f.min < 3 THEN 3 ELSE f.min, 1)

Lengths(f) ==
  {0, 1, 2, f.min, f.max \div 4 + 1, f.max \div 2, f.max \div 2 + 1, f.max, f.max + 1}

Texts(f) ==
  {Value(f.kind, s, n, 1) : s \in {"ascii", "latin", "emoji", "marked"}, n \in Lengths(f)}

PresentValues(f) ==
  CASE f.kind = "text" -> Texts(f)
    [] f.kind = "int" -> {Value("int", "ascii", n, 1) : n \in Lengths(f)}
    [] f.kind = "ip" -> {Value("ip", s, 9, 1) : s \in {"ip", "dotted", "ascii"}}
    [] f.kind = "list" -> Texts(f) \cup {Value("list", "ascii", 3, i) : i \in {0, 64, 65}}

MCInputs(fields) ==
  {[[y \in DOMAIN fields |-> PlainValue(fields[y])] EXCEPT ![x] = v] :
     <<x, v>> \in UNION {{x} \X (PresentValues(fields[x]) \cup {Absent, Null}) : x \in DOMAIN fields}}
=============================================================================
