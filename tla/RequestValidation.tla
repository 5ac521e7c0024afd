-------------------------- MODULE RequestValidation --------------------------
(***************************************************************************)
(* The validation SDKs (validation/): six record types, each declared four *)
(* times, with Garde in Rust, validator/v10 in Go, Zod in TypeScript and   *)
(* decoders in Gleam.  A record is sent as JSON by a client, or built by a *)
(* service, and travels from service to service: each decodes it, checks   *)
(* it, keeps it as a value of its language and may send that on.           *)
(*                                                                         *)
(* The libraries are modelled from how the SDKs use them: what a missing   *)
(* field, null and the empty string become, and in which unit the length   *)
(* of a text is counted.  Of the payload of a command, whose value nobody  *)
(* looks at, only its presence is kept.  Values of another JSON type than  *)
(* the declared one are left out.  Go's server package has no decoder of   *)
(* its own: its services use DecodeAndValidate of the public one.          *)
(* Definitions marked faulty are mistakes the SDKs could contain; Next     *)
(* uses none.                                                              *)
(***************************************************************************)
EXTENDS Integers

CONSTANT Inputs(_)  \* Inputs(fields): what senders put into the fields of a record

Languages == {"Rust", "Go", "TypeScript", "Gleam"}

\* The Gleam packages decode only.
Emitters == {"Rust", "Go", "TypeScript"}

\* The bounds of a field, and whether it may be left out.  A list has the bounds
\* of its items, and at most "most" of them.
Text(min, max) ==
  [kind |-> "text", min |-> min, max |-> max, optional |-> FALSE, most |-> 1]
Optional(f) == [f EXCEPT !.optional = TRUE]
Integer(min, max) == [Text(min, max) EXCEPT !.kind = "int"]
Ip(min, max) == [Text(min, max) EXCEPT !.kind = "ip"]
ListOf(f, most) == [f EXCEPT !.kind = "list", !.most = most]
-----------------------------------------------------------------------------
(* The declarations.  A nested record is written as its fields.  The bounds *)
(* of an address are Gleam's; the other libraries parse it.                 *)

Joined(f, g) ==
  [x \in DOMAIN f \cup DOMAIN g |-> IF x \in DOMAIN f THEN f[x] ELSE g[x]]

RustMeta ==
  [requestId |-> Text(1, 128), traceId |-> Text(1, 128), locale |-> Optional(Text(2, 64))]
RustPage == [limit |-> Integer(1, 100), cursor |-> Optional(Text(1, 512))]
RustProblem ==
  [type |-> Text(1, 512), title |-> Text(1, 256), status |-> Integer(400, 599),
   detail |-> Optional(Text(0, 4096)), requestId |-> Text(1, 128)]
RustActor ==
  [userId |-> Text(1, 128), tenantId |-> Optional(Text(1, 128)), roles |-> ListOf(Text(1, 128), 64)]
RustContext ==
  Joined(RustMeta, Joined(RustActor, [sourceIp |-> Optional(Ip(2, 45))]))
RustCommand ==
  Joined([operationId |-> Text(1, 256), idempotencyKey |-> Optional(Text(1, 128))],
         RustContext)

GoMeta ==
  [requestId |-> Text(1, 128), traceId |-> Text(1, 128), locale |-> Optional(Text(2, 64))]
GoPage == [limit |-> Integer(1, 100), cursor |-> Optional(Text(1, 512))]
GoProblem ==
  [type |-> Text(1, 512), title |-> Text(1, 256), status |-> Integer(400, 599),
   detail |-> Optional(Text(0, 4096)), requestId |-> Text(1, 128)]
GoActor ==
  [userId |-> Text(1, 128), tenantId |-> Optional(Text(1, 128)), roles |-> ListOf(Text(1, 128), 64)]
GoContext ==
  Joined(GoMeta, Joined(GoActor, [sourceIp |-> Optional(Ip(2, 45))]))
GoCommand ==
  Joined([operationId |-> Text(1, 256), idempotencyKey |-> Optional(Text(1, 128))],
         GoContext)

\* (Faulty: a token that may be one longer.)
TokenOneLonger == Text(1, 129)
Token == Text(1, 128)
TypeScriptMeta ==
  [requestId |-> Token, traceId |-> Token, locale |-> Optional(Text(2, 64))]
TypeScriptPage == [limit |-> Integer(1, 100), cursor |-> Optional(Text(1, 512))]
TypeScriptProblem ==
  [type |-> Text(1, 512), title |-> Text(1, 256), status |-> Integer(400, 599),
   detail |-> Optional(Text(0, 4096)), requestId |-> Token]
TypeScriptActor ==
  [userId |-> Token, tenantId |-> Optional(Token), roles |-> ListOf(Token, 64)]
TypeScriptContext ==
  Joined(TypeScriptMeta, Joined(TypeScriptActor, [sourceIp |-> Optional(Ip(2, 45))]))
TypeScriptCommand ==
  Joined([operationId |-> Text(1, 256), idempotencyKey |-> Optional(Token)],
         TypeScriptContext)

GleamMeta ==
  [requestId |-> Text(1, 128), traceId |-> Text(1, 128), locale |-> Optional(Text(2, 64))]
GleamPage == [limit |-> Integer(1, 100), cursor |-> Optional(Text(1, 512))]
GleamProblem ==
  [type |-> Text(1, 512), title |-> Text(1, 256), status |-> Integer(400, 599),
   detail |-> Optional(Text(0, 4096)), requestId |-> Text(1, 128)]
GleamActor ==
  [userId |-> Text(1, 128), tenantId |-> Optional(Text(1, 128)), roles |-> ListOf(Text(1, 128), 64)]
GleamContext ==
  Joined(GleamMeta, Joined(GleamActor, [sourceIp |-> Optional(Ip(2, 45))]))
GleamCommand ==
  Joined([operationId |-> Text(1, 256), idempotencyKey |-> Optional(Text(1, 128))],
         GleamContext)

PublicRecords == {"RequestMeta", "PageQuery", "ProblemDetails"}
ServerRecords == {"TrustedActor", "ServerRequestContext", "InternalCommand"}
Records == PublicRecords \cup ServerRecords

Declared(meta, page, problem, actor, context, command) ==
  [RequestMeta |-> meta, PageQuery |-> page, ProblemDetails |-> problem,
   TrustedActor |-> actor, ServerRequestContext |-> context, InternalCommand |-> command]

Fields ==
  [Rust |-> Declared(RustMeta, RustPage, RustProblem, RustActor, RustContext, RustCommand),
   Go |-> Declared(GoMeta, GoPage, GoProblem, GoActor, GoContext, GoCommand),
   TypeScript |-> Declared(TypeScriptMeta, TypeScriptPage, TypeScriptProblem,
                           TypeScriptActor, TypeScriptContext, TypeScriptCommand),
   Gleam |-> Declared(GleamMeta, GleamPage, GleamProblem,
                      GleamActor, GleamContext, GleamCommand)]

FieldsOf(l, r) == Fields[l][r]

\* The TypeScript context extends the request metadata, the others hold it in
\* a field "public".
Shape(l, r) ==
  IF l = "TypeScript" /\ r \in ServerRecords \ {"TrustedActor"}
  THEN "extended" ELSE "nested"
-----------------------------------------------------------------------------
(* Values, on the wire and in a service.                                    *)

\* n characters of a script, one of them for each item of a list; an integer n.
Value(is, script, n, items) == [is |-> is, script |-> script, n |-> n, items |-> items]
Absent == Value("absent", "ascii", 0, 0)
Null == Value("null", "ascii", 0, 0)
None == Value("none", "ascii", 0, 0)     \* Option::None, undefined, a nil slice
Present(v) == v.is \in {"text", "int", "list", "ip"}

\* The units of one character: bytes in Rust (length(min, max) without a mode),
\* runes in Go, UTF-16 code units in TypeScript, graphemes in Gleam.  "marked"
\* is a letter with a combining accent; "dotted" and "ip" are in ASCII, one is
\* no IP address.
Unit ==
  [Rust |-> [ascii |-> 1, latin |-> 2, emoji |-> 4, marked |-> 3, dotted |-> 1, ip |-> 1],
   Go |-> [ascii |-> 1, latin |-> 1, emoji |-> 1, marked |-> 2, dotted |-> 1, ip |-> 1],
   TypeScript |-> [ascii |-> 1, latin |-> 1, emoji |-> 2, marked |-> 2, dotted |-> 1, ip |-> 1],
   Gleam |-> [ascii |-> 1, latin |-> 1, emoji |-> 1, marked |-> 1, dotted |-> 1, ip |-> 1]]

Within(l, f, v) == LET length == v.n * Unit[l][v.script]
                   IN f.min <= length /\ length <= f.max

\* Gleam takes any text with a dot or a colon for an address.
IsAddress(l, f, v) ==
  IF l = "Gleam" THEN v.script \in {"ip", "dotted"} /\ Within(l, f, v)
                 ELSE v.script = "ip"

\* (Faulty: a reader that keeps what was sent.)
NativeAsSent(l, f, v) == v

\* What a service makes of a field.  Go has no absent text, only an empty one.
Native(l, f, v) ==
  IF Present(v) THEN v
  ELSE IF l = "Go" /\ f.kind # "list" THEN Value(f.kind, "ascii", 0, 1)
  ELSE None

\* Option reads null as None; Go leaves its zero value; an optional field of Zod
\* or of Gleam may be absent but not null.
Readable(l, f, v) ==
  \/ Present(v)
  \/ l = "Go"
  \/ f.optional /\ (l = "Rust" \/ v = Absent)

\* validate(), validate.Struct, parse, decode.run: one field.
Valid(l, f, v) ==
  \/ v = None
  \/ l = "Go" /\ f.optional /\ v.n = 0                              \* omitempty
  \/ f.kind = "text" /\ Within(l, f, v)
  \/ f.kind = "int" /\ f.min <= v.n /\ v.n <= f.max
  \/ f.kind = "ip" /\ IsAddress(l, f, v)
  \/ f.kind = "list" /\ v.items <= f.most /\ (v.items > 0 => Within(l, f, v))

Passes(l, f, v) == Readable(l, f, v) /\ Valid(l, f, Native(l, f, v))

\* deny_unknown_fields, DisallowUnknownFields and strict(); Gleam skips them.  A
\* command without a payload misses a field of Rust and Gleam; z.unknown() takes
\* undefined, and Go's any is nil.
Accepts(l, m) ==
  /\ m.unknown => l = "Gleam"
  /\ m.bare => l \in {"Go", "TypeScript"}
  /\ m.shape = Shape(l, m.record)
  /\ \A x \in DOMAIN m.fields : Passes(l, FieldsOf(l, m.record)[x], m.fields[x])

\* (Faulty: json tags without omitempty.)
EncodedWithoutOmitempty(l, f, v) ==
  IF v = None THEN IF l = "TypeScript" THEN Absent ELSE Null ELSE v

\* (Faulty: omitempty on a field that is required, as roles is.)
EncodedOmittingEmpty(l, f, v) ==
  IF l = "Go" /\ (v = None \/ v.n = 0 \/ v.items = 0) THEN Absent
  ELSE IF v = None THEN IF l = "TypeScript" THEN Absent ELSE Null
  ELSE v

\* Serialize writes None as null, the json tag omits an empty text and writes a
\* nil slice as null, JSON.stringify omits undefined.
Encoded(l, f, v) ==
  IF v = None THEN IF l = "TypeScript" THEN Absent ELSE Null
  ELSE IF l = "Go" /\ f.optional /\ v.n = 0 THEN Absent
  ELSE v
-----------------------------------------------------------------------------
(* What senders put in.                                                     *)

Scripts == {"ascii", "latin", "emoji", "marked", "dotted", "ip"}

\* The values of a field.  An IP address takes 2 ("::") to 45 characters.
ValuesOf(f) ==
  {v \in [is : {f.kind}, script : Scripts, n : IF f.kind = "int" THEN Int ELSE Nat, items : Nat] :
     v.script = "ip" => v.n \in 2..45}

ASSUME InputsAssumption ==
  \A l \in Languages, r \in Records :
    LET fields == FieldsOf(l, r)
    IN  \A input \in Inputs(fields) :
          /\ DOMAIN input = DOMAIN fields
          /\ \A x \in DOMAIN fields : input[x] \in {Absent, Null} \cup ValuesOf(fields[x])

\* Unknown: it has a field that is not declared.  Bare: it has no payload.
Message(r, shape, unknown, bare, fields) ==
  [record |-> r, shape |-> shape, unknown |-> unknown, bare |-> bare, fields |-> fields]

MaybeBare(r) == {bare \in BOOLEAN : bare => r = "InternalCommand"}

\* What clients send, and services that do not use the SDKs, valid or not.
ClientMessages ==
  UNION {{Message(r, Shape(l, r), u, bare, input) :
            l \in Languages, u \in BOOLEAN, bare \in MaybeBare(r),
            input \in Inputs(FieldsOf("Rust", r))} : r \in Records}

-----------------------------------------------------------------------------
VARIABLES
  message,   \* the message in flight, or last received
  sender,    \* who sent it
  stage,     \* "wire": in flight, "held": accepted, "refused"
  service,   \* the language of the service that accepted or refused it
  values,    \* the fields that service holds
  original   \* the fields as its first sender had them

vars == <<message, sender, stage, service, values, original>>

\* A service in l sends the fields it holds.  Only TypeScript has a command
\* without a payload; Go writes its nil as null.
EncodedMessage(l, r, bare, fields) ==
  Message(r, Shape(l, r), FALSE, bare /\ l = "TypeScript",
          [x \in DOMAIN fields |-> Encoded(l, FieldsOf(l, r)[x], fields[x])])

\* The fields of a record that a service has built, of what its language has for
\* text, none and nothing, and has found valid.
ValidFields(l, r) ==
  LET f == FieldsOf(l, r)
  IN  {[x \in DOMAIN f |-> Native(l, f[x], input[x])] :
         input \in {i \in Inputs(f) : \A x \in DOMAIN f : Passes(l, f[x], i[x])}}

\* A client sends a record, or a service a server record it has built.
Init ==
  /\ \/ /\ sender = "client"
        /\ message \in ClientMessages
        /\ original = message.fields
     \/ /\ sender \in Emitters
        /\ \E r \in ServerRecords : \E bare \in MaybeBare(r), fields \in ValidFields(sender, r) :
             /\ message = EncodedMessage(sender, r, bare, fields)
             /\ original = fields
  /\ stage = "wire"
  /\ service = sender
  /\ values = original

Accept(l) ==
  /\ stage = "wire"
  /\ Accepts(l, message)
  /\ stage' = "held"
  /\ service' = l
  /\ values' = [x \in DOMAIN message.fields |->
                  Native(l, FieldsOf(l, message.record)[x], message.fields[x])]
  /\ UNCHANGED <<message, sender, original>>

Refuse(l) ==
  /\ stage = "wire"
  /\ ~Accepts(l, message)
  /\ stage' = "refused"
  /\ service' = l
  /\ UNCHANGED <<message, sender, values, original>>

Forward ==
  /\ stage = "held"
  /\ service \in Emitters
  /\ stage' = "wire"
  /\ sender' = service
  /\ message' = EncodedMessage(service, message.record, message.bare, values)
  /\ UNCHANGED <<service, values, original>>

Next == Forward \/ \E l \in Languages : Accept(l) \/ Refuse(l)

Spec == Init /\ [][Next]_vars
-----------------------------------------------------------------------------
\* Every variable has its type: on the wire a field is present, absent or null,
\* in a service it is present or none.
TypeOK ==
  /\ message.record \in Records
  /\ stage \in {"wire", "held", "refused"}
  /\ sender \in {"client"} \cup Emitters
  /\ service \in {"client"} \cup Languages
  /\ \A x \in DOMAIN message.fields : Present(message.fields[x]) \/ message.fields[x] \in {Absent, Null}
  /\ stage = "held" => \A x \in DOMAIN values : Present(values[x]) \/ values[x] = None

\* No library reads this text in its own way: it is in ASCII, not null, not an
\* empty text for one that may be left out, and no address but a real one.
Unambiguous(f, v) ==
  /\ v.script \in {"ascii", "ip"}
  /\ v # Null
  /\ v = Absent => f.kind # "list"
  /\ f.optional /\ Present(v) /\ f.min > 0 => v.n > 0

\* The four declarations of a record say the same: whether a message is valid
\* does not depend on which service it reaches, where their libraries do not
\* differ, the record has the same shape and a command has its payload, which Go
\* and TypeScript can do without.
VerdictsAgree ==
  stage = "wire" /\ ~message.unknown /\ ~message.bare
    /\ (\A x \in DOMAIN message.fields :
          Unambiguous(FieldsOf("Rust", message.record)[x], message.fields[x]))
    => \A l1, l2 \in Languages :
         Shape(l1, message.record) = Shape(l2, message.record)
           => (Accepts(l1, message) <=> Accepts(l2, message))

\* A service refuses what another one holds as valid and sends on for three
\* reasons only: TypeScript has another shape for the record, or each field that
\* it refuses was sent as null, or has a text that the two count in other units.
RefusalIsExplained ==
  stage = "refused" /\ sender # "client"
    /\ Shape(sender, message.record) = Shape(service, message.record)
    => LET refused == {x \in DOMAIN message.fields :
             ~Passes(service, FieldsOf(service, message.record)[x], message.fields[x])}
       IN  /\ refused # {}
           /\ \A x \in refused :
                LET v == message.fields[x]
                IN v = Null \/ (Present(v) /\ Unit[sender][v.script] # Unit[service][v.script])

\* Whatever services a record has passed through, the last one holds what its
\* first sender sent; only an empty text may have become none, in Go, and none
\* an empty text.
TextSurvives ==
  stage = "held" =>
    \A x \in DOMAIN values :
      LET v == values[x]
          o == original[x]
          empty(w) == ~Present(w) \/ (w.is # "list" /\ w.n = 0)
      IN v = o \/ (empty(v) /\ empty(o))
=============================================================================
