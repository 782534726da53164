---------------------------- MODULE AuditPayload ----------------------------
(***************************************************************************)
(* AuditPayload (audit/schema.py): from the values of a caller, or from a  *)
(* text, to canonical JSON.  A value is a tree: a function from positions, *)
(* the sequences of steps from its root, to nodes.  A node is a pair of    *)
(* its type and what it has itself: a list its length, a mapping its keys  *)
(* in the order they were put in, anything else its content.  A text is    *)
(* its syntax tree and whether its spelling (white space, escapes, the     *)
(* sign of zero) is the canonical one.                                     *)
(***************************************************************************)
EXTENDS Integers, Sequences

CONSTANTS Key,                      \* the strings used as keys, in sorted order
          Sensitive,                \* those that _is_sensitive_key finds sensitive
          MinInteger, MaxInteger,   \* the 64-bit range, scaled down
          SchemaName,               \* the names that match the pattern
          Schema,                   \* pairs of a name and a version that callers use
          Value, Text,              \* the arguments of from_mapping and of the constructor
          MaxCalls                  \* bound on the calls

KeysOf(node) == { node[2][i] : i \in DOMAIN node[2] }

IsSequence(s) == s \in Seq({ s[i] : i \in DOMAIN s })

Distinct(s) == \A i, j \in DOMAIN s : s[i] = s[j] => i = j

Field(key) == <<"field", key>>
Item(i) == <<"item", i>>

\* The steps from a node to those inside of it
Steps(node) ==
  CASE node[1] \in {"map", "object"} -> { Field(key) : key \in KeysOf(node) }
    [] node[1] \in {"list", "tuple", "array"} -> { Item(i) : i \in 1..node[2] }
    [] OTHER -> {}

Inside(v, p) == { Append(p, s) : s \in Steps(v[p]) }

\* What json and Python's containers guarantee: every node is the root or inside of
\* another, and what a node has inside is there.  A key that is repeated in a text is
\* given one value, which does not matter, for such a text is refused.
IsTree(v) ==
  /\ DOMAIN v = {<<>>} \cup UNION { Inside(v, p) : p \in DOMAIN v }
  /\ \A p \in DOMAIN v :
       /\ IsSequence(p)
       /\ v[p] = <<v[p][1], v[p][2]>>
       /\ v[p][1] \in {"list", "tuple", "array"} => v[p][2] \in Nat
       /\ v[p][1] \in {"map", "object"} => IsSequence(v[p][2])

\* A mapping has a key once.
IsValue(v) ==
  /\ IsTree(v)
  /\ \A p \in DOMAIN v : /\ v[p][1] \notin {"array", "object"}
                         /\ v[p][1] = "map" => Distinct(v[p][2])

IsSyntax(t) == IsTree(t) /\ \A p \in DOMAIN t : t[p][1] \notin {"list", "tuple", "map"}

ASSUME PayloadAssumption ==
  /\ MinInteger \in Int /\ MaxInteger \in Int /\ MaxCalls \in Nat
  /\ IsSequence(Key) /\ Distinct(Key)
  /\ \A v \in Value : IsValue(v)
  /\ \A t \in Text : /\ t = [spelling |-> t.spelling, tree |-> t.tree]
                     /\ t.spelling \in {"canonical", "other", "malformed"}
                     /\ IsSyntax(t.tree)

Redacted == <<"str", "[REDACTED]">>

-----------------------------------------------------------------------------
(* _normalise_json_value visits every node: what it accepts there *)

IsKey(key) == \E i \in DOMAIN Key : Key[i] = key

AcceptsKey(v, p, key) ==
  /\ IsKey(key)
  /\ key \in Sensitive => v[Append(p, Field(key))] = Redacted

AcceptsNode(v, p) ==
  \/ v[p][1] \in {"null", "bool", "str", "list", "tuple"}
  \/ v[p][1] = "int" /\ v[p][2] \in MinInteger..MaxInteger
  \/ v[p][1] = "map" /\ \A key \in KeysOf(v[p]) : AcceptsKey(v, p, key)

\* Slip: the values inside of arrays are not looked at.
Accepts_Objects(v) ==
  \A p \in DOMAIN v : (\A i \in DOMAIN p : p[i][1] = "field") => AcceptsNode(v, p)

Accepts(v) == \A p \in DOMAIN v : AcceptsNode(v, p)

\* sort_keys=True
Sorted(keys) ==
  LET upto[n \in 0..Len(Key)] ==
        IF n = 0 THEN <<>>
        ELSE IF Key[n] \in keys THEN Append(upto[n - 1], Key[n]) ELSE upto[n - 1]
  IN  upto[Len(Key)]

\* What json.dumps writes of a node that is accepted
Written(node) ==
  CASE node[1] \in {"list", "tuple"} -> <<"array", node[2]>>
    [] node[1] = "map" -> <<"object", Sorted(KeysOf(node))>>
    [] OTHER -> node

\* Slip: fields without a value are left out.
Tree_NoNull(v) ==
  LET empty(p) == p # <<>> /\ p[Len(p)][1] = "field" /\ v[p][1] = "null"
      given(p) == LET has(key) == ~empty(Append(p, Field(key))) IN SelectSeq(v[p][2], has)
  IN  [p \in { q \in DOMAIN v : ~empty(q) } |->
         Written(IF v[p][1] = "map" THEN <<"map", given(p)>> ELSE v[p])]

Tree(v) == [p \in DOMAIN v |-> Written(v[p])]

CanonicalJson(v) == [spelling |-> "canonical", tree |-> Tree(v)]

-----------------------------------------------------------------------------
(* _parse_json *)

\* Floats and the constants NaN and Infinity are refused, and repeated keys.
Parses(t) ==
  \A p \in DOMAIN t : /\ t[p][1] # "float"
                      /\ t[p][1] = "object" => Distinct(t[p][2])

Parsed(t) ==
  [p \in DOMAIN t |-> CASE t[p][1] = "array"  -> <<"list", t[p][2]>>
                        [] t[p][1] = "object" -> <<"map", t[p][2]>>
                        [] OTHER              -> t[p]]

-----------------------------------------------------------------------------

VARIABLES created,     \* history: what payloads were made of, and those payloads
          answer,      \* of the last call: "none", "ok" or "validation"
          calls        \* the number of calls so far

payloadVars == <<created, answer, calls>>

PayloadInit == created = {} /\ answer = "none" /\ calls = 0

\* The payloads that exist: their schema and canonical JSON.
payloads == { c.payload : c \in created }

\* Slip: what parses is kept as it is written.
Constructs_AnySpelling(schema, text) ==
  /\ schema[1] \in SchemaName /\ schema[2] > 0
  /\ text.spelling # "malformed" /\ Parses(text.tree) /\ text.tree[<<>>][1] = "object"
  /\ Accepts(Parsed(text.tree))

\* AuditPayload.__post_init__ raises nothing.
Constructs(schema, text) ==
  /\ schema[1] \in SchemaName /\ schema[2] > 0
  /\ text.spelling # "malformed" /\ Parses(text.tree) /\ text.tree[<<>>][1] = "object"
  /\ Accepts(Parsed(text.tree))
  /\ text = CanonicalJson(Parsed(text.tree))

NewPayload(schema, text) == [schema |-> schema, canonical_json |-> text]

\* A call makes a payload of the values, or raises AuditValidationError.
Make(accepted, values, payload) ==
  /\ calls < MaxCalls /\ calls' = calls + 1
  /\ \/ ~accepted /\ answer' = "validation" /\ UNCHANGED created
     \/ /\ accepted /\ answer' = "ok"
        /\ created' = created \cup {[values |-> values, payload |-> payload]}

\* AuditPayload(...) of a text, as AuditEvent.from_json calls it.
Construct(schema, text) ==
  Make(Constructs(schema, text), Parsed(text.tree), NewPayload(schema, text))

\* AuditPayload.from_mapping, which checks the values, and its text once more.
FromMapping(schema, values) ==
  LET text == CanonicalJson(values) IN
  Make(values[<<>>][1] = "map" /\ Accepts(values) /\ Constructs(schema, text),
       values, NewPayload(schema, text))

\* AuditPayload.to_mapping; a caller may make a new payload of the copy.
ToMapping(p) == Parsed(p.canonical_json.tree)

DoConstruct == \E schema \in Schema : \E text \in Text : Construct(schema, text)
DoFromMapping == \E schema \in Schema : \E values \in Value : FromMapping(schema, values)
DoCopy == \E p \in payloads : FromMapping(p.schema, ToMapping(p))

PayloadNext == DoConstruct \/ DoFromMapping \/ DoCopy

PayloadSpec == PayloadInit /\ [][PayloadNext]_payloadVars

-----------------------------------------------------------------------------
(* Properties *)

\* A value up to what JSON tells apart: no order of keys, no tuples.
Content(v) ==
  [p \in DOMAIN v |-> CASE v[p][1] \in {"list", "tuple"} -> <<"list", v[p][2]>>
                        [] v[p][1] = "map" -> <<"map", KeysOf(v[p])>>
                        [] OTHER -> v[p]]

\* docs/audit.md: "Sensitive-looking keys are rejected unless their value is exactly
\* [REDACTED]", whichever way the payload came about and however deep the key is.
SecretsAreRedacted ==
  \A p \in payloads : \A position \in DOMAIN ToMapping(p) : \A key \in Sensitive :
    position # <<>> /\ position[Len(position)] = Field(key) => ToMapping(p)[position] = Redacted

\* One text per content: payloads are equal exactly when what they were made of says
\* the same and the schema is the same, whichever way they came about, so that equal
\* evidence has one digest and no evidence is lost on the way to it.
OneTextPerContent ==
  \A c, d \in created :
    c.payload = d.payload <=>
      c.payload.schema = d.payload.schema /\ Content(c.values) = Content(d.values)

\* to_mapping gives back what the constructor or from_mapping accepted: a copy that is
\* made a payload again is accepted and is the payload it was copied from.
CopyIsThePayload ==
  [][\A p \in payloads :
       FromMapping(p.schema, ToMapping(p)) => answer' = "ok" /\ payloads' = payloads]_payloadVars
=============================================================================
