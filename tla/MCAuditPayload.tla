--------------------------- MODULE MCAuditPayload ---------------------------
(* Values and texts with up to three levels, one key of each kind. *)
EXTENDS AuditPayload

MCKey == <<"a", "token">>
MCMinInteger == -1
MCSchema == { <<"s", 1>>, <<"s", 0>>, <<"S", 1>> }

\* The tree of a node with trees inside, inside[s] after the step s
Node(node, inside) ==
  [p \in {<<>>} \cup UNION { { <<s>> \o q : q \in DOMAIN inside[s] } : s \in DOMAIN inside } |->
     IF p = <<>> THEN node ELSE inside[p[1]][Tail(p)]]

Atom(node) == [p \in {<<>>} |-> node]
One(kind, v) == Node(<<kind, 1>>, [s \in {Item(1)} |-> v])
FieldOf(kind, key, v) == Node(<<kind, <<key>>>>, [s \in {Field(key)} |-> v])
\* Fields k and l in that order; if they are one key, then w is its value.
FieldsOf(kind, k, v, l, w) ==
  Node(<<kind, <<k, l>>>>, [s \in {Field(k), Field(l)} |-> IF s = Field(l) THEN w ELSE v])

Leaf == { Atom(n) : n \in { <<"null", 0>>, <<"str", "x">>, Redacted, <<"int", -2>>, <<"int", 1>>,
                            <<"int", 2>>, <<"float", 0>>, <<"bool", "True">> } }
Small == { Atom(n) : n \in { <<"str", "x">>, Redacted, <<"int", 1>> } }

Lists(kind, items) == { Atom(<<kind, 0>>) } \cup { One(kind, v) : v \in items }

\* "1" stands for a key that is no string.
Maps(items) ==
  { Atom(<<"map", <<>> >>) }
  \cup { FieldOf("map", k, v) : k \in {"a", "token", "1"}, v \in items }

Pairs(kind, items) ==
  { FieldsOf(kind, k, v, l, w) : k, l \in {"a", "token"}, v, w \in items }

Second == Lists("list", Leaf) \cup Lists("tuple", Small) \cup Maps(Leaf)

MCValue ==
  { v \in Leaf \cup Maps(Leaf \cup Second) \cup Pairs("map", Small)
          \cup Maps(Lists("list", Maps(Small))) : IsValue(v) }

JsonLeaf == { Atom(n) : n \in { <<"null", 0>>, <<"str", "x">>, Redacted, <<"int", 1>>,
                                <<"int", 2>>, <<"float", 0>> } }
Arrays(items) == { One("array", v) : v \in items }
Objects(items) == { FieldOf("object", k, v) : k \in {"a", "token"}, v \in items }

MCText ==
  { [spelling |-> "canonical", tree |-> t] :
      t \in JsonLeaf \cup Objects(JsonLeaf) \cup Pairs("object", Small)
            \cup Objects(Arrays(JsonLeaf) \cup Objects(JsonLeaf)
                         \cup Pairs("object", {Atom(Redacted)}))
            \cup Objects(Arrays(Objects(Small))) }
  \cup { [spelling |-> s, tree |-> t] : s \in {"other", "malformed"}, t \in Objects(Small) }
=============================================================================
