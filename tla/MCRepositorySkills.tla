------------------------- MODULE MCRepositorySkills -------------------------
(***************************************************************************)
(* Roots for RepositorySkills: two expected skills and a name that is not  *)
(* one, each with good files or with one of them changed in one way.       *)
(***************************************************************************)
EXTENDS RepositorySkills, TLC

MCExpected == <<"audit", "delivery">>
MCCommon == {"AGENTS.md"}
MCRequired == ("audit" :> {"provenance"}) @@ ("delivery" :> {"BUB-46"})
Names == {"audit", "delivery", "general"}

Precise == <<"str", [length |-> 80, use |-> TRUE]>>
Front(n, d) == <<"mapping", ("name" :> n) @@ ("description" :> d)>>
GoodFront(s) == Front(<<"str", s>>, Precise)
Body(s) == MCCommon \cup (IF s \in DOMAIN MCRequired THEN MCRequired[s] ELSE {})
Text(todo, front, body) ==
  [kind |-> "text", todo |-> todo, frontmatter |-> front, body |-> body]
SkillText(s) == Text(FALSE, GoodFront(s), Body(s))

Other(s) == IF s = "audit" THEN "delivery" ELSE "audit"

\* Good, absent, not readable, not UTF-8, or a text with one thing changed.
SkillFiles(s) ==
  { SkillText(s), Text(TRUE, GoodFront(s), Body(s)), [kind |-> "absent"],
    [kind |-> "unreadable"], [kind |-> "undecodable"] }
  \cup { Text(FALSE, f, Body(s)) :
           f \in { <<"not_closed">>, <<"not_a_mapping">>,
                   <<"mapping", "name" :> <<"str", s>> >>,
                   Front(<<"str", Other(s)>>, Precise), Front(<<"str", "Audit">>, Precise),
                   Front(<<"list">>, Precise), Front(<<"str", s>>, <<"list">>),
                   Front(<<"str", s>>, <<"str", [length |-> 79, use |-> TRUE]>>),
                   Front(<<"str", s>>, <<"str", [length |-> 80, use |-> FALSE]>>) } }
  \cup { Text(FALSE, GoodFront(s), Body(s) \ {b}) : b \in Body(s) }

Interface(d, n, p) ==
  ("display_name" :> <<"str", d>>) @@ ("short_description" :> <<"str", n>>)
    @@ ("default_prompt" :> <<"str", p>>)
Meta(todo, yaml) == [kind |-> "text", todo |-> todo, yaml |-> yaml]
Of(interface) == <<"mapping", <<"mapping", interface>> >>
MetadataText(s) == Meta(FALSE, Of(Interface("Name", 25, {s})))

MetadataFiles(s) ==
  { MetadataText(s), Meta(TRUE, Of(Interface("Name", 64, {s}))), [kind |-> "absent"],
    [kind |-> "unreadable"], [kind |-> "undecodable"], Meta(FALSE, <<"not_yaml">>),
    Meta(FALSE, <<"mapping", <<"absent">> >>), Meta(FALSE, <<"mapping", <<"other_keys">> >>),
    Meta(FALSE, Of(<<>>)) }
  \cup { Meta(FALSE, Of(i)) :
           i \in { Interface("", 25, {s}), Interface("Name", 24, {s}),
                   Interface("Name", 64, {s}), Interface("Name", 65, {s}),
                   Interface("Name", 25, {Other(s)}) } }

\* One file of a directory is changed, or none is.
MCContents ==
  [ s \in Names |->
      { [skill |-> f, metadata |-> MetadataText(s)] : f \in SkillFiles(s) }
      \cup { [skill |-> SkillText(s), metadata |-> f] : f \in MetadataFiles(s) } ]

\* The contents that an edit chooses from: a file is lost, damaged, broken or repaired.
FewContents ==
  [ s \in Names |->
      { c \in MCContents[s] :
          \/ c.skill.kind # "text" \/ c.metadata.kind \in {"absent", "unreadable"}
          \/ c.skill = Text(FALSE, GoodFront(s), Body(s) \ {"AGENTS.md"})
          \/ c.metadata = Meta(FALSE, Of(<<>>))
          \/ c = [skill |-> SkillText(s), metadata |-> MetadataText(s)] } ]

Good(s) == [skill |-> SkillText(s), metadata |-> MetadataText(s)]

\* Anything in one directory, the other being good, absent or one that is not expected.
MCInitialSkills ==
  { ("audit" :> a) @@ ("delivery" :> Good("delivery")) : a \in MCContents["audit"] }
  \cup { ("audit" :> Good("audit")) @@ ("delivery" :> d) : d \in MCContents["delivery"] }
  \cup { ("audit" :> a) @@ ("general" :> Good("general")) : a \in MCContents["audit"] }
  \cup { "delivery" :> d : d \in FewContents["delivery"] }
=============================================================================
