-------------------------- MODULE RepositorySkills --------------------------
(***************************************************************************)
(* scripts/check_repository_skills.py: the check of the skills root, step  *)
(* by step, while somebody may edit it.  A directory of the root holds a   *)
(* SKILL.md and a metadata file, and a file is a record of what the check  *)
(* tells apart: its kind, "absent", "unreadable" (it cannot be opened),    *)
(* "undecodable" (it is not UTF-8) or "text", and what the text says.      *)
(***************************************************************************)
EXTENDS Sequences, Integers

CONSTANTS
  ExpectedSkill,     \* EXPECTED_SKILLS, a sequence of names
  OtherName,         \* names of directories that are not expected
  HyphenCase,        \* the names that SKILL_NAME_PATTERN matches
  CommonFragment,    \* COMMON_BODY_FRAGMENTS
  RequiredFragment,  \* REQUIRED_BODY_FRAGMENTS, by skill
  InitialSkills,     \* what the root may hold at first: functions from names to contents
  Contents,          \* what an edit may put in a directory, by name
  MaxEdits           \* bound on the edits during a check

VARIABLES
  root,        \* whether the skills root exists
  skills,      \* what its directories hold
  pc, next,    \* where the check is, and at which expected skill
  actual,      \* actual_skills
  violations,  \* <<directory, file, message>>; a missing fragment is its own message
  edits,       \* edits so far
  lasting,     \* history: what has been wrong ever since the check started
  ever         \* history: what has been wrong at some moment of it

vars == <<root, skills, pc, next, actual, violations, edits, lasting, ever>>

Expected == { ExpectedSkill[i] : i \in DOMAIN ExpectedSkill }
FileOf(skill, file) ==
  IF skill \in DOMAIN skills THEN skills[skill][file] ELSE [kind |-> "absent"]

\* What the files that InitialSkills and Contents give may be: a value that is a string
\* says what the check looks at, of a description its length and whether it says when to
\* use the skill, of a short description its length.
NoText(f) == f.kind \in {"absent", "unreadable", "undecodable"}

SkillFileOk(f) ==
  \/ NoText(f)
  \/ /\ f.kind = "text" /\ f.todo \in BOOLEAN
     /\ f.frontmatter[1] = "mapping" =>
          \A k \in DOMAIN f.frontmatter[2] :
            LET v == f.frontmatter[2][k] IN
              v[1] = "str" =>
                /\ v = <<"str", v[2]>>
                /\ k = "description" => v[2] \in [length : Nat, use : BOOLEAN]

MetadataOk(f) ==
  \/ NoText(f)
  \/ /\ f.kind = "text" /\ f.todo \in BOOLEAN
     /\ f.yaml[1] = "mapping" /\ f.yaml[2][1] = "mapping" =>
          LET short == f.yaml[2][2]["short_description"] IN
            "short_description" \in DOMAIN f.yaml[2][2] /\ short[1] = "str" => short[2] \in Nat

ContentOk(c) == SkillFileOk(c.skill) /\ MetadataOk(c.metadata)

ASSUME ExpectedAssumption == ExpectedSkill \in Seq(HyphenCase) /\ Len(ExpectedSkill) > 0

ASSUME ContentsAssumption ==
  /\ \A d \in Expected \cup OtherName : \A c \in Contents[d] : ContentOk(c)
  /\ \A r \in InitialSkills : \A d \in DOMAIN r : ContentOk(r[d])

-----------------------------------------------------------------------------
(* What the check finds in a text *)

\* The names of the conditions that hold.
Holding(condition) == { name \in DOMAIN condition : condition[name] }

\* Slip: a text without fields is not looked at further.
SkillFlaws_NoFields(skill, text) ==
  IF text.frontmatter[1] # "mapping" THEN Holding([todo |-> text.todo])
  ELSE (CommonFragment \cup RequiredFragment[skill]) \ text.body

\* A text whose frontmatter cannot be parsed is judged as one without fields or body.
SkillFlaws(skill, text) ==
  LET parsed == text.frontmatter[1] = "mapping"
      fields == IF parsed THEN text.frontmatter[2] ELSE <<>>
      body == IF parsed THEN text.body ELSE {}
      IsString(f) == f \in DOMAIN fields /\ fields[f][1] = "str"
  IN ((CommonFragment \cup RequiredFragment[skill]) \ body) \cup Holding(
       [ todo             |-> text.todo,
         frontmatter      |-> ~parsed,
         fields           |-> DOMAIN fields # {"name", "description"},
         name_type        |-> ~IsString("name"),
         name_match       |-> ~IsString("name") \/ fields["name"][2] # skill,
         name_case        |-> IsString("name") /\ fields["name"][2] \notin HyphenCase,
         description_type |-> ~IsString("description"),
         description      |-> \/ ~IsString("description")
                              \/ fields["description"][2].length < 80
                              \/ ~fields["description"][2].use ])

\* The metadata is a mapping whose interface is a mapping that holds three strings, under
\* keys that are strings ("other_keys" when one is not).
MetadataFlaws(skill, text) ==
  LET IsString(interface, f) == f \in DOMAIN interface /\ interface[f][1] = "str" IN
  Holding([todo |-> text.todo]) \cup
  CASE text.yaml[1] # "mapping" -> {"yaml"}
    [] text.yaml[1] = "mapping" /\ text.yaml[2][1] \notin {"mapping", "other_keys"} -> {"interface"}
    [] text.yaml[1] = "mapping" /\ text.yaml[2][1] = "other_keys" -> {"interface_keys"}
    [] OTHER -> LET interface == text.yaml[2][2] IN Holding(
       [ display_name      |-> \/ ~IsString(interface, "display_name")
                               \/ interface["display_name"][2] = "",
         short_description |-> \/ ~IsString(interface, "short_description")
                               \/ interface["short_description"][2] \notin 25..64,
         default_prompt    |-> \/ ~IsString(interface, "default_prompt")
                               \/ skill \notin interface["default_prompt"][2] ])

-----------------------------------------------------------------------------
(* What is wrong with the root, whatever the check finds *)

\* A SKILL.md that docs/skills.md and BUB-28 ask for: named as its directory, with a
\* description of when to use it and every fragment of the workflow.
GoodSkillFile(skill, f) ==
  /\ f.kind = "text" /\ ~f.todo
  /\ f.frontmatter[1] = "mapping"
  /\ DOMAIN f.frontmatter[2] = {"name", "description"}
  /\ f.frontmatter[2]["name"] = <<"str", skill>>
  /\ LET d == f.frontmatter[2]["description"] IN d[1] = "str" /\ d[2].length >= 80 /\ d[2].use
  /\ CommonFragment \cup RequiredFragment[skill] \subseteq f.body

GoodMetadata(skill, f) ==
  /\ f.kind = "text" /\ ~f.todo
  /\ f.yaml[1] = "mapping" /\ f.yaml[2][1] = "mapping"
  /\ LET interface == f.yaml[2][2] IN
       /\ {"display_name", "short_description", "default_prompt"} \subseteq DOMAIN interface
       /\ interface["display_name"][1] = "str" /\ interface["display_name"][2] # ""
       /\ interface["short_description"][1] = "str"
       /\ interface["short_description"][2] >= 25 /\ interface["short_description"][2] <= 64
       /\ interface["default_prompt"][1] = "str" /\ skill \in interface["default_prompt"][2]

\* The files of expected skills that are not good, and the directories that are not
\* expected.
Wrong ==
  { <<s, "SKILL.md">> : s \in { e \in Expected : ~GoodSkillFile(e, FileOf(e, "skill")) } }
  \cup { <<s, "openai.yaml">> : s \in { e \in Expected : ~GoodMetadata(e, FileOf(e, "metadata")) } }
  \cup { <<d, "directory">> : d \in DOMAIN skills \ Expected }

-----------------------------------------------------------------------------
(* Steps of the check *)

Init ==
  /\ root \in BOOLEAN
  /\ skills \in IF root THEN InitialSkills ELSE { <<>> }
  /\ pc = "start" /\ next = 1
  /\ actual = {} /\ violations = {}
  /\ edits = 0
  /\ lasting = Wrong /\ ever = Wrong

\* The root is looked for, before its directories are listed.
FindRoot ==
  /\ pc = "start"
  /\ \/ root /\ pc' = "list" /\ UNCHANGED violations
     \/ ~root /\ pc' = "returned" /\ violations' = {<<"root", "directory", "missing">>}
  /\ UNCHANGED <<root, skills, next, actual, edits, lasting, ever>>

\* The names in the root are read once, in one step although iterdir and the is_dir of
\* each name are several; if the root has gone, iterdir raises.
ListSkills ==
  /\ pc = "list"
  /\ \/ ~root /\ pc' = "raised" /\ UNCHANGED <<actual, violations>>
     \/ /\ root
        /\ actual' = DOMAIN skills
        /\ violations' = { <<s, "directory", "missing">> : s \in Expected \ DOMAIN skills }
             \cup { <<d, "directory", "unexpected">> : d \in DOMAIN skills \ Expected }
        /\ pc' = "find_skill"
  /\ UNCHANGED <<root, skills, next, edits, lasting, ever>>

Report(file, messages) ==
  violations' = violations \cup { <<ExpectedSkill[next], file, m>> : m \in messages }

\* The validation of a skill ends, and the next one begins.
NextSkill ==
  /\ next' = next + 1
  /\ pc' = IF next < Len(ExpectedSkill) THEN "find_skill" ELSE "returned"

\* is_file, on the next skill that the root held when it was listed.
FindSkill ==
  LET skill == ExpectedSkill[next] IN
  /\ pc = "find_skill"
  /\ \/ skill \notin actual /\ NextSkill /\ UNCHANGED violations
     \/ /\ skill \in actual /\ FileOf(skill, "skill").kind = "absent"
        /\ Report("SKILL.md", {"missing"}) /\ NextSkill
     \/ /\ skill \in actual /\ FileOf(skill, "skill").kind # "absent"
        /\ pc' = "read_skill" /\ UNCHANGED <<next, violations>>
  /\ UNCHANGED <<root, skills, actual, edits, lasting, ever>>

\* Slip: a file that cannot be read ends the whole check.
ReadSkill_ReturnsEarly ==
  LET skill == ExpectedSkill[next]
      text == FileOf(skill, "skill")
  IN
  /\ pc = "read_skill"
  /\ \/ /\ text.kind # "text" /\ Report("SKILL.md", {"unreadable"})
        /\ pc' = "returned"
     \/ text.kind = "text" /\ Report("SKILL.md", SkillFlaws(skill, text)) /\ pc' = "find_metadata"
  /\ UNCHANGED <<root, skills, next, actual, edits, lasting, ever>>

\* The file may have gone since is_file.  Bytes that are not UTF-8 raise a ValueError,
\* which nothing here catches.
ReadSkill ==
  LET skill == ExpectedSkill[next]
      text == FileOf(skill, "skill")
  IN
  /\ pc = "read_skill"
  /\ \/ text.kind = "undecodable" /\ pc' = "raised" /\ UNCHANGED <<next, violations>>
     \/ text.kind \in {"absent", "unreadable"} /\ Report("SKILL.md", {"unreadable"}) /\ NextSkill
     \/ /\ text.kind = "text" /\ Report("SKILL.md", SkillFlaws(skill, text))
        /\ pc' = "find_metadata" /\ UNCHANGED next
  /\ UNCHANGED <<root, skills, actual, edits, lasting, ever>>

FindMetadata ==
  /\ pc = "find_metadata"
  /\ \/ /\ FileOf(ExpectedSkill[next], "metadata").kind = "absent"
        /\ Report("openai.yaml", {"missing"}) /\ NextSkill
     \/ /\ FileOf(ExpectedSkill[next], "metadata").kind # "absent"
        /\ pc' = "read_metadata" /\ UNCHANGED <<next, violations>>
  /\ UNCHANGED <<root, skills, actual, edits, lasting, ever>>

ReadMetadata ==
  LET skill == ExpectedSkill[next]
      text == FileOf(skill, "metadata")
  IN
  /\ pc = "read_metadata"
  /\ \/ text.kind = "undecodable" /\ pc' = "raised" /\ UNCHANGED <<next, violations>>
     \/ text.kind \in {"absent", "unreadable"} /\ Report("openai.yaml", {"unreadable"}) /\ NextSkill
     \/ text.kind = "text" /\ Report("openai.yaml", MetadataFlaws(skill, text)) /\ NextSkill
  /\ UNCHANGED <<root, skills, actual, edits, lasting, ever>>

\* Somebody edits the root: replaces what a directory holds, removes a directory, or
\* removes the root.
Edit ==
  /\ pc \notin {"returned", "raised"} /\ edits < MaxEdits /\ root
  /\ edits' = edits + 1
  /\ \/ \E d \in Expected \cup OtherName : \E c \in Contents[d] :
          /\ root' = root
          /\ skills' = [ n \in DOMAIN skills \cup {d} |-> IF n = d THEN c ELSE skills[n] ]
     \/ \E d \in DOMAIN skills :
          root' = root /\ skills' = [ n \in DOMAIN skills \ {d} |-> skills[n] ]
     \/ root' = FALSE /\ skills' = <<>>
  /\ lasting' = lasting \cap Wrong' /\ ever' = ever \cup Wrong'
  /\ UNCHANGED <<pc, next, actual, violations>>

Next ==
  \/ FindRoot \/ ListSkills \/ FindSkill \/ ReadSkill \/ FindMetadata \/ ReadMetadata
  \/ Edit

Spec == Init /\ [][Next]_vars

-----------------------------------------------------------------------------
(* Properties *)

\* The skills, and the root, that the check reports.
Reported == { v[1] : v \in violations }

\* A report is complete skill by skill: the early returns within one skill, and the
\* flaws of another, hide no skill that had a flaw all along.
LastingFlawsAreReported ==
  pc = "returned" => \A w \in lasting : w[1] \in Reported \/ "root" \in Reported

\* In a root that nobody edits, what is reported is what is wrong, file by file: only
\* the metadata of a skill whose SKILL.md cannot be read is not looked at.
ReportIsExact ==
  pc = "returned" /\ edits = 0 /\ root =>
    \A s \in Expected :
      /\ <<s, "SKILL.md">> \in ever <=>
           \E v \in violations : v[1] = s /\ v[2] \in {"SKILL.md", "directory"}
      /\ FileOf(s, "skill").kind = "text" =>
           (<<s, "openai.yaml">> \in ever <=>
              \E v \in violations : v[1] = s /\ v[2] = "openai.yaml")

=============================================================================
