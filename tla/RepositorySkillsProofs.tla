----------------------- MODULE RepositorySkillsProofs -----------------------
(***************************************************************************)
(* Proofs of RepositorySkills for any expected skills, fragments, contents *)
(* and any number of edits during a check.                                 *)
(***************************************************************************)
EXTENDS RepositorySkills, TLAPS

-----------------------------------------------------------------------------
(* What is found in a text is what is wrong with it *)

\* A condition of a record is held by name.
LEMMA HoldingIsHolding ==
  ASSUME NEW condition
  PROVE  Holding(condition) = {} <=> \A name \in DOMAIN condition : ~condition[name]
BY DEF Holding

\* The validation of a SKILL.md finds something exactly if it is not a good one.
LEMMA SkillFlawsAreFlaws ==
  ASSUME NEW s \in Expected, NEW f, SkillFileOk(f), f.kind = "text"
  PROVE  SkillFlaws(s, f) = {} <=> GoodSkillFile(s, f)
<1> DEFINE parsed == f.frontmatter[1] = "mapping"
           fields == IF parsed THEN f.frontmatter[2] ELSE <<>>
           body == IF parsed THEN f.body ELSE {}
           IsString(k) == k \in DOMAIN fields /\ fields[k][1] = "str"
           fragments == CommonFragment \cup RequiredFragment[s]
           Vague == \/ ~IsString("description")
                    \/ fields["description"][2].length < 80
                    \/ ~fields["description"][2].use
           conditions ==
             [ todo             |-> f.todo,
               frontmatter      |-> ~parsed,
               fields           |-> DOMAIN fields # {"name", "description"},
               name_type        |-> ~IsString("name"),
               name_match       |-> ~IsString("name") \/ fields["name"][2] # s,
               name_case        |-> IsString("name") /\ fields["name"][2] \notin HyphenCase,
               description_type |-> ~IsString("description"),
               description      |-> Vague ]
<1>1. SkillFlaws(s, f) = (fragments \ body) \cup Holding(conditions)
  BY DEF SkillFlaws
<1>2. Holding(conditions) = {} <=>
        /\ ~f.todo /\ parsed
        /\ DOMAIN fields = {"name", "description"}
        /\ IsString("name") /\ fields["name"][2] = s /\ fields["name"][2] \in HyphenCase
        /\ ~Vague
  <2> HIDE DEF parsed, fields, IsString, Vague
  <2>1. Holding(conditions) = {} <=> \A name \in DOMAIN conditions : ~conditions[name]
    BY HoldingIsHolding
  <2>2. DOMAIN conditions = { "todo", "frontmatter", "fields", "name_type", "name_match",
                              "name_case", "description_type", "description" }
    OBVIOUS
  <2>3. ~Vague => IsString("description")
    BY DEF Vague
  <2>4. /\ conditions["todo"] = f.todo
        /\ conditions["frontmatter"] = ~parsed
        /\ conditions["fields"] = (DOMAIN fields # {"name", "description"})
        /\ conditions["name_type"] = ~IsString("name")
    OBVIOUS
  <2>5. /\ conditions["name_match"] = (~IsString("name") \/ fields["name"][2] # s)
        /\ conditions["name_case"] =
             (IsString("name") /\ fields["name"][2] \notin HyphenCase)
        /\ conditions["description_type"] = ~IsString("description")
        /\ conditions["description"] = Vague
    OBVIOUS
  <2> HIDE DEF conditions
  <2> QED BY <2>1, <2>2, <2>3, <2>4, <2>5
<1>3. s \in HyphenCase
  BY ExpectedAssumption DEF Expected
<1>4. ASSUME ~f.todo, parsed, DOMAIN fields = {"name", "description"}
      PROVE  /\ IsString("name") /\ fields["name"][2] = s <=> fields["name"] = <<"str", s>>
             /\ ~Vague <=> LET d == fields["description"]
                           IN d[1] = "str" /\ d[2].length >= 80 /\ d[2].use
  <2>1. \A k \in {"name", "description"} :
          fields[k][1] = "str" =>
            /\ fields[k] = <<"str", fields[k][2]>>
            /\ k = "description" => fields[k][2] \in [length : Nat, use : BOOLEAN]
    BY <1>4 DEF SkillFileOk, NoText
  <2> QED BY <1>4, <2>1
<1>5. GoodSkillFile(s, f) <=>
        /\ ~f.todo /\ parsed
        /\ DOMAIN fields = {"name", "description"}
        /\ fields["name"] = <<"str", s>>
        /\ LET d == fields["description"] IN d[1] = "str" /\ d[2].length >= 80 /\ d[2].use
        /\ fragments \subseteq body
  BY DEF GoodSkillFile
<1> HIDE DEF parsed, fields, IsString, Vague, body, fragments, conditions
<1> QED BY <1>1, <1>2, <1>3, <1>4, <1>5

\* The validation of a metadata file finds something exactly if it is not a good one.
LEMMA MetadataFlawsAreFlaws ==
  ASSUME NEW s \in Expected, NEW f, MetadataOk(f), f.kind = "text"
  PROVE  MetadataFlaws(s, f) = {} <=> GoodMetadata(s, f)
<1> DEFINE todo == Holding([todo |-> f.todo])
           interface == f.yaml[2][2]
           IsString(k) == k \in DOMAIN interface /\ interface[k][1] = "str"
           Unnamed == ~IsString("display_name") \/ interface["display_name"][2] = ""
           Lengthy == \/ ~IsString("short_description")
                      \/ interface["short_description"][2] \notin 25 .. 64
           Idle == ~IsString("default_prompt") \/ s \notin interface["default_prompt"][2]
           conditions == [ display_name |-> Unnamed, short_description |-> Lengthy,
                           default_prompt |-> Idle ]
<1>1. todo = {} <=> ~f.todo
  BY HoldingIsHolding
<1>2. CASE f.yaml[1] # "mapping"
  <2>1. MetadataFlaws(s, f) = todo \cup {"yaml"}
    BY <1>2 DEF MetadataFlaws
  <2> QED BY <1>2, <2>1 DEF GoodMetadata
<1>3. CASE f.yaml[1] = "mapping" /\ f.yaml[2][1] # "mapping"
  <2>1. \/ MetadataFlaws(s, f) = todo \cup {"interface"}
        \/ MetadataFlaws(s, f) = todo \cup {"interface_keys"}
    <3>1. CASE f.yaml[2][1] = "other_keys"
      BY <1>3, <3>1 DEF MetadataFlaws
    <3>2. CASE f.yaml[2][1] # "other_keys"
      BY <1>3, <3>2 DEF MetadataFlaws
    <3> QED BY <3>1, <3>2
  <2> QED BY <1>3, <2>1 DEF GoodMetadata
<1>4. CASE f.yaml[1] = "mapping" /\ f.yaml[2][1] = "mapping"
  <2>1. MetadataFlaws(s, f) = todo \cup Holding(conditions)
    BY <1>4 DEF MetadataFlaws
  <2>2. Holding(conditions) = {} <=> ~Unnamed /\ ~Lengthy /\ ~Idle
    <3> HIDE DEF Unnamed, Lengthy, Idle
    <3>1. Holding(conditions) = {} <=> \A name \in DOMAIN conditions : ~conditions[name]
      BY HoldingIsHolding
    <3>2. DOMAIN conditions = {"display_name", "short_description", "default_prompt"}
      OBVIOUS
    <3> QED BY <3>1, <3>2
  <2>3. IsString("short_description") => interface["short_description"][2] \in Nat
    BY <1>4 DEF MetadataOk, NoText
  <2>4. GoodMetadata(s, f) <=> ~f.todo /\ ~Unnamed /\ ~Lengthy /\ ~Idle
    <3>1. ~Lengthy <=> /\ IsString("short_description")
                       /\ interface["short_description"][2] >= 25
                       /\ interface["short_description"][2] <= 64
      BY <2>3
    <3>2. GoodMetadata(s, f) <=>
            /\ ~f.todo
            /\ {"display_name", "short_description", "default_prompt"} \subseteq DOMAIN interface
            /\ interface["display_name"][1] = "str" /\ interface["display_name"][2] # ""
            /\ interface["short_description"][1] = "str"
            /\ interface["short_description"][2] >= 25
            /\ interface["short_description"][2] <= 64
            /\ interface["default_prompt"][1] = "str"
            /\ s \in interface["default_prompt"][2]
      BY <1>4 DEF GoodMetadata
    <3> HIDE DEF interface, Lengthy
    <3> QED BY <3>1, <3>2
  <2> HIDE DEF todo, interface, IsString, Unnamed, Lengthy, Idle, conditions
  <2> QED BY <1>1, <2>1, <2>2, <2>4
<1> QED BY <1>2, <1>3, <1>4
-----------------------------------------------------------------------------
(* The invariant *)

Reading == {"find_skill", "read_skill", "find_metadata", "read_metadata"}

\* The check has listed the root and has not been ended by an exception.
Underway == pc \in Reading \/ (pc = "returned" /\ next > Len(ExpectedSkill))

\* A violation of a skill in one of some files.
Told(s, files) == \E v \in violations : v[1] = s /\ v[2] \in files

\* A check that returns before the last skill has not found the root.
CheckType ==
  /\ pc \in {"start", "list", "returned", "raised"} \cup Reading
  /\ next \in Nat \ {0}
  /\ pc \in {"start", "list"} => next = 1
  /\ pc \in Reading => next \in DOMAIN ExpectedSkill
  /\ pc = "returned" /\ ~(next > Len(ExpectedSkill)) => ~root /\ Told("root", {"directory"})
  /\ edits \in Nat
  /\ \A d \in DOMAIN skills : ContentOk(skills[d])

\* What has been wrong ever since is wrong now, and without edits all that is wrong has
\* been.
History == lasting \subseteq Wrong /\ (edits = 0 => lasting = Wrong /\ ever = Wrong)

\* Every directory that the listing found missing or unexpected is reported.
Listed ==
  Underway =>
    /\ \A s \in Expected \ actual : Told(s, {"directory"})
    /\ \A w \in lasting : w[2] = "directory" => Told(w[1], {"directory"})
    /\ edits = 0 => actual = DOMAIN skills

SkillDone(s) == <<s, "SKILL.md">> \in lasting => Told(s, {"SKILL.md", "directory"})

\* A skill whose validation has ended has its lasting flaws reported.
Finished(s) ==
  /\ SkillDone(s)
  /\ <<s, "openai.yaml">> \in lasting => Told(s, {"SKILL.md", "openai.yaml", "directory"})
  /\ edits = 0 /\ FileOf(s, "skill").kind = "text" /\ <<s, "openai.yaml">> \in lasting =>
       Told(s, {"openai.yaml"})

Complete == Underway => \A i \in 1 .. next - 1 : Finished(ExpectedSkill[i])

Halfway ==
  pc \in {"find_metadata", "read_metadata"} =>
    \A s \in Expected : s = ExpectedSkill[next] => SkillDone(s)

\* Without edits, whatever is reported is wrong.
Justified ==
  edits = 0 /\ root =>
    \A v \in violations :
      /\ v[2] \in {"SKILL.md", "openai.yaml"} => <<v[1], v[2]>> \in Wrong
      /\ v[2] = "directory" /\ v[1] \in Expected => v[1] \notin DOMAIN skills

SkillsInv ==
  /\ CheckType /\ History /\ Listed /\ Complete /\ Halfway /\ Justified

-----------------------------------------------------------------------------
(* What is wrong, and what a step leaves alone *)

LEMMA WrongFiles ==
  ASSUME NEW s \in Expected
  PROVE  /\ <<s, "SKILL.md">> \in Wrong <=> ~GoodSkillFile(s, FileOf(s, "skill"))
         /\ <<s, "openai.yaml">> \in Wrong <=> ~GoodMetadata(s, FileOf(s, "metadata"))
<1> DEFINE S == { <<e, "SKILL.md">> :
                    e \in { x \in Expected : ~GoodSkillFile(x, FileOf(x, "skill")) } }
           M == { <<e, "openai.yaml">> :
                    e \in { x \in Expected : ~GoodMetadata(x, FileOf(x, "metadata")) } }
           D == { <<d, "directory">> : d \in DOMAIN skills \ Expected }
<1>1. Wrong = S \cup M \cup D
  BY DEF Wrong
<1>2. <<s, "SKILL.md">> \in S <=> ~GoodSkillFile(s, FileOf(s, "skill"))
  OBVIOUS
<1>3. <<s, "openai.yaml">> \in M <=> ~GoodMetadata(s, FileOf(s, "metadata"))
  OBVIOUS
<1>4. /\ <<s, "SKILL.md">> \notin M /\ <<s, "SKILL.md">> \notin D
      /\ <<s, "openai.yaml">> \notin S /\ <<s, "openai.yaml">> \notin D
  OBVIOUS
<1> QED BY <1>1, <1>2, <1>3, <1>4

LEMMA WrongKinds ==
  ASSUME NEW w \in Wrong
  PROVE  \/ \E s \in Expected : w = <<s, "SKILL.md">>
         \/ \E s \in Expected : w = <<s, "openai.yaml">>
         \/ \E d \in DOMAIN skills \ Expected : w = <<d, "directory">>
BY DEF Wrong

LEMMA WrongStays ==
  ASSUME skills' = skills
  PROVE  Wrong' = Wrong
BY DEF Wrong, FileOf, GoodSkillFile, GoodMetadata

LEMMA FileStays ==
  ASSUME skills' = skills, NEW s, NEW file
  PROVE  FileOf(s, file)' = FileOf(s, file)
BY DEF FileOf

\* The files of an expected skill are files of the model.
LEMMA FilesOk ==
  ASSUME CheckType, NEW s
  PROVE  SkillFileOk(FileOf(s, "skill")) /\ MetadataOk(FileOf(s, "metadata"))
BY DEF CheckType, FileOf, ContentOk, SkillFileOk, MetadataOk, NoText

LEMMA ExpectedFacts ==
  /\ DOMAIN ExpectedSkill = 1 .. Len(ExpectedSkill)
  /\ Len(ExpectedSkill) \in Nat /\ Len(ExpectedSkill) > 0
  /\ \A i \in 1 .. Len(ExpectedSkill) : ExpectedSkill[i] \in Expected
  /\ \A s \in Expected : \E i \in 1 .. Len(ExpectedSkill) : s = ExpectedSkill[i]
BY ExpectedAssumption DEF Expected

\* A skill that is told of stays told of.
LEMMA ToldStays ==
  ASSUME violations \subseteq violations', NEW s, NEW files, Told(s, files)
  PROVE  Told(s, files)'
BY DEF Told

LEMMA ToldMore ==
  ASSUME NEW s, NEW few, NEW many, few \subseteq many, Told(s, few)
  PROVE  Told(s, many)
BY DEF Told

\* What a check keeps while nothing but it acts.
Kept == <<root, skills, actual, edits, lasting, ever>>

LEMMA FinishedStays ==
  ASSUME violations \subseteq violations', skills' = skills, edits' = edits,
         lasting' = lasting, NEW s, Finished(s)
  PROVE  Finished(s)'
<1>1. FileOf(s, "skill")' = FileOf(s, "skill")
  BY FileStays
<1> QED
  BY <1>1, ToldStays DEF Finished, SkillDone

LEMMA SkillDoneStays ==
  ASSUME violations \subseteq violations', lasting' = lasting, NEW s, SkillDone(s)
  PROVE  SkillDone(s)'
BY ToldStays DEF SkillDone

-----------------------------------------------------------------------------
(* The steps of the check *)

\* A step of the validation of one skill adds only violations of that skill that are
\* wrong, and ends it only when its lasting flaws are reported.
LEMMA ValidationKeeps ==
  ASSUME SkillsInv, pc \in Reading, UNCHANGED Kept, violations \subseteq violations',
         NEW s \in Expected, s = ExpectedSkill[next],
         \A v \in violations' :
           v \in violations \/ (v[1] = s /\ v[2] \in {"SKILL.md", "openai.yaml"}
                                /\ <<v[1], v[2]>> \in Wrong),
         \/ pc' = "raised" /\ next' = next
         \/ /\ pc' \in Reading /\ next' = next
            /\ pc' \in {"find_metadata", "read_metadata"} => SkillDone(s)'
         \/ NextSkill /\ Finished(s)'
  PROVE  SkillsInv'
<1>1. next \in 1 .. Len(ExpectedSkill) /\ Len(ExpectedSkill) \in Nat
  BY ExpectedFacts DEF SkillsInv, CheckType
<1>2. Wrong' = Wrong
  BY WrongStays DEF Kept
<1>3. CheckType'
  <2>1. \A d \in DOMAIN skills' : ContentOk(skills'[d])
    BY DEF SkillsInv, CheckType, Kept
  <2>2. edits' \in Nat /\ next' \in Nat \ {0}
    BY <1>1 DEF SkillsInv, CheckType, Kept, NextSkill
  <2>3. /\ pc' \in Reading \cup {"raised", "returned"}
        /\ pc' \in Reading => next' \in DOMAIN ExpectedSkill
        /\ pc' = "returned" => next' > Len(ExpectedSkill)
    BY <1>1, ExpectedFacts DEF NextSkill, Reading
  <2> QED BY <2>1, <2>2, <2>3 DEF CheckType, Reading
<1>4. History'
  BY <1>2 DEF SkillsInv, History, Kept
<1>5. Listed'
  <2>1. Underway
    BY DEF Underway
  <2>2. \A x, files : Told(x, files) => Told(x, files)'
    BY ToldStays
  <2> QED BY <2>1, <2>2 DEF SkillsInv, Listed, Kept
<1>6. Complete'
  <2> SUFFICES ASSUME Underway', NEW i \in 1 .. next' - 1
               PROVE  Finished(ExpectedSkill[i])'
    BY DEF Complete
  <2>1. CASE i \in 1 .. next - 1
    <3>1. Finished(ExpectedSkill[i])
      BY <2>1 DEF SkillsInv, Complete, Underway
    <3> QED BY <3>1, FinishedStays DEF Kept
  <2>2. CASE i \notin 1 .. next - 1
    <3>1. next' = next + 1 /\ i = next /\ Finished(s)'
      BY <1>1, <2>2 DEF NextSkill
    <3>2. ExpectedSkill[i] = s
      BY <3>1
    <3> QED BY <3>1, <3>2
  <2> QED BY <2>1, <2>2
<1>7. Halfway'
  BY DEF Halfway, Reading, NextSkill
<1>8. Justified'
  <2> SUFFICES ASSUME edits' = 0 /\ root', NEW v \in violations'
               PROVE  /\ v[2] \in {"SKILL.md", "openai.yaml"} => <<v[1], v[2]>> \in Wrong'
                      /\ v[2] = "directory" /\ v[1] \in Expected => v[1] \notin DOMAIN skills'
    BY DEF Justified
  <2>1. edits = 0 /\ root /\ skills' = skills
    BY DEF Kept
  <2> QED BY <1>2, <2>1 DEF SkillsInv, Justified
<1> QED BY <1>3, <1>4, <1>5, <1>6, <1>7, <1>8 DEF SkillsInv

\* What Report adds.
LEMMA ReportAdds ==
  ASSUME NEW s, s = ExpectedSkill[next], NEW file, NEW messages, Report(file, messages)
  PROVE  /\ violations \subseteq violations'
         /\ \A v \in violations' : v \in violations \/ (v[1] = s /\ v[2] = file)
         /\ messages = {} => violations' = violations
         /\ messages # {} => \A files : file \in files => Told(s, files)'
<1>1. violations' = violations \cup { <<s, file, m>> : m \in messages }
  BY DEF Report
<1>2. ASSUME NEW m \in messages PROVE \E v \in violations' : v[1] = s /\ v[2] = file
  <2>1. <<s, file, m>> \in violations'
    BY <1>1
  <2> QED BY <2>1
<1> QED BY <1>1, <1>2 DEF Told

\* Where the check reads, a skill of the root is the next one.
LEMMA TheNext ==
  ASSUME SkillsInv, pc \in Reading
  PROVE  ExpectedSkill[next] \in Expected
BY ExpectedFacts DEF SkillsInv, CheckType

LEMMA FindSkillKeeps ==
  ASSUME SkillsInv, FindSkill
  PROVE  SkillsInv'
<1>1. pc \in Reading /\ UNCHANGED Kept
  BY DEF FindSkill, Reading, Kept
<1>2. PICK s \in Expected : s = ExpectedSkill[next]
  BY <1>1, TheNext
<1>3. CASE s \notin actual /\ NextSkill /\ UNCHANGED violations
  <2>1. Told(s, {"directory"}) /\ (edits = 0 => FileOf(s, "skill").kind = "absent")
    BY <1>1, <1>3 DEF SkillsInv, Listed, Underway, FileOf
  <2>2. Finished(s)
    BY <2>1, ToldMore DEF Finished, SkillDone
  <2>3. Finished(s)'
    BY <1>1, <1>3, <2>2, FinishedStays DEF Kept
  <2> QED BY <1>1, <1>2, <1>3, <2>3, ValidationKeeps
<1>4. CASE /\ s \in actual /\ FileOf(s, "skill").kind = "absent"
           /\ Report("SKILL.md", {"missing"}) /\ NextSkill
  <2>1. /\ violations \subseteq violations'
        /\ \A v \in violations' : v \in violations \/ (v[1] = s /\ v[2] = "SKILL.md")
        /\ \A files : "SKILL.md" \in files => Told(s, files)'
    BY <1>2, <1>4, ReportAdds
  <2>2. <<s, "SKILL.md">> \in Wrong
    BY <1>4, WrongFiles DEF GoodSkillFile
  <2>3. Finished(s)'
    <3>1. FileOf(s, "skill")' = FileOf(s, "skill")
      BY <1>1, FileStays DEF Kept
    <3> QED BY <1>4, <2>1, <3>1 DEF Finished, SkillDone
  <2> QED BY <1>1, <1>2, <1>4, <2>1, <2>2, <2>3, ValidationKeeps
<1>5. CASE pc' = "read_skill" /\ UNCHANGED <<next, violations>>
  BY <1>1, <1>2, <1>5, ValidationKeeps DEF Reading
<1> QED BY <1>2, <1>3, <1>4, <1>5 DEF FindSkill

LEMMA ReadSkillKeeps ==
  ASSUME SkillsInv, ReadSkill
  PROVE  SkillsInv'
<1>1. pc \in Reading /\ UNCHANGED Kept
  BY DEF ReadSkill, Reading, Kept
<1>2. PICK s \in Expected : s = ExpectedSkill[next]
  BY <1>1, TheNext
<1> DEFINE text == FileOf(s, "skill")
<1>3. CASE pc' = "raised" /\ UNCHANGED <<next, violations>>
  BY <1>1, <1>2, <1>3, ValidationKeeps
<1>4. CASE /\ text.kind \in {"absent", "unreadable"}
           /\ Report("SKILL.md", {"unreadable"}) /\ NextSkill
  <2>1. /\ violations \subseteq violations'
        /\ \A v \in violations' : v \in violations \/ (v[1] = s /\ v[2] = "SKILL.md")
        /\ \A files : "SKILL.md" \in files => Told(s, files)'
    BY <1>2, <1>4, ReportAdds
  <2>2. <<s, "SKILL.md">> \in Wrong
    BY <1>4, WrongFiles DEF GoodSkillFile
  <2>3. Finished(s)'
    <3>1. FileOf(s, "skill")' = FileOf(s, "skill")
      BY <1>1, FileStays DEF Kept
    <3> QED BY <1>4, <2>1, <3>1 DEF Finished, SkillDone
  <2> QED BY <1>1, <1>2, <1>4, <2>1, <2>2, <2>3, ValidationKeeps
<1>5. CASE /\ text.kind = "text" /\ Report("SKILL.md", SkillFlaws(s, text))
           /\ pc' = "find_metadata" /\ UNCHANGED next
  <2>1. SkillFlaws(s, text) = {} <=> <<s, "SKILL.md">> \notin Wrong
    BY <1>5, SkillFlawsAreFlaws, WrongFiles, FilesOk DEF SkillsInv
  <2>2. /\ violations \subseteq violations'
        /\ \A v \in violations' : v \in violations \/ (v[1] = s /\ v[2] = "SKILL.md")
        /\ SkillFlaws(s, text) = {} => violations' = violations
        /\ SkillFlaws(s, text) # {} => Told(s, {"SKILL.md", "directory"})'
    <3> HIDE DEF text
    <3> QED BY <1>2, <1>5, ReportAdds
  <2>3. SkillDone(s)'
    BY <1>1, <2>1, <2>2 DEF SkillDone, Kept, SkillsInv, History
  <2>4. \A v \in violations' :
          v \in violations \/ (v[1] = s /\ v[2] \in {"SKILL.md", "openai.yaml"}
                               /\ <<v[1], v[2]>> \in Wrong)
    BY <2>1, <2>2
  <2> QED BY <1>1, <1>2, <1>5, <2>2, <2>3, <2>4, ValidationKeeps DEF Reading
<1> QED BY <1>2, <1>3, <1>4, <1>5 DEF ReadSkill

LEMMA FindMetadataKeeps ==
  ASSUME SkillsInv, FindMetadata
  PROVE  SkillsInv'
<1>1. pc \in Reading /\ UNCHANGED Kept
  BY DEF FindMetadata, Reading, Kept
<1>2. PICK s \in Expected : s = ExpectedSkill[next]
  BY <1>1, TheNext
<1>3. SkillDone(s)
  BY <1>2 DEF SkillsInv, Halfway, FindMetadata
<1>4. CASE /\ FileOf(s, "metadata").kind = "absent"
           /\ Report("openai.yaml", {"missing"}) /\ NextSkill
  <2>1. /\ violations \subseteq violations'
        /\ \A v \in violations' : v \in violations \/ (v[1] = s /\ v[2] = "openai.yaml")
        /\ \A files : "openai.yaml" \in files => Told(s, files)'
    BY <1>2, <1>4, ReportAdds
  <2>2. <<s, "openai.yaml">> \in Wrong
    BY <1>4, WrongFiles DEF GoodMetadata
  <2>3. Finished(s)'
    BY <1>1, <1>3, <2>1, SkillDoneStays DEF Finished, Kept
  <2> QED BY <1>1, <1>2, <1>4, <2>1, <2>2, <2>3, ValidationKeeps
<1>5. CASE pc' = "read_metadata" /\ UNCHANGED <<next, violations>>
  <2>1. SkillDone(s)'
    BY <1>1, <1>3, <1>5, SkillDoneStays DEF Kept
  <2> QED BY <1>1, <1>2, <1>5, <2>1, ValidationKeeps DEF Reading
<1> QED BY <1>2, <1>4, <1>5 DEF FindMetadata

LEMMA ReadMetadataKeeps ==
  ASSUME SkillsInv, ReadMetadata
  PROVE  SkillsInv'
<1>1. pc \in Reading /\ UNCHANGED Kept
  BY DEF ReadMetadata, Reading, Kept
<1>2. PICK s \in Expected : s = ExpectedSkill[next]
  BY <1>1, TheNext
<1>3. SkillDone(s)
  BY <1>2 DEF SkillsInv, Halfway, ReadMetadata
<1> DEFINE text == FileOf(s, "metadata")
<1>4. CASE pc' = "raised" /\ UNCHANGED <<next, violations>>
  BY <1>1, <1>2, <1>4, ValidationKeeps
<1>5. ASSUME NEW messages, Report("openai.yaml", messages), NextSkill,
             messages = {} <=> GoodMetadata(s, text)
      PROVE  SkillsInv'
  <2> HIDE DEF text
  <2>1. messages = {} <=> <<s, "openai.yaml">> \notin Wrong
    BY <1>5, WrongFiles DEF text
  <2>2. /\ violations \subseteq violations'
        /\ \A v \in violations' : v \in violations \/ (v[1] = s /\ v[2] = "openai.yaml")
        /\ messages = {} => violations' = violations
        /\ messages # {} => \A files : "openai.yaml" \in files => Told(s, files)'
    BY <1>2, <1>5, ReportAdds
  <2>3. <<s, "openai.yaml">> \in lasting' =>
          \A files : "openai.yaml" \in files => Told(s, files)'
    BY <1>1, <2>1, <2>2 DEF Kept, SkillsInv, History
  <2>4. Finished(s)'
    BY <1>1, <1>3, <2>2, <2>3, SkillDoneStays DEF Finished, Kept
  <2>5. \A v \in violations' :
          v \in violations \/ (v[1] = s /\ v[2] \in {"SKILL.md", "openai.yaml"}
                               /\ <<v[1], v[2]>> \in Wrong)
    BY <2>1, <2>2
  <2> QED BY <1>1, <1>2, <1>5, <2>2, <2>4, <2>5, ValidationKeeps
<1>6. CASE /\ text.kind \in {"absent", "unreadable"}
           /\ Report("openai.yaml", {"unreadable"}) /\ NextSkill
  BY <1>5, <1>6 DEF GoodMetadata
<1>7. CASE /\ text.kind = "text" /\ Report("openai.yaml", MetadataFlaws(s, text))
           /\ NextSkill
  <2>1. MetadataFlaws(s, text) = {} <=> GoodMetadata(s, text)
    BY <1>7, MetadataFlawsAreFlaws, FilesOk DEF SkillsInv
  <2> QED BY <1>5, <1>7, <2>1
<1> QED BY <1>2, <1>4, <1>6, <1>7 DEF ReadMetadata

LEMMA SkillsInit == Init => SkillsInv
<1> SUFFICES ASSUME Init PROVE SkillsInv
  OBVIOUS
<1>1. \A d \in DOMAIN skills : ContentOk(skills[d])
  BY ContentsAssumption DEF Init
<1> QED
  BY <1>1, ExpectedFacts DEF Init, SkillsInv, CheckType, History, Listed, Complete, Halfway,
     Justified, Underway, Reading

LEMMA FindRootKeeps ==
  ASSUME SkillsInv, FindRoot
  PROVE  SkillsInv'
<1>1. Wrong' = Wrong
  BY WrongStays DEF FindRoot
<1>2. ~Underway' /\ pc' \notin {"find_metadata", "read_metadata"}
  BY ExpectedFacts DEF FindRoot, Underway, Reading, SkillsInv, CheckType
<1>3. CheckType'
  <2>1. pc' = "returned" => ~root' /\ Told("root", {"directory"})'
    <3>1. pc' = "returned" => <<"root", "directory", "missing">> \in violations'
      BY DEF FindRoot
    <3>2. pc' = "returned" => Told("root", {"directory"})'
      BY <3>1 DEF Told
    <3> QED BY <3>2 DEF FindRoot
  <2> QED BY <2>1 DEF FindRoot, SkillsInv, CheckType, Reading
<1>4. Justified'
  BY <1>1 DEF FindRoot, SkillsInv, Justified
<1> QED
  BY <1>1, <1>2, <1>3, <1>4 DEF FindRoot, SkillsInv, History, Listed, Complete, Halfway

\* The listing reports what is missing and what is not expected, of the root that it sees.
LEMMA ListSkillsKeeps ==
  ASSUME SkillsInv, ListSkills
  PROVE  SkillsInv'
<1>1. Wrong' = Wrong
  BY WrongStays DEF ListSkills
<1>2. CASE ~root /\ pc' = "raised" /\ UNCHANGED <<actual, violations>>
  BY <1>1, <1>2 DEF ListSkills, SkillsInv, CheckType, History, Listed, Complete, Halfway,
     Justified, Underway, Reading
<1>3. CASE /\ root
           /\ actual' = DOMAIN skills
           /\ violations' = { <<s, "directory", "missing">> : s \in Expected \ DOMAIN skills }
                \cup { <<d, "directory", "unexpected">> : d \in DOMAIN skills \ Expected }
           /\ pc' = "find_skill"
  <2>1. next' = 1 /\ UNCHANGED <<root, skills, edits, lasting, ever>>
    BY DEF ListSkills, SkillsInv, CheckType
  <2>2. CheckType'
    BY <1>3, <2>1, ExpectedFacts DEF SkillsInv, CheckType, Reading
  <2>3. ASSUME NEW s \in Expected \ DOMAIN skills PROVE Told(s, {"directory"})'
    <3>1. <<s, "directory", "missing">> \in violations'
      BY <1>3
    <3> QED BY <3>1 DEF Told
  <2>4. ASSUME NEW d \in DOMAIN skills \ Expected PROVE Told(d, {"directory"})'
    <3>1. <<d, "directory", "unexpected">> \in violations'
      BY <1>3
    <3> QED BY <3>1 DEF Told
  <2>5. ASSUME NEW w \in lasting, w[2] = "directory" PROVE Told(w[1], {"directory"})'
    <3>1. w \in Wrong
      BY DEF SkillsInv, History
    <3>2. PICK d \in DOMAIN skills \ Expected : w = <<d, "directory">>
      BY <2>5, <3>1, WrongKinds
    <3>3. w[1] = d
      BY <3>2
    <3> QED BY <2>4, <3>3
  <2>6. Listed'
    BY <1>3, <2>1, <2>3, <2>5 DEF Listed
  <2>7. Complete' /\ Halfway'
    BY <1>3, <2>1 DEF Complete, Halfway
  <2>8. \A v \in violations' : v[2] = "directory" /\ (v[1] \in Expected => v[1] \notin DOMAIN skills)
    BY <1>3
  <2>9. Justified'
    BY <2>1, <2>8 DEF Justified
  <2> QED BY <1>1, <2>1, <2>2, <2>6, <2>7, <2>9 DEF SkillsInv, History
<1> QED BY <1>2, <1>3 DEF ListSkills

\* Somebody edits the root.
LEMMA EditKeeps ==
  ASSUME SkillsInv, Edit
  PROVE  SkillsInv'
<1>1. /\ UNCHANGED <<pc, next, actual, violations>>
      /\ edits' = edits + 1 /\ edits' # 0 /\ edits' \in Nat
      /\ lasting' \subseteq lasting /\ lasting' \subseteq Wrong'
      /\ pc \notin {"returned", "raised"}
  BY DEF Edit, SkillsInv, CheckType
<1>2. \A d \in DOMAIN skills' : ContentOk(skills'[d])
  <2>1. ASSUME NEW d \in Expected \cup OtherName, NEW c \in Contents[d],
               skills' = [ n \in DOMAIN skills \cup {d} |-> IF n = d THEN c ELSE skills[n] ]
        PROVE  \A e \in DOMAIN skills' : ContentOk(skills'[e])
    <3>1. ContentOk(c)
      BY ContentsAssumption
    <3> QED BY <2>1, <3>1 DEF SkillsInv, CheckType
  <2>2. ASSUME NEW d \in DOMAIN skills,
               skills' = [ n \in DOMAIN skills \ {d} |-> skills[n] ]
        PROVE  \A e \in DOMAIN skills' : ContentOk(skills'[e])
    BY <2>2 DEF SkillsInv, CheckType
  <2>3. CASE skills' = <<>>
    BY <2>3
  <2> QED BY <2>1, <2>2, <2>3 DEF Edit
<1>3. CheckType'
  BY <1>1, <1>2 DEF SkillsInv, CheckType
<1>4. \A s, files : Told(s, files) => Told(s, files)'
  BY <1>1, ToldStays
<1>5. Listed'
  BY <1>1, <1>4 DEF SkillsInv, Listed, Underway
<1>6. ASSUME NEW s, SkillDone(s) PROVE SkillDone(s)'
  BY <1>1, <1>4, <1>6 DEF SkillDone
<1>7. ASSUME NEW s, Finished(s) PROVE Finished(s)'
  BY <1>1, <1>4, <1>6, <1>7 DEF Finished
<1>8. Complete'
  BY <1>1, <1>7 DEF SkillsInv, Complete, Underway
<1>9. Halfway'
  BY <1>1, <1>6 DEF SkillsInv, Halfway
<1> QED BY <1>1, <1>3, <1>5, <1>8, <1>9 DEF SkillsInv, History, Justified

-----------------------------------------------------------------------------
(* The theorems *)

\* Whatever is edited, the report keeps up with the skills that the check has behind it.
THEOREM SkillsSoundness == Spec => []SkillsInv
<1>1. Init => SkillsInv
  BY SkillsInit
<1>2. SkillsInv /\ [Next]_vars => SkillsInv'
  <2> SUFFICES ASSUME SkillsInv, [Next]_vars PROVE SkillsInv'
    OBVIOUS
  <2>1. CASE UNCHANGED vars
    <3>1. Wrong' = Wrong /\ violations \subseteq violations' /\ UNCHANGED vars
      BY <2>1, WrongStays DEF vars
    <3>2. \A s, files : Told(s, files) => Told(s, files)'
      BY <3>1, ToldStays
    <3>3. \A s : Finished(s) => Finished(s)'
      BY <3>1, FinishedStays DEF vars
    <3>4. \A s : SkillDone(s) => SkillDone(s)'
      BY <3>1, SkillDoneStays DEF vars
    <3>5. CheckType' /\ Listed'
      BY <3>1, <3>2 DEF vars, SkillsInv, CheckType, Listed, Underway
    <3>6. Complete' /\ Halfway'
      BY <3>1, <3>3, <3>4 DEF vars, SkillsInv, Complete, Halfway, Underway
    <3> QED BY <3>1, <3>5, <3>6 DEF vars, SkillsInv, History, Justified
  <2> QED
    BY <2>1, FindRootKeeps, ListSkillsKeeps, FindSkillKeeps, ReadSkillKeeps,
       FindMetadataKeeps, ReadMetadataKeeps, EditKeeps DEF Next
<1> QED BY <1>1, <1>2, PTL DEF Spec

\* Whatever is edited during a check that returns, every skill or directory that was
\* wrong all along is reported, or else the root is.
THEOREM LastingTheorem == Spec => []LastingFlawsAreReported
<1>1. SkillsInv => LastingFlawsAreReported
  <2> SUFFICES ASSUME SkillsInv, pc = "returned", NEW w \in lasting
               PROVE  w[1] \in Reported \/ "root" \in Reported
    BY DEF LastingFlawsAreReported
  <2>1. \A s, files : Told(s, files) => s \in Reported
    BY DEF Told, Reported
  <2>2. CASE ~(next > Len(ExpectedSkill))
    BY <2>1, <2>2 DEF SkillsInv, CheckType
  <2>3. CASE next > Len(ExpectedSkill)
    <3>1. Underway /\ w \in Wrong
      BY <2>3 DEF Underway, SkillsInv, History
    <3>2. \A s \in Expected : Finished(s)
      BY <2>3, <3>1, ExpectedFacts DEF SkillsInv, Complete, CheckType
    <3>3. CASE \E s \in Expected : w = <<s, "SKILL.md">> \/ w = <<s, "openai.yaml">>
      <4>1. PICK s \in Expected : w = <<s, "SKILL.md">> \/ w = <<s, "openai.yaml">>
        BY <3>3
      <4>2. w[1] = s
        BY <4>1
      <4>3. lasting \subseteq Wrong /\ Finished(s)
        BY <3>2 DEF SkillsInv, History
      <4> QED BY <2>1, <4>1, <4>2, <4>3 DEF Finished, SkillDone
    <3>4. CASE \E d \in DOMAIN skills \ Expected : w = <<d, "directory">>
      <4>1. w[2] = "directory"
        BY <3>4
      <4> QED BY <2>1, <3>1, <4>1 DEF SkillsInv, Listed
    <3> QED BY <3>1, <3>3, <3>4, WrongKinds
  <2> QED BY <2>2, <2>3
<1> QED BY <1>1, SkillsSoundness, PTL

\* Of a root that nobody edits, the check reports what is wrong and nothing else.
THEOREM ExactTheorem == Spec => []ReportIsExact
<1>1. SkillsInv => ReportIsExact
  <2> SUFFICES ASSUME SkillsInv, pc = "returned", edits = 0, root, NEW s \in Expected
               PROVE  /\ <<s, "SKILL.md">> \in ever <=> Told(s, {"SKILL.md", "directory"})
                      /\ FileOf(s, "skill").kind = "text" =>
                           (<<s, "openai.yaml">> \in ever <=>
                              \E v \in violations : v[1] = s /\ v[2] = "openai.yaml")
    BY DEF ReportIsExact, Told
  <2>1. next > Len(ExpectedSkill) /\ ever = Wrong /\ lasting = Wrong
    BY DEF SkillsInv, CheckType, History
  <2>2. Finished(s)
    BY <2>1, ExpectedFacts DEF SkillsInv, Complete, CheckType, Underway
  <2>3. ASSUME NEW v \in violations, v[1] = s
        PROVE  /\ v[2] \in {"SKILL.md", "openai.yaml"} => <<s, v[2]>> \in Wrong
               /\ v[2] = "directory" => <<s, "SKILL.md">> \in Wrong
    <3>1. /\ v[2] \in {"SKILL.md", "openai.yaml"} => <<v[1], v[2]>> \in Wrong
          /\ v[2] = "directory" => s \notin DOMAIN skills
      BY <2>3 DEF SkillsInv, Justified
    <3>2. s \notin DOMAIN skills => <<s, "SKILL.md">> \in Wrong
      BY WrongFiles DEF FileOf, GoodSkillFile
    <3> QED BY <2>3, <3>1, <3>2
  <2>4. <<s, "SKILL.md">> \in Wrong <=> Told(s, {"SKILL.md", "directory"})
    BY <2>1, <2>2, <2>3 DEF Finished, SkillDone, Told
  <2>5. ASSUME FileOf(s, "skill").kind = "text"
        PROVE  <<s, "openai.yaml">> \in Wrong <=>
                 \E v \in violations : v[1] = s /\ v[2] = "openai.yaml"
    BY <2>1, <2>2, <2>3, <2>5 DEF Finished, Told
  <2> QED BY <2>1, <2>4, <2>5
<1> QED BY <1>1, SkillsSoundness, PTL
=============================================================================
