-------------------------- MODULE ImportBoundaries --------------------------
(* scripts/check_import_boundaries.py: the verdict on a source tree, with    *)
(* the search for cycles (CycleSearch) as a part of it.  A module is named   *)
(* by its path below the package autonomous_trading, which is the path <<>>; *)
(* a directory is named in the same way.                                     *)
EXTENDS CycleSearch

CONSTANTS Outside,     \* OUTSIDE_PACKAGE_ROOT
          Root,        \* ROOT_PACKAGE
          Identifier,  \* names of directories and modules, and names in imports
          Trees(_)     \* source trees to check, for each of RuleSets

(* A statement that Python parses: only `from` takes dots.                   *)
StatementOk(s) ==
  /\ s.path \in Seq(Identifier)
  /\ s.level \in Nat
  /\ s.form \in {"import", "from"}
  /\ s.level > 0 => s.form = "from"
  /\ s.form = "from" => s.name \in Identifier

(* A tree of directories: a file is in one, or is a module of the top level, *)
(* and what exists is in something that exists.                              *)
FileOk(kind, f) ==
  /\ f.dir \in Seq(Identifier)
  /\ f.text \in {"parses", "unreadable", "undecodable"}
  /\ f.dir # <<>> => <<f.dir[1]>> \in DOMAIN kind
                       /\ kind[<<f.dir[1]>>] \in {"package", "namespace"}
  /\ f.dir = <<>> /\ ~f.isInit => \E n \in Identifier : <<n>> \in DOMAIN kind
                                                          /\ kind[<<n>>] = "module"
  /\ \A s \in f.imports : StatementOk(s)

TreeOk(t) ==
  /\ \A path \in DOMAIN t.kind :
       /\ path \in Seq(Identifier) /\ path # <<>>
       /\ t.kind[path] \in {"module", "package", "namespace", "absent"}
       /\ t.kind[path] # "absent" => <<path[1]>> \in DOMAIN t.kind
                                      /\ t.kind[<<path[1]>>] # "absent"
  /\ IsFiniteSet(t.files)
  /\ \A f \in t.files : FileOk(t.kind, f)

ASSUME TreesAssumption ==
  /\ Outside \notin Identifier
  /\ \A r \in RuleSets : \A t \in Trees(r) : TreeOk(t)

VARIABLES tree,        \* the source tree: directories, modules and files
          uninspected, \* files the loop has still to see
          report,      \* violations found
          outcome      \* "starting", "searching", "inspecting", "valid", "invalid", "raised"

vars == <<searchVars, tree, uninspected, report, outcome>>

(* "module" (a .py file), "package" (a directory with __init__.py),          *)
(* "namespace" (source files, no __init__.py), or "absent".                  *)
Kind(path) == IF path \in DOMAIN tree.kind THEN tree.kind[path] ELSE "absent"

TopLevel(kinds) == {path[1] : path \in {q \in DOMAIN tree.kind :
                                          Len(q) = 1 /\ tree.kind[q] \in kinds}}

-----------------------------------------------------------------------------
(* The rules and the tree's top level (_policy_violations, up to the search). *)
RuleViolations ==
  (UNION {{<<"unknown dependency", p, q>> : q \in rules[p] \ Declared(rules)}
            : p \in Declared(rules)})
    \cup {<<"lists itself", p>> : p \in {q \in Declared(rules) : q \in rules[q]}}

(* Slip: a directory without __init__.py needs no rule.                      *)
PolicyViolations_InitializedOnly ==
  LET declared == Declared(rules)
  IN  {<<"missing", p>> : p \in declared \ TopLevel({"package"})}
        \cup {<<"no rule", p>> : p \in TopLevel({"package"}) \ declared}
        \cup {<<"top-level module", p>> : p \in TopLevel({"module"})}
        \cup RuleViolations

PolicyViolations ==
  LET declared == Declared(rules)
  IN  {<<"missing", p>> : p \in declared \ TopLevel({"package"})}
        \cup {<<"no rule", p>> : p \in TopLevel({"package", "namespace"}) \ declared}
        \cup {<<"top-level module", p>> : p \in TopLevel({"module"})}
        \cup RuleViolations

-----------------------------------------------------------------------------
(* A file is in a directory; it may be an __init__.py; its text "parses", is *)
(* "unreadable" (it cannot be opened or parsed) or "undecodable" (it is not  *)
(* UTF-8).  Its imports are the statements that import from the program, its *)
(* bindings those that import from the standard library, and its calls those *)
(* of a name or of an attribute of a name.  A statement imports one name;    *)
(* with several it is as many statements.                                    *)
HasPackage(f)    == f.dir # <<>> \/ f.isInit
SourcePackage(f) == IF f.dir = <<>> THEN Root ELSE f.dir[1]

InternalImport(path, names) ==
  [target |-> path[1], internal |-> Len(path) > 1, names |-> names]

Absolute(s) ==
  CASE s.path # <<>> /\ s.form = "import" -> {InternalImport(s.path, {})}
    [] s.path # <<>> /\ s.form = "from"   -> {InternalImport(s.path, {s.name})}
    [] s.path = <<>> /\ s.form = "import" -> {}
    [] s.path = <<>> /\ s.form = "from"   ->
         {InternalImport(<<n>>, {}) : n \in {s.name} \cap Declared(rules)}

Retained(f, s) == Len(f.dir) - (s.level - 1)
Base(f, s)     == SubSeq(f.dir, 1, Retained(f, s)) \o s.path

Relative(f, s) ==
  CASE Retained(f, s) < 0 -> {InternalImport(<<Outside>>, {})}
    [] Retained(f, s) >= 0 /\ s.path # <<>> -> {InternalImport(Base(f, s), {s.name})}
    [] Retained(f, s) >= 0 /\ s.path = <<>> ->
         {InternalImport(Append(Base(f, s), s.name),
                         IF Base(f, s) = <<>> THEN {} ELSE {s.name})}

ImportsOf(f, s) == IF s.level = 0 THEN Absolute(s) ELSE Relative(f, s)

(* Slip: any name taken from another package is its implementation.          *)
TargetsInternal_AnyName(i) == i.internal \/ i.names # {}

TargetsInternal(i) ==
  i.internal \/ \E n \in i.names : Kind(<<i.target, n>>) \in {"module", "package"}

Verdicts == {"escapes", "undeclared", "direction", "interface"}

Judgement(f, i) ==
  LET source == SourcePackage(f)
  IN  CASE i.target = Outside -> {"escapes"}
        [] i.target = source  -> {}
        [] i.target \notin {Outside, source} \cup Declared(rules) -> {"undeclared"}
        [] OTHER ->
             IF i.target \notin (IF source = Root THEN {} ELSE rules[source])
             THEN {"direction"}
             ELSE IF TargetsInternal(i) THEN {"interface"} ELSE {}

ImportViolations(f) ==
  UNION {{<<v, f, s>> : v \in UNION {Judgement(f, i) : i \in ImportsOf(f, s)}} : s \in f.imports}

(* `import path as alias` and `from path import name as alias`, where the    *)
(* alias may be missing: what the statement is taken to bind is              *)
(* `asname or name`.                                                         *)
LocalName(b, name) == IF b.alias = "" THEN name ELSE b.alias

(* Only these two forms are followed.                                        *)
ImportsPackage(b)  == b.form = "import" /\ b.path = <<"importlib">>
ImportsFunction(b) == b.form = "from" /\ b.path = <<"importlib">> /\ b.name = "import_module"

(* The calls found to import by name (_dynamic_import_calls); attr is ""     *)
(* when the name itself is called.                                           *)
DynamicCalls(f) ==
  LET importlib_aliases ==
        {LocalName(b, "importlib") : b \in {x \in f.bindings : ImportsPackage(x)}}
      import_module_aliases ==
        {LocalName(b, b.name) : b \in {x \in f.bindings : ImportsFunction(x)}}
  IN  {c \in f.calls :
         \/ c.attr = "" /\ c.id \in {"__import__"} \cup import_module_aliases
         \/ c.attr = "import_module" /\ c.id \in importlib_aliases}

(* What the loop adds to the report for one file.                            *)
FileViolations(f) ==
  CASE ~HasPackage(f) -> {}
    [] HasPackage(f) /\ f.text = "unreadable" -> {<<"unreadable", f>>}
    [] HasPackage(f) /\ f.text = "parses" ->
         IF SourcePackage(f) \in Declared(rules) \cup {Root}
         THEN {<<"dynamic", f, c>> : c \in DynamicCalls(f)} \cup ImportViolations(f)
         ELSE {}

-----------------------------------------------------------------------------
Init ==
  /\ SearchInit
  /\ tree \in Trees(rules)
  /\ uninspected = {}
  /\ report = {}
  /\ outcome = "starting"

CheckPolicy ==
  /\ outcome = "starting"
  /\ IF tree.exists
     THEN report' = PolicyViolations /\ outcome' = "searching"
     ELSE report' = {<<"root missing">>} /\ outcome' = "inspecting"
  /\ UNCHANGED <<searchVars, tree, uninspected>>

Search ==
  /\ outcome = "searching"
  /\ SearchNext
  /\ UNCHANGED <<tree, uninspected, report, outcome>>

(* Slip: cycles are looked for and not reported.                             *)
EndSearch_NoCycles ==
  /\ outcome = "searching" /\ Returned
  /\ uninspected' = tree.files
  /\ outcome' = "inspecting"
  /\ UNCHANGED <<searchVars, tree, report>>

EndSearch ==
  /\ outcome = "searching" /\ Returned
  /\ report' = report \cup {<<"cycle", c>> : c \in cycles}
  /\ uninspected' = tree.files
  /\ outcome' = "inspecting"
  /\ UNCHANGED <<searchVars, tree>>

(* The loop's order is sorted; the report is a set, sorted when printed, and *)
(* any order gives the same one.  Nothing catches the ValueError of a text   *)
(* that is not UTF-8: the call ends without a report.                        *)
InspectFile(f) ==
  /\ outcome = "inspecting"
  /\ f \in uninspected
  /\ IF HasPackage(f) /\ f.text = "undecodable"
     THEN outcome' = "raised" /\ UNCHANGED report
     ELSE report' = report \cup FileViolations(f) /\ UNCHANGED outcome
  /\ uninspected' = uninspected \ {f}
  /\ UNCHANGED <<searchVars, tree>>

Exit ==
  /\ outcome = "inspecting"
  /\ uninspected = {}
  /\ outcome' = IF report = {} THEN "valid" ELSE "invalid"
  /\ UNCHANGED <<searchVars, tree, uninspected, report>>

Next ==
  \/ CheckPolicy \/ Search \/ EndSearch
  \/ \E f \in uninspected : InspectFile(f)
  \/ Exit

(* A function call runs on until it returns.                                 *)
Spec     == Init /\ [][Next]_vars
FairSpec == Spec /\ WF_vars(Next)

-----------------------------------------------------------------------------
(* What Python does, as far as the properties need it.  Importing a path     *)
(* imports what is on the way to it; `from` also imports the name when it is *)
(* a module; a relative import that leaves the root, or a path that does not *)
(* exist, is an error.                                                       *)
Prefixes(path) == {SubSeq(path, 1, n) : n \in 0..Len(path)}
Exists(path)   == path = <<>> \/ Kind(path) # "absent"

Escapes(f, s) == s.level > 0 /\ Retained(f, s) < 0

From(f, s) == IF s.level = 0 THEN s.path ELSE Base(f, s)

Loads(f, s) ==
  IF Escapes(f, s) \/ ~Exists(From(f, s)) THEN {}
  ELSE {path \in Prefixes(From(f, s))
                    \cup (IF s.form = "from" THEN {Append(From(f, s), s.name)} ELSE {}) :
          Exists(path)}

Fails(f, s) == Escapes(f, s) \/ ~Exists(From(f, s))

(* The names that a statement binds, each with the object that it denotes.   *)
(* `import importlib.util` binds importlib to the package; with an alias, the*)
(* alias to the submodule.  A star binds the functions of __all__.           *)
ByNameFunctions == {<<"importlib", "import_module">>, <<"importlib", "__import__">>,
                    <<"builtins", "__import__">>}

Denotes(b) ==
  CASE b.form = "import" /\ b.alias = ""  -> {[name |-> b.path[1], object |-> <<b.path[1]>>]}
    [] b.form = "import" /\ b.alias # ""  -> {[name |-> b.alias, object |-> b.path]}
    [] b.form = "from" /\ b.name # "*"    -> {[name |-> LocalName(b, b.name),
                                              object |-> Append(b.path, b.name)]}
    [] b.form = "from" /\ b.name = "*"    -> {[name |-> g[2], object |-> g] :
                                              g \in {h \in ByNameFunctions : <<h[1]>> = b.path}}

Binds(b, id) == \E d \in Denotes(b) : d.name = id

(* A call of a function that imports the module whose name it is given.      *)
ImportsByName(f, c) ==
  \/ c.id = "__import__" /\ c.attr = ""
  \/ \E b \in f.bindings : \E d \in Denotes(b) :
       /\ d.name = c.id
       /\ (IF c.attr = "" THEN d.object ELSE Append(d.object, c.attr)) \in ByNameFunctions

(* A file may use its own package, the root, and the public interface of the *)
(* declared packages that its rule lists (ADR 0001).                         *)
Permitted(f, path) ==
  \/ path = <<>>
  \/ path[1] = SourcePackage(f)
  \/ Len(path) = 1 /\ SourcePackage(f) # Root /\ path[1] \in Dependencies(rules, SourcePackage(f))

-----------------------------------------------------------------------------
(* In a tree found valid, the import statements of a package run no code of  *)
(* another package except through a permitted public interface, whatever     *)
(* their form, and although an import that names an undeclared package may   *)
(* be passed over (line 188) and files of such a package are not inspected   *)
(* (lines 383-384).  A directory without __init__.py has no code to run.     *)
(* Nor does a call import by name, unless it calls an attribute __import__,  *)
(* or through a name bound in a way that lines 228-235 do not follow: that   *)
(* there are such calls is shown by NoDynamicImports.                        *)
ValidMeansPermitted ==
  outcome = "valid" =>
    \A f \in tree.files :
      /\ \A s \in f.imports : \A path \in Loads(f, s) :
           \/ Permitted(f, path)
           \/ Kind(path) = "namespace" /\ Permitted(f, <<path[1]>>)
      /\ \A c \in f.calls : ImportsByName(f, c) =>
           \/ c.attr = "__import__"
           \/ \E b \in f.bindings :
                Binds(b, c.id) /\ ~ImportsPackage(b) /\ ~ImportsFunction(b)

(* "Dynamic imports cannot bypass statically enforced dependency directions" *)
(* (tests/test_import_boundaries.py, line 219), and none is left in a tree   *)
(* found valid.                                                              *)
NoDynamicImports ==
  outcome = "valid" => \A f \in tree.files : \A c \in f.calls : ~ImportsByName(f, c)

(* In a tree found valid, packages do not load each other in a circle (BUB-7 *)
(* plan, line 18): it takes the inspection of every file and the search of   *)
(* the rules together.                                                       *)
ValidMeansLayered ==
  outcome = "valid" =>
    \A S \in SUBSET Declared(rules) : S # {} =>
      \E p \in S : \A f \in tree.files : SourcePackage(f) = p =>
        \A s \in f.imports : \A path \in Loads(f, s) :
          path # <<>> => path[1] \notin S \ {p}

(* An import is only reported when it loads what it must not, when Python    *)
(* would not accept it either, or when it takes from the root a name that is *)
(* no module: any by a relative import, a declared one by an absolute import.*)
ReportsAreJustified ==
  \A f \in tree.files : \A s \in f.imports :
    (\E verdict \in Verdicts : <<verdict, f, s>> \in report) =>
      \/ \E path \in Loads(f, s) : ~Permitted(f, path)
      \/ Fails(f, s)
      \/ /\ From(f, s) = <<>> /\ ~Exists(<<s.name>>)
         /\ s.level > 0 \/ s.name \in Declared(rules)

(* The check ends, for cyclic rules as well: with a verdict, or with the     *)
(* exception of a text that it cannot decode.                                *)
Termination == <>(outcome \in {"valid", "invalid", "raised"})
=============================================================================
