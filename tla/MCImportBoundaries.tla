------------------------- MODULE MCImportBoundaries -------------------------
(* Rules: every set of rules for three packages, which may mention a name    *)
(* that is not declared; every set of rules for four packages that do not    *)
(* list themselves; and the repository's own.  Each is checked with a tree   *)
(* that has the declared packages and no imports.                            *)
(* Trees: with two declared packages a and b and a third top-level name u,   *)
(* which may be anything.  A package may have a member m; s is a name that   *)
(* is never a module.                                                        *)
EXTENDS ImportBoundaries, TLC

MCThree == {"a", "b", "c"}
MCFour  == MCThree \cup {"d"}

MCSorted == <<"a", "audit", "b", "backtest", "c", "configuration", "control_plane", "d", "data",
              "deployment", "execution", "experiment", "monitoring", "portfolio",
              "reconciliation", "registry", "risk", "strategy", "u", "validation">>

MCName == {MCSorted[i] : i \in DOMAIN MCSorted}
MCRank == [n \in MCName |-> CHOOSE i \in DOMAIN MCSorted : MCSorted[i] = n]

Plain   == [a |-> {}, b |-> {"a"}]
Loose   == [a |-> {"u"}, b |-> {"a", "u"}]
Knot    == [a |-> {"b"}, b |-> {"a"}]
Selfish == [a |-> {"a"}, b |-> {"a", "u"}]

Kinds == {"absent", "module", "package", "namespace"}

Layout(b, u, am, bm) ==
  (<<"a">> :> "package") @@ (<<"b">> :> b) @@ (<<"u">> :> u)
    @@ (<<"a", "m">> :> am) @@ (<<"b", "m">> :> bm)

Layouts == {Layout(b, u, am, bm) : b \in {"package", "namespace"}, u \in Kinds,
                                   am \in Kinds, bm \in {"absent", "package"}}

MCIdentifier == MCName \cup {"m", "s"}

(* import autonomous_trading.path                                            *)
Import(path) == [form |-> "import", level |-> 0, path |-> path, name |-> ""]

(* from <level dots or the root><path> import name                           *)
FromImport(level, path, name) ==
  [form |-> "from", level |-> level, path |-> path, name |-> name]

Paths == {<<>>} \cup {<<p>> : p \in {"a", "b", "u"}} \cup {<<p, "m">> : p \in {"a", "b", "u"}}

Statements ==
  {Import(path) : path \in Paths}
    \cup {FromImport(0, path, n) : path \in Paths, n \in {"a", "u", "m"}}
    \cup {FromImport(l, path, n) : l \in 1..3, path \in Paths \cup {<<"m">>},
                                   n \in {"a", "u", "m"}}

File(dir, isInit, text, imports, bindings, calls) ==
  [dir |-> dir, isInit |-> isInit, text |-> text, imports |-> imports,
   bindings |-> bindings, calls |-> calls]

Importing(dir, isInit, imports) == File(dir, isInit, "parses", imports, {}, {})

(* Directories that can hold a file: __init__.py of the root, a top-level    *)
(* module, and any file of a directory with source files.                    *)
Places(kind) ==
  {<<dir, FALSE>> : dir \in {d \in DOMAIN kind : kind[d] \in {"package", "namespace"}}}
    \cup {<<<<>>, isInit>> : isInit \in {TRUE, kind[<<"u">>] # "module"}}

AnyPlace == UNION {Places(kind) : kind \in Layouts}

Tree(kind, files) == [exists |-> TRUE, kind |-> kind, files |-> files]

(* One file with one import.                                                 *)
OneImport ==
  {Tree(kind, {Importing(place[1], place[2], {s})}) :
     <<kind, place, s>> \in {x \in Layouts \X AnyPlace \X Statements : x[2] \in Places(x[1])}}

(* Two packages that import each other, one of them perhaps without a text   *)
(* that can be inspected.                                                    *)
Sound == Layout("package", "absent", "module", "absent")

BothWays ==
  {Tree(Sound, {File(<<"a">>, i, text, {FromImport(0, <<"b">>, "s")}, {}, {}),
                Importing(<<"b">>, FALSE, {FromImport(l, <<"a">>, n)})}) :
     i \in BOOLEAN, text \in {"parses", "unreadable", "undecodable"},
     l \in {0, 2}, n \in {"s", "m"}}

(* Statements that bind names to importlib and builtins or parts of them,    *)
(* with and without an alias, and the calls that may import by name.         *)
Bindings ==
  [form : {"import"}, path : {<<"importlib">>, <<"importlib", "util">>}, name : {""},
   alias : {"", "load"}]
    \cup [form : {"from"}, path : {<<"importlib">>}, name : {"import_module", "util", "__import__"},
          alias : {"", "load"}]
    \cup [form : {"from"}, path : {<<"importlib">>}, name : {"*"}, alias : {""}]
    \cup [form : {"import"}, path : {<<"builtins">>}, name : {""}, alias : {"load"}]

Calls == [id : {"__import__", "import_module", "importlib", "load"},
          attr : {"", "import_module", "__import__"}]

Dynamic ==
  {Tree(Sound, {File(<<"b">>, FALSE, "parses", {}, bs, {c})}) :
     bs \in {S \in SUBSET Bindings : Cardinality(S) <= 2}, c \in Calls}

(* A rule that lists what is not declared, and a tree that lacks what is.    *)
Unruly ==
  {Tree(Layout(b, u, "absent", "absent"), {Importing(<<"a">>, FALSE, {s})}) :
     b \in {"absent", "package"}, u \in Kinds, s \in Statements}

Missing == {[exists |-> FALSE, kind |-> Sound, files |-> {}]}

(* The declared packages and nothing else.                                   *)
Empty(r) == {Tree([path \in {<<p>> : p \in Declared(r)} |-> "package"], {})}

MCRuleSets ==
  [MCThree -> SUBSET (MCThree \cup {"u"})]
    \cup {r \in [MCFour -> SUBSET MCFour] : \A p \in MCFour : p \notin r[p]}
    \cup {Plain, Loose, Knot, Selfish, AllowedDependencies}

MCTrees(r) ==
  CASE r = Plain           -> OneImport \cup BothWays \cup Dynamic \cup Missing
    [] r = Loose             -> Unruly
    [] r \in {Knot, Selfish} -> BothWays
    [] OTHER                    -> Empty(r)

(* Only the trees with calls, for the run about those.                       *)
MCDynamicRules    == {Plain}
MCDynamicTrees(r) == Dynamic
=============================================================================
