---------------------------- MODULE PackageRules ----------------------------
(* The dependency rules that scripts/check_import_boundaries.py enforces, as *)
(* data: a function from each declared package to the packages it may        *)
(* import, and what "the rules are acyclic" means.                           *)
EXTENDS Integers, Sequences, FiniteSets

(* The rules in the repository, ALLOWED_DEPENDENCIES.                        *)
Leaves == {"audit", "configuration", "data"}

AllowedDependencies ==
  LET inner == [ strategy       |-> {"data"},
                 portfolio      |-> {"data", "strategy"},
                 risk           |-> {"audit", "configuration", "data", "portfolio"},
                 execution      |-> {"audit", "configuration", "portfolio", "risk"},
                 reconciliation |-> {"audit", "execution", "portfolio"},
                 backtest       |-> {"audit", "configuration", "data", "execution", "portfolio",
                                     "reconciliation", "risk", "strategy"},
                 experiment     |-> {"audit", "backtest", "configuration"},
                 validation     |-> {"data", "experiment"},
                 registry       |-> {"audit", "configuration", "experiment", "validation"},
                 monitoring     |-> {"audit", "execution", "experiment", "reconciliation",
                                     "registry", "risk", "validation"},
                 control_plane  |-> {"audit", "configuration", "monitoring"} ]
      below == DOMAIN inner \cup Leaves
  IN  [p \in below \cup {"deployment"} |->
         CASE p \in DOMAIN inner -> inner[p]
           [] p \in Leaves       -> {}
           [] p = "deployment"   -> below]

-----------------------------------------------------------------------------
Declared(rules) == DOMAIN rules

(* The dependencies of p that are declared packages themselves.              *)
Dependencies(rules, p) == rules[p] \cap Declared(rules)

(* Every nonempty set of packages has a member that depends on none of them: *)
(* the packages can be put in an order in which each comes after those it    *)
(* depends on.                                                               *)
Acyclic(rules) ==
  \A S \in SUBSET Declared(rules) : S # {} => \E p \in S : rules[p] \cap S = {}

(* With a package of S, all that it depends on is in S.                      *)
Closed(rules, S) == \A q \in S : Dependencies(rules, q) \subseteq S

(* What p depends on, directly or through others: what is in every closed    *)
(* set that has the dependencies of p.                                       *)
Below(rules, p) ==
  {q \in Declared(rules) :
     \A S \in SUBSET Declared(rules) :
       Closed(rules, S) /\ Dependencies(rules, p) \subseteq S => q \in S}

(* A sequence of packages that goes round a cycle once: it ends where it     *)
(* began, visits nothing else twice, and each step is declared by a rule.    *)
IsCycle(rules, c) ==
  /\ Len(c) > 1
  /\ c[1] = c[Len(c)]
  /\ \A i \in 1..Len(c) : c[i] \in Declared(rules)
  /\ \A i, j \in 1..(Len(c) - 1) : c[i] = c[j] => i = j
  /\ \A i \in 1..(Len(c) - 1) : c[i + 1] \in rules[c[i]]
=============================================================================
