---------------------------- MODULE CycleSearch -----------------------------
(* The search for declared dependency cycles in _policy_violations of        *)
(* scripts/check_import_boundaries.py: a depth-first search by the recursive *)
(* function visit, one action per turn of its loops.  The call stack is      *)
(* activePath with, for each call, the dependencies its loop has still to    *)
(* see; names are taken in sorted order.                                     *)
EXTENDS PackageRules

CONSTANTS Name,      \* package names, declared or only mentioned by a rule
          Rank,      \* a name's place in sorted order
          RuleSets   \* the rules that may be declared

ASSUME RulesAssumption ==
  /\ Rank \in [Name -> Int]
  /\ \A r \in RuleSets :
       /\ Declared(r) \subseteq Name
       /\ IsFiniteSet(Declared(r))
       /\ \A p \in Declared(r) : r[p] \subseteq Name /\ IsFiniteSet(r[p])

VARIABLES rules,            \* ALLOWED_DEPENDENCIES
          roots,            \* declared packages the outer loop has still to see
          visited,          \* packages whose dependencies have been seen
          activePath,       \* packages being visited, outermost first
          activePackages,   \* the same as a set
          pending,          \* for each of them, dependencies still to see
          cycles            \* cycles found

searchVars == <<rules, roots, visited, activePath, activePackages, pending, cycles>>

IsFirst(n, S) == n \in S /\ \A m \in S : Rank[n] <= Rank[m]

Depth    == Len(activePath)
Active   == activePath[Depth]
Returned == roots = {} /\ activePath = <<>>

(* Slip: only packages that nobody depends on are roots.                     *)
SearchInit_TopOnly ==
  /\ rules \in RuleSets
  /\ roots = Declared(rules) \ UNION {rules[p] : p \in Declared(rules)}
  /\ visited = {}
  /\ activePath = <<>>
  /\ activePackages = {}
  /\ pending = <<>>
  /\ cycles = {}

SearchInit ==
  /\ rules \in RuleSets
  /\ roots = Declared(rules)
  /\ visited = {}
  /\ activePath = <<>>
  /\ activePackages = {}
  /\ pending = <<>>
  /\ cycles = {}

(* visit(p) begins, called with `rest` left to see in the caller's loop.     *)
Enter(p, rest) ==
  /\ activePath' = Append(activePath, p)
  /\ activePackages' = activePackages \cup {p}
  /\ pending' = Append(rest, rules[p])

(* Slip: the outer loop gives up once a cycle is found.                      *)
VisitRoot_UntilFound(p) ==
  /\ activePath = <<>>
  /\ IsFirst(p, roots)
  /\ roots' = roots \ {p}
  /\ IF p \in visited \/ cycles # {}
     THEN UNCHANGED <<activePath, activePackages, pending>>
     ELSE Enter(p, pending)
  /\ UNCHANGED <<rules, visited, cycles>>

VisitRoot(p) ==
  /\ activePath = <<>>
  /\ IsFirst(p, roots)
  /\ roots' = roots \ {p}
  /\ IF p \in visited
     THEN UNCHANGED <<activePath, activePackages, pending>>
     ELSE Enter(p, pending)
  /\ UNCHANGED <<rules, visited, cycles>>

(* The loop of the innermost visit takes its next dependency d.              *)
Takes(d)  == activePath # <<>> /\ IsFirst(d, pending[Depth])
Rest(d)   == [pending EXCEPT ![Depth] = @ \ {d}]
MoveOn(d) == pending' = Rest(d) /\ UNCHANGED <<activePath, activePackages>>

(* Slip: an unknown dependency is never taken off the list.                  *)
SkipUndeclared_Again(d) ==
  /\ Takes(d)
  /\ d \notin Declared(rules)
  /\ UNCHANGED searchVars

SkipUndeclared(d) ==
  /\ Takes(d)
  /\ d \notin Declared(rules)
  /\ MoveOn(d)
  /\ UNCHANGED <<rules, roots, visited, cycles>>

IsActive(d) == d \in activePackages

(* Slip: the whole path is taken for the cycle.                              *)
CycleThrough_WholePath(d) == Append(activePath, d)

(* The path from d back to d.                                                *)
CycleThrough(d) ==
  LET start == CHOOSE i \in 1..Depth : activePath[i] = d
  IN  Append(SubSeq(activePath, start, Depth), d)

ReportCycle(d) ==
  /\ Takes(d)
  /\ d \in Declared(rules)
  /\ IsActive(d)
  /\ cycles' = cycles \cup {CycleThrough(d)}
  /\ MoveOn(d)
  /\ UNCHANGED <<rules, roots, visited>>

SkipVisited(d) ==
  /\ Takes(d)
  /\ d \in Declared(rules)
  /\ ~IsActive(d)
  /\ d \in visited
  /\ MoveOn(d)
  /\ UNCHANGED <<rules, roots, visited, cycles>>

Descend(d) ==
  /\ Takes(d)
  /\ d \in Declared(rules)
  /\ ~IsActive(d)
  /\ d \notin visited
  /\ Enter(d, Rest(d))
  /\ UNCHANGED <<rules, roots, visited, cycles>>

Leave ==
  /\ activePath # <<>>
  /\ pending[Depth] = {}
  /\ activePath' = SubSeq(activePath, 1, Depth - 1)
  /\ pending' = SubSeq(pending, 1, Depth - 1)
  /\ activePackages' = activePackages \ {Active}
  /\ visited' = visited \cup {Active}
  /\ UNCHANGED <<rules, roots, cycles>>

SearchNext ==
  \/ \E p \in roots : VisitRoot(p)
  \/ \E d \in Name : SkipUndeclared(d) \/ ReportCycle(d) \/ SkipVisited(d) \/ Descend(d)
  \/ Leave

SearchSpec == SearchInit /\ [][SearchNext]_searchVars

-----------------------------------------------------------------------------
(* Types; the path and the set of packages being visited are two views of    *)
(* the same call stack (lines 322-323 and 332-333).                          *)
SearchTypeOK ==
  /\ rules \in RuleSets
  /\ roots \subseteq Declared(rules)
  /\ visited \subseteq Declared(rules)
  /\ activePath \in Seq(Declared(rules))
  /\ activePackages = {activePath[i] : i \in 1..Depth}
  /\ pending \in Seq(SUBSET Name)
  /\ Len(pending) = Depth
  /\ cycles \subseteq Seq(Declared(rules))

(* What the search reports as a cycle is one, and goes round it once         *)
(* (lines 327-329): it is the part of the path from d on, closed by d.       *)
CyclesAreReal == \A c \in cycles : IsCycle(rules, c)

(* When the search returns, it has reported something exactly when the rules *)
(* are not acyclic: main fails on the reported cycles only (lines 340-347),  *)
(* and the plan asks for rules that are acyclic (BUB-7, line 18).            *)
Verdict == Returned => (cycles = {} <=> Acyclic(rules))

(* Each group of packages that depend on each other is named by a reported   *)
(* cycle, although the search does not report every cycle of the group:      *)
(* whoever breaks the reported ones is told of the others by the next run.   *)
EveryKnotReported ==
  Returned =>
    \A p \in Declared(rules) :
      p \in Below(rules, p) =>
        \E c \in cycles : \A i \in 1..Len(c) :
          c[i] \in Below(rules, p) /\ p \in Below(rules, c[i])

(* The recursion of visit is never deeper than there are declared packages,  *)
(* whatever the rules: a package is not entered again while it is active.    *)
DepthBounded == Depth <= Cardinality(Declared(rules))
=============================================================================
