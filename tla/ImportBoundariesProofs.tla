----------------------- MODULE ImportBoundariesProofs -----------------------
(***************************************************************************)
(* Theorems about the import boundary checker: first its search for cycles, *)
(* for any rules over any finitely many packages, taken in any order; then *)
(* ImportBoundaries, for any rules and any source trees of well-formed     *)
(* names.  The checker runs the search as it is: whatever is proved of the *)
(* search holds of the checker.                                            *)
(***************************************************************************)
EXTENDS ImportBoundaries, SequenceTheorems, FiniteSetTheorems, WellFoundedInduction, TLAPS

-----------------------------------------------------------------------------
(* The inductive invariant of the search *)

\* The call stack: a simple path along the rules, of packages whose visit has
\* not ended, each with some of its own dependencies still to see.
Stack ==
  /\ \A i, j \in 1..Depth : activePath[i] = activePath[j] => i = j
  /\ \A i \in 1..(Depth - 1) : activePath[i + 1] \in rules[activePath[i]]
  /\ \A i \in 1..Depth : pending[i] \subseteq rules[activePath[i]]
  /\ \A i \in 1..Depth : activePath[i] \notin visited

\* Two packages that a reported cycle goes through.
OnCycle(c, p) == \E i \in 1..Len(c) : c[i] = p
Joined(p, d)  == \E c \in cycles : OnCycle(c, p) /\ OnCycle(c, d)

\* Each dependency taken so far is visited, is on a reported cycle with the
\* package it was taken for, or is the next package on the path.
Seen ==
  \A i \in 1..Depth : \A d \in Dependencies(rules, activePath[i]) \ pending[i] :
    \/ d \in visited
    \/ Joined(activePath[i], d)
    \/ i < Depth /\ d = activePath[i + 1]

\* The visited packages depend on visited packages only, but for what a reported
\* cycle goes through; and every group of them has a member that depends on none
\* of the group, or one on a reported cycle.
Grounded ==
  /\ \A p \in visited : \A d \in Dependencies(rules, p) : d \in visited \/ Joined(p, d)
  /\ \A S \in SUBSET visited :
       S # {} => \/ \E p \in S : rules[p] \cap S = {}
                 \/ \E p \in S : Joined(p, p)

\* No declared package is forgotten.
Outer == \A p \in Declared(rules) : p \in roots \/ p \in visited \/ p \in activePackages

IInv == SearchTypeOK /\ CyclesAreReal /\ Stack /\ Seen /\ Grounded /\ Outer

-----------------------------------------------------------------------------
(* The operations on the call stack *)

\* What SearchTypeOK and RulesAssumption say of lengths and elements.
LEMMA Shape ==
  ASSUME SearchTypeOK
  PROVE  /\ Depth \in Nat
         /\ \A i \in 1..Depth : activePath[i] \in Declared(rules)
         /\ \A i \in 1..Depth : pending[i] \subseteq Name
         /\ Declared(rules) \subseteq Name
         /\ \A p \in Declared(rules) : rules[p] \subseteq Name
         /\ (activePath = <<>>) <=> (Depth = 0)
BY RulesAssumption DEF SearchTypeOK, Depth

\* A visit that begins keeps the invariant.
LEMMA EnterOk ==
  ASSUME IInv,
         NEW p \in Declared(rules), p \notin activePackages, p \notin visited,
         NEW rest \in Seq(SUBSET Name), Len(rest) = Depth,
         \A i \in 1..Depth : rest[i] \subseteq pending[i],
         \A i \in 1..(Depth - 1) : rest[i] = pending[i],
         Depth > 0 => p \in rules[activePath[Depth]] /\ pending[Depth] \subseteq rest[Depth] \cup {p},
         Enter(p, rest),
         UNCHANGED <<rules, visited, cycles>>,
         roots' \subseteq roots, roots \ {p} \subseteq roots'
  PROVE  IInv'
<1> USE DEF Declared
<1>1. /\ Depth \in Nat /\ activePath \in Seq(Declared(rules))
      /\ \A i \in 1..Depth : activePath[i] \in Declared(rules)
      /\ rules[p] \subseteq Name
  BY Shape DEF IInv, SearchTypeOK
<1>2. /\ activePath' = Append(activePath, p)
      /\ pending' = Append(rest, rules[p])
      /\ activePackages' = activePackages \cup {p}
  BY DEF Enter
<1>3. /\ activePath' \in Seq(Declared(rules))
      /\ Len(activePath') = Depth + 1
      /\ \A i \in 1..Depth : activePath'[i] = activePath[i]
      /\ activePath'[Depth + 1] = p
  BY <1>1, <1>2 DEF Depth
<1>4. /\ pending' \in Seq(SUBSET Name)
      /\ Len(pending') = Depth + 1
      /\ \A i \in 1..Depth : pending'[i] = rest[i]
      /\ pending'[Depth + 1] = rules[p]
  BY <1>1, <1>2
<1>5. Depth' = Depth + 1
  BY <1>3 DEF Depth
<1>6. \A i \in 1..Depth : activePath[i] \in activePackages
  BY DEF IInv, SearchTypeOK
<1>7. SearchTypeOK'
  <2>1. activePackages' = {activePath'[i] : i \in 1..(Depth + 1)}
    BY <1>1, <1>2, <1>3 DEF IInv, SearchTypeOK
  <2> QED BY <1>3, <1>4, <1>5, <2>1 DEF IInv, SearchTypeOK
<1>8. CyclesAreReal'
  BY DEF IInv, CyclesAreReal, IsCycle
<1>9. Stack'
  <2>1. \A i, j \in 1..(Depth + 1) : activePath'[i] = activePath'[j] => i = j
    <3> SUFFICES ASSUME NEW i \in 1..(Depth + 1), NEW j \in 1..(Depth + 1),
                        activePath'[i] = activePath'[j], i # j
                 PROVE  FALSE
      OBVIOUS
    <3>1. CASE i \in 1..Depth /\ j \in 1..Depth
      BY <1>3, <3>1 DEF IInv, Stack
    <3>2. CASE i = Depth + 1 /\ j \in 1..Depth
      BY <1>3, <1>6, <3>2
    <3>3. CASE j = Depth + 1 /\ i \in 1..Depth
      BY <1>3, <1>6, <3>3
    <3> QED BY <1>1, <3>1, <3>2, <3>3
  <2>2. \A i \in 1..Depth : activePath'[i + 1] \in rules[activePath'[i]]
    BY <1>1, <1>3 DEF IInv, Stack
  <2>3. \A i \in 1..(Depth + 1) : pending'[i] \subseteq rules[activePath'[i]]
    BY <1>1, <1>3, <1>4 DEF IInv, Stack
  <2>4. \A i \in 1..(Depth + 1) : activePath'[i] \notin visited
    BY <1>1, <1>3 DEF IInv, Stack
  <2>5. (Depth + 1) - 1 = Depth
    BY <1>1
  <2> QED BY <1>5, <2>1, <2>2, <2>3, <2>4, <2>5 DEF Stack
<1>10. Seen'
  <2> SUFFICES ASSUME NEW i \in 1..(Depth + 1),
                      NEW d \in Dependencies(rules, activePath'[i]) \ pending'[i]
               PROVE  \/ d \in visited
                      \/ Joined(activePath'[i], d)
                      \/ i < Depth + 1 /\ d = activePath'[i + 1]
    BY <1>5 DEF Seen, Dependencies, Joined
  <2>1. CASE i = Depth + 1
    BY <2>1, <1>3, <1>4 DEF Dependencies
  <2>2. CASE i = Depth
    <3>1. d \in Dependencies(rules, activePath[i]) /\ d \notin rest[i] /\ activePath'[i] = activePath[i]
      BY <1>1, <1>3, <1>4, <2>2
    <3>2. CASE d \in pending[i]
      BY <1>1, <1>3, <2>2, <3>1, <3>2
    <3>3. CASE d \notin pending[i]
      BY <1>1, <2>2, <3>1, <3>3 DEF IInv, Seen
    <3> QED BY <3>2, <3>3
  <2>3. CASE i \in 1..(Depth - 1)
    <3>1. d \in Dependencies(rules, activePath[i]) \ pending[i] /\ activePath'[i] = activePath[i]
      BY <1>1, <1>3, <1>4, <2>3
    <3>2. d \in visited \/ Joined(activePath[i], d) \/ d = activePath[i + 1]
      BY <1>1, <2>3, <3>1 DEF IInv, Seen
    <3> QED BY <1>1, <1>3, <2>3, <3>1, <3>2
  <2> QED BY <1>1, <2>1, <2>2, <2>3
<1>11. Grounded'
  BY DEF IInv, Grounded, Dependencies, Joined
<1>12. Outer'
  BY <1>2 DEF IInv, Outer
<1> QED BY <1>7, <1>8, <1>9, <1>10, <1>11, <1>12 DEF IInv

\* What it means that the innermost loop takes a dependency and moves on.
LEMMA RestOk ==
  ASSUME IInv, NEW d, Takes(d)
  PROVE  /\ Depth \in Nat \ {0}
         /\ d \in pending[Depth] /\ d \in rules[activePath[Depth]] /\ d \in Name
         /\ Rest(d) \in Seq(SUBSET Name)
         /\ Len(Rest(d)) = Depth
         /\ \A i \in 1..(Depth - 1) : Rest(d)[i] = pending[i]
         /\ Rest(d)[Depth] = pending[Depth] \ {d}
<1>1. Depth \in Nat /\ Depth # 0 /\ activePath # <<>>
  BY Shape DEF IInv, Takes
<1>2. d \in pending[Depth]
  BY DEF Takes, IsFirst
<1>3. pending \in Seq(SUBSET Name) /\ Len(pending) = Depth
  BY DEF IInv, SearchTypeOK
<1>4. pending[Depth] \subseteq Name /\ pending[Depth] \subseteq rules[activePath[Depth]]
  BY <1>1, <1>3 DEF IInv, Stack
<1>5. pending \in [1..Depth -> SUBSET Name]
  BY <1>1, <1>3
<1>6. /\ Rest(d) \in [1..Depth -> SUBSET Name]
      /\ \A i \in 1..(Depth - 1) : Rest(d)[i] = pending[i]
      /\ Rest(d)[Depth] = pending[Depth] \ {d}
  BY <1>1, <1>4, <1>5 DEF Rest
<1>7. Rest(d) \in Seq(SUBSET Name) /\ Len(Rest(d)) = Depth
  BY <1>1, <1>6
<1> QED BY <1>1, <1>2, <1>4, <1>6, <1>7

\* A loop that moves on past d keeps the invariant, when d is not declared, is
\* visited, or closes a cycle that is reported.
LEMMA MoveOnOk ==
  ASSUME IInv, NEW d, Takes(d), MoveOn(d),
         UNCHANGED <<rules, roots, visited>>,
         \/ cycles' = cycles /\ (d \notin Declared(rules) \/ d \in visited)
         \/ \E c \in Seq(Declared(rules)) :
              /\ IsCycle(rules, c) /\ OnCycle(c, Active) /\ OnCycle(c, d)
              /\ cycles' = cycles \cup {c}
  PROVE  IInv'
<1>1. /\ Depth \in Nat \ {0}
      /\ Rest(d) \in Seq(SUBSET Name)
      /\ Len(Rest(d)) = Depth
      /\ \A i \in 1..(Depth - 1) : Rest(d)[i] = pending[i]
      /\ Rest(d)[Depth] = pending[Depth] \ {d}
  BY RestOk
<1>2. /\ pending' = Rest(d) /\ activePath' = activePath
      /\ activePackages' = activePackages /\ Depth' = Depth
  BY DEF MoveOn, Depth
<1>3. SearchTypeOK'
  BY <1>1, <1>2 DEF IInv, SearchTypeOK, Declared
<1>4. CyclesAreReal'
  BY DEF IInv, CyclesAreReal, IsCycle, Declared
<1>5. Stack'
  <2>1. \A i \in 1..Depth : Rest(d)[i] \subseteq rules[activePath[i]]
    BY <1>1 DEF IInv, Stack
  <2> QED BY <1>2, <2>1 DEF IInv, Stack
<1>6. cycles \subseteq cycles'
  OBVIOUS
<1>7. Seen'
  <2> SUFFICES ASSUME NEW i \in 1..Depth,
                      NEW e \in Dependencies(rules, activePath[i]) \ Rest(d)[i]
               PROVE  \/ e \in visited
                      \/ Joined(activePath[i], e)'
                      \/ i < Depth /\ e = activePath[i + 1]
    BY <1>2 DEF Seen, Dependencies, Declared, Joined
  <2>1. CASE e \notin pending[i]
    <3>1. e \in visited \/ Joined(activePath[i], e) \/ (i < Depth /\ e = activePath[i + 1])
      BY <2>1 DEF IInv, Seen
    <3> QED BY <1>2, <1>6, <3>1 DEF Joined
  <2>2. CASE e \in pending[i]
    <3>1. e = d /\ i = Depth
      BY <1>1, <2>2
    <3>2. e \in Declared(rules)
      BY DEF Dependencies
    <3>3. CASE d \in visited
      BY <3>1, <3>3
    <3>4. CASE d \notin visited
      <4>1. PICK c \in cycles' : OnCycle(c, Active) /\ OnCycle(c, d)
        BY <3>1, <3>2, <3>4
      <4> QED BY <1>2, <3>1, <4>1 DEF Joined, Active
    <3> QED BY <3>3, <3>4
  <2> QED BY <2>1, <2>2
<1>8. Grounded'
  <2>1. \A p \in visited : \A e \in Dependencies(rules, p) : e \in visited \/ Joined(p, e)'
    BY <1>6 DEF IInv, Grounded, Joined
  <2>2. \A S \in SUBSET visited :
          S # {} => (\E p \in S : rules[p] \cap S = {}) \/ (\E p \in S : Joined(p, p)')
    BY <1>6 DEF IInv, Grounded, Joined
  <2> QED BY <2>1, <2>2 DEF Grounded, Dependencies, Declared, Joined
<1>9. Outer'
  BY <1>2 DEF IInv, Outer, Declared
<1> QED BY <1>3, <1>4, <1>5, <1>7, <1>8, <1>9 DEF IInv

\* A visit that ends keeps the invariant: what it leaves behind is visited, and
\* depends on visited packages only.
LEMMA LeaveOk == IInv /\ Leave => IInv'
<1> SUFFICES ASSUME IInv, Leave PROVE IInv'
  OBVIOUS
<1> DEFINE p == activePath[Depth]
           n == Depth - 1
<1>1. /\ Depth \in Nat \ {0} /\ n \in Nat
      /\ p \in Declared(rules)
      /\ activePath \in Seq(Declared(rules))
      /\ pending \in Seq(SUBSET Name) /\ Len(pending) = Depth
  BY Shape DEF IInv, SearchTypeOK, Leave
<1>2. /\ activePath' = SubSeq(activePath, 1, n)
      /\ pending' = SubSeq(pending, 1, n)
      /\ activePackages' = activePackages \ {p}
      /\ visited' = visited \cup {p}
      /\ UNCHANGED <<rules, roots, cycles>>
      /\ pending[Depth] = {}
  BY DEF Leave, Active
<1>3. /\ activePath' \in Seq(Declared(rules))
      /\ Len(activePath') = n
      /\ \A i \in 1..n : activePath'[i] = activePath[i]
  <2>1. \A i \in 1..n : activePath[i] \in Declared(rules)
    BY <1>1, Shape DEF IInv
  <2> HIDE DEF n
  <2> QED BY <1>1, <1>2, <2>1, SubSeqProperties
<1>4. /\ pending' \in Seq(SUBSET Name)
      /\ Len(pending') = n
      /\ \A i \in 1..n : pending'[i] = pending[i]
  <2>1. \A i \in 1..n : pending[i] \in SUBSET Name
    BY <1>1, Shape DEF IInv
  <2> HIDE DEF n
  <2> QED BY <1>1, <1>2, <2>1, SubSeqProperties
<1>5. Depth' = n
  BY <1>3 DEF Depth
<1>6. \A i \in 1..n : activePath[i] # p
  BY <1>1 DEF IInv, Stack
<1>7. SearchTypeOK'
  <2>1. activePackages' = {activePath'[i] : i \in 1..n}
    <3>1. activePackages = {activePath[i] : i \in 1..Depth}
      BY DEF IInv, SearchTypeOK
    <3>2. 1..Depth = 1..n \cup {Depth}
      BY <1>1
    <3> QED BY <1>2, <1>3, <1>6, <3>1, <3>2
  <2> QED BY <1>1, <1>2, <1>3, <1>4, <1>5, <2>1 DEF IInv, SearchTypeOK
<1>8. CyclesAreReal'
  BY <1>2 DEF IInv, CyclesAreReal
<1>9. Stack'
  <2>1. \A i, j \in 1..n : activePath'[i] = activePath'[j] => i = j
    BY <1>1, <1>3 DEF IInv, Stack
  <2>2. \A i \in 1..(n - 1) : activePath'[i + 1] \in rules[activePath'[i]]
    BY <1>1, <1>3 DEF IInv, Stack
  <2>3. \A i \in 1..n : pending'[i] \subseteq rules[activePath'[i]]
    BY <1>1, <1>3, <1>4 DEF IInv, Stack
  <2>4. \A i \in 1..n : activePath'[i] \notin visited \cup {p}
    <3> SUFFICES ASSUME NEW i \in 1..n PROVE activePath[i] \notin visited \cup {p}
      BY <1>3
    <3>1. i \in 1..Depth
      BY <1>1
    <3>2. activePath[i] \notin visited
      BY <3>1 DEF IInv, Stack
    <3> QED BY <1>6, <3>2
  <2> QED BY <1>2, <1>5, <2>1, <2>2, <2>3, <2>4 DEF Stack
<1>10. Seen'
  <2> SUFFICES ASSUME NEW i \in 1..n,
                      NEW d \in Dependencies(rules, activePath'[i]) \ pending'[i]
               PROVE  \/ d \in visited \cup {p}
                      \/ Joined(activePath'[i], d)
                      \/ i < n /\ d = activePath'[i + 1]
    BY <1>2, <1>5 DEF Seen, Joined
  <2>1. d \in visited \/ Joined(activePath'[i], d) \/ d = activePath[i + 1]
    <3>1. i \in 1..Depth /\ activePath'[i] = activePath[i] /\ pending'[i] = pending[i]
      BY <1>1, <1>3, <1>4
    <3>2. d \in Dependencies(rules, activePath[i]) \ pending[i]
      BY <3>1
    <3> QED BY <3>1, <3>2 DEF IInv, Seen
  <2>2. CASE i = n
    BY <1>1, <2>1, <2>2
  <2>3. CASE i \in 1..(n - 1)
    BY <1>1, <1>3, <2>1, <2>3
  <2> QED BY <1>1, <2>2, <2>3
<1>11. Grounded'
  <2> SUFFICES /\ \A q \in visited \cup {p} : \A d \in Dependencies(rules, q) :
                    d \in visited \cup {p} \/ Joined(q, d)
               /\ \A S \in SUBSET (visited \cup {p}) :
                    S # {} => (\E q \in S : rules[q] \cap S = {}) \/ (\E q \in S : Joined(q, q))
    BY <1>2 DEF Grounded, Joined
  <2>1. /\ \A d \in Dependencies(rules, p) : d \in visited \/ Joined(p, d)
        /\ p \notin visited
    <3>1. Depth \in 1..Depth /\ ~(Depth < Depth)
      BY <1>1
    <3>2. \A d \in Dependencies(rules, activePath[Depth]) \ pending[Depth] :
            d \in visited \/ Joined(activePath[Depth], d)
      BY <3>1 DEF IInv, Seen
    <3> QED BY <1>2, <3>1, <3>2 DEF IInv, Stack
  <2>2. /\ visited \subseteq Declared(rules)
        /\ \A q \in visited : \A d \in Dependencies(rules, q) : d \in visited \/ Joined(q, d)
    BY DEF IInv, SearchTypeOK, Grounded
  <2>3. ASSUME NEW q, Joined(q, p)
        PROVE  Joined(q, q)
    BY <2>3 DEF Joined
  <2>4. ASSUME NEW S \in SUBSET (visited \cup {p}), S # {}, ~\E q \in S : Joined(q, q)
        PROVE  \E q \in S : rules[q] \cap S = {}
    <3>1. S \subseteq Declared(rules)
      BY <1>1, <2>2
    <3>2. CASE S \ {p} = {}
      <4>1. S = {p}
        BY <2>4, <3>2
      <4> QED BY <1>1, <2>1, <2>3, <2>4, <4>1 DEF Dependencies
    <3>3. CASE S \ {p} # {}
      <4>1. S \ {p} \in SUBSET visited
        OBVIOUS
      <4>2. PICK q \in S \ {p} : rules[q] \cap (S \ {p}) = {}
        BY <2>4, <3>3, <4>1 DEF IInv, Grounded
      <4>3. q \in visited /\ ~Joined(q, p)
        BY <2>3, <2>4
      <4>4. p \notin rules[q]
        BY <1>1, <2>1, <2>2, <4>3 DEF Dependencies
      <4> QED BY <4>2, <4>4
    <3> QED BY <3>2, <3>3
  <2> QED BY <2>1, <2>2, <2>4
<1>12. Outer'
  BY <1>2 DEF IInv, Outer
<1> QED BY <1>7, <1>8, <1>9, <1>10, <1>11, <1>12 DEF IInv

\* A dependency that is being visited closes a cycle: the path from it on.
LEMMA CycleOk ==
  ASSUME IInv, NEW d, Takes(d), IsActive(d)
  PROVE  /\ CycleThrough(d) \in Seq(Declared(rules))
         /\ IsCycle(rules, CycleThrough(d))
         /\ OnCycle(CycleThrough(d), Active) /\ OnCycle(CycleThrough(d), d)
<1> DEFINE start == CHOOSE i \in 1..Depth : activePath[i] = d
           part  == SubSeq(activePath, start, Depth)
           m     == Depth - start + 1
           c     == Append(part, d)
<1>1. Depth \in Nat \ {0} /\ d \in rules[activePath[Depth]]
  BY RestOk
<1>2. start \in 1..Depth /\ activePath[start] = d
  BY DEF IInv, SearchTypeOK, IsActive
<1>3. d \in Declared(rules) /\ \A i \in 1..Depth : activePath[i] \in Declared(rules)
  BY <1>2, Shape DEF IInv
<1>4. CycleThrough(d) = c
  BY DEF CycleThrough
<1> HIDE DEF start
<1>5. m \in Nat \ {0}
  BY <1>1, <1>2
<1>6. /\ part \in Seq(Declared(rules))
      /\ Len(part) = m
      /\ \A i \in 1..m : part[i] = activePath[start + i - 1]
  <2>1. \A i \in start..Depth : activePath[i] \in Declared(rules)
    BY <1>1, <1>2, <1>3
  <2>2. start \in Int /\ Depth \in Int /\ start <= Depth
    BY <1>1, <1>2
  <2> QED BY <2>1, <2>2, SubSeqProperties
<1> HIDE DEF part
<1>7. /\ c \in Seq(Declared(rules))
      /\ Len(c) = m + 1
      /\ \A i \in 1..m : c[i] = activePath[start + i - 1]
      /\ c[m + 1] = d
  BY <1>3, <1>5, <1>6
<1> HIDE DEF c
<1>8. c[1] = c[m + 1]
  BY <1>1, <1>2, <1>5, <1>7
<1>9. \A i \in 1..(m + 1) : c[i] \in Declared(rules)
  BY <1>5, <1>7
<1>10. \A i, j \in 1..m : c[i] = c[j] => i = j
  <2> SUFFICES ASSUME NEW i \in 1..m, NEW j \in 1..m, c[i] = c[j]
               PROVE  i = j
    OBVIOUS
  <2>1. start + i - 1 \in 1..Depth /\ start + j - 1 \in 1..Depth
    BY <1>1, <1>2
  <2>2. start + i - 1 = start + j - 1
    BY <1>7, <2>1 DEF IInv, Stack
  <2> QED BY <1>1, <1>2, <2>2
<1>11. \A i \in 1..m : c[i + 1] \in rules[c[i]]
  <2> SUFFICES ASSUME NEW i \in 1..m PROVE c[i + 1] \in rules[c[i]]
    OBVIOUS
  <2>1. CASE i = m
    <3>1. c[i] = activePath[Depth]
      BY <1>1, <1>2, <1>5, <1>7, <2>1
    <3> QED BY <1>1, <1>7, <2>1, <3>1
  <2>2. CASE i \in 1..(m - 1)
    <3>1. start + i - 1 \in 1..(Depth - 1) /\ (start + i - 1) + 1 = start + (i + 1) - 1
      BY <1>1, <1>2, <2>2
    <3>2. activePath[(start + i - 1) + 1] \in rules[activePath[start + i - 1]]
      BY <3>1 DEF IInv, Stack
    <3>3. c[i] = activePath[start + i - 1] /\ c[i + 1] = activePath[start + (i + 1) - 1]
      BY <1>5, <1>7, <2>2
    <3> QED BY <3>1, <3>2, <3>3
  <2> QED BY <1>5, <2>1, <2>2
<1>12. Len(c) - 1 = m /\ Len(c) > 1
  BY <1>5, <1>7
<1>13. OnCycle(c, activePath[Depth]) /\ OnCycle(c, d)
  <2>1. m \in 1..(m + 1) /\ c[m] = activePath[Depth]
    BY <1>1, <1>2, <1>5, <1>7
  <2>2. m + 1 \in 1..(m + 1)
    BY <1>5
  <2> QED BY <1>7, <2>1, <2>2 DEF OnCycle
<1> QED BY <1>4, <1>7, <1>8, <1>9, <1>10, <1>11, <1>12, <1>13 DEF IsCycle, Active

-----------------------------------------------------------------------------
(* Theorems about the search *)

LEMMA InitOk == SearchInit => IInv
<1> SUFFICES ASSUME SearchInit PROVE IInv
  OBVIOUS
<1>1. Depth = 0 /\ 1..0 = {} /\ 1..(0 - 1) = {}
  BY DEF SearchInit, Depth
<1>2. SearchTypeOK
  BY <1>1 DEF SearchInit, SearchTypeOK
<1>3. Stack /\ Seen
  BY <1>1 DEF Stack, Seen
<1>4. CyclesAreReal /\ Grounded /\ Outer
  BY DEF SearchInit, CyclesAreReal, Grounded, Outer
<1> QED BY <1>2, <1>3, <1>4 DEF IInv

LEMMA NextOk == IInv /\ [SearchNext]_searchVars => IInv'
<1> SUFFICES ASSUME IInv, [SearchNext]_searchVars PROVE IInv'
  OBVIOUS
<1>1. ASSUME NEW p \in roots, VisitRoot(p)
      PROVE  IInv'
  <2>1. /\ p \in Declared(rules) /\ Depth = 0
        /\ pending \in Seq(SUBSET Name) /\ Len(pending) = Depth
        /\ activePackages = {activePath[i] : i \in 1..Depth}
    BY <1>1, Shape DEF IInv, SearchTypeOK, VisitRoot
  <2>2. activePackages = {}
    BY <2>1
  <2>3. CASE p \in visited
    <3>1. /\ roots' = roots \ {p}
          /\ UNCHANGED <<rules, visited, activePath, activePackages, pending, cycles, Depth>>
      BY <1>1, <2>3 DEF VisitRoot, Depth
    <3>2. SearchTypeOK'
      BY <3>1 DEF IInv, SearchTypeOK
    <3>3. CyclesAreReal' /\ Grounded'
      BY <3>1 DEF IInv, CyclesAreReal, Grounded, Joined
    <3>4. Stack' /\ Seen'
      BY <3>1 DEF IInv, Stack, Seen, Joined
    <3>5. Outer'
      BY <2>3, <3>1 DEF IInv, Outer
    <3> QED BY <3>2, <3>3, <3>4, <3>5 DEF IInv
  <2>4. CASE p \notin visited
    <3>1. /\ Enter(p, pending) /\ roots' = roots \ {p}
          /\ UNCHANGED <<rules, visited, cycles>>
      BY <1>1, <2>4 DEF VisitRoot
    <3>2. p \notin activePackages
      BY <2>2
    <3>3. /\ \A i \in 1..Depth : pending[i] \subseteq pending[i]
          /\ \A i \in 1..(Depth - 1) : pending[i] = pending[i]
          /\ ~(Depth > 0)
          /\ roots' \subseteq roots /\ roots \ {p} \subseteq roots'
      BY <2>1, <3>1
    <3> QED BY <2>1, <2>4, <3>1, <3>2, <3>3, EnterOk
  <2> QED BY <2>3, <2>4
<1>2. ASSUME NEW d \in Name, SkipUndeclared(d)
      PROVE  IInv'
  BY <1>2, MoveOnOk DEF SkipUndeclared
<1>3. ASSUME NEW d \in Name, ReportCycle(d)
      PROVE  IInv'
  BY <1>3, CycleOk, MoveOnOk DEF ReportCycle
<1>4. ASSUME NEW d \in Name, SkipVisited(d)
      PROVE  IInv'
  BY <1>4, MoveOnOk DEF SkipVisited
<1>5. ASSUME NEW d \in Name, Descend(d)
      PROVE  IInv'
  <2>1. /\ Takes(d) /\ d \in Declared(rules) /\ d \notin activePackages /\ d \notin visited
        /\ Enter(d, Rest(d)) /\ UNCHANGED <<rules, roots, visited, cycles>>
    BY <1>5 DEF Descend, IsActive
  <2>2. /\ Depth \in Nat \ {0}
        /\ d \in rules[activePath[Depth]]
        /\ Rest(d) \in Seq(SUBSET Name)
        /\ Len(Rest(d)) = Depth
        /\ \A i \in 1..(Depth - 1) : Rest(d)[i] = pending[i]
        /\ Rest(d)[Depth] = pending[Depth] \ {d}
    BY <2>1, RestOk
  <2>3. \A i \in 1..Depth : Rest(d)[i] \subseteq pending[i]
    BY <2>2
  <2>4. pending[Depth] \subseteq Rest(d)[Depth] \cup {d}
    BY <2>2
  <2> QED BY <2>1, <2>2, <2>3, <2>4, EnterOk
<1>6. CASE Leave
  BY <1>6, LeaveOk
<1>7. CASE UNCHANGED searchVars
  <2>1. UNCHANGED <<rules, roots, visited, activePath, activePackages, pending, cycles, Depth>>
    BY <1>7 DEF searchVars, Depth
  <2> QED BY <2>1 DEF IInv, SearchTypeOK, CyclesAreReal, Stack, Seen, Grounded, Outer, Joined
<1> QED BY <1>1, <1>2, <1>3, <1>4, <1>5, <1>6, <1>7 DEF SearchNext

\* Every turn of the search's loops keeps its invariant.
THEOREM InvariantTheorem == SearchSpec => []IInv
<1> QED BY InitOk, NextOk, PTL DEF SearchSpec

\* The path and the set of active packages agree, and everything has its type
\* (lines 322-323 and 332-333).
THEOREM TypeTheorem == SearchSpec => []SearchTypeOK
<1>1. IInv => SearchTypeOK
  BY DEF IInv
<1> QED BY <1>1, InvariantTheorem, PTL

\* Whatever is reported as a cycle is one (lines 327-329).
THEOREM CyclesTheorem == SearchSpec => []CyclesAreReal
<1>1. IInv => CyclesAreReal
  BY DEF IInv
<1> QED BY <1>1, InvariantTheorem, PTL

\* A cycle is a group of packages of which each depends on one of the group.
LEMMA CycleNotAcyclic ==
  ASSUME NEW r, NEW c \in Seq(Declared(r)), IsCycle(r, c)
  PROVE  ~Acyclic(r)
<1> DEFINE n == Len(c) - 1
           S == {c[i] : i \in 1..n}
<1>1. n \in Nat \ {0} /\ Len(c) = n + 1
  BY DEF IsCycle
<1>2. S \in SUBSET Declared(r) /\ S # {}
  <2>1. 1 \in 1..n /\ \A i \in 1..n : c[i] \in Declared(r)
    BY <1>1
  <2> QED BY <2>1
<1>3. ASSUME NEW p \in S
      PROVE  r[p] \cap S # {}
  <2>1. PICK i \in 1..n : p = c[i]
    OBVIOUS
  <2>2. c[i + 1] \in r[p]
    BY <2>1 DEF IsCycle
  <2>3. c[i + 1] \in S
    <3>1. CASE i = n
      <4>1. c[i + 1] = c[1] /\ 1 \in 1..n
        BY <1>1, <3>1 DEF IsCycle
      <4> QED BY <4>1
    <3>2. CASE i # n
      <4>1. i + 1 \in 1..n
        <5> HIDE DEF n
        <5> QED BY <1>1, <2>1, <3>2
      <4> QED BY <4>1
    <3> QED BY <3>1, <3>2
  <2> QED BY <2>2, <2>3
<1> QED BY <1>2, <1>3 DEF Acyclic

\* When the search returns, it has reported a cycle exactly when the rules are
\* not acyclic (lines 316-347).
THEOREM VerdictTheorem == SearchSpec => []Verdict
<1>1. IInv => Verdict
  <2> SUFFICES ASSUME IInv, Returned
               PROVE  cycles = {} <=> Acyclic(rules)
    BY DEF Verdict
  <2>1. Depth = 0 /\ roots = {} /\ activePackages = {}
    <3>1. Depth = 0 /\ roots = {}
      BY DEF Returned, Depth
    <3> QED BY <3>1 DEF IInv, SearchTypeOK
  <2>2. visited = Declared(rules)
    BY <2>1 DEF IInv, SearchTypeOK, Outer
  <2>3. cycles = {} => Acyclic(rules)
    BY <2>2 DEF IInv, Grounded, Acyclic, Joined
  <2>4. ASSUME NEW c \in cycles
        PROVE  ~Acyclic(rules)
    BY CycleNotAcyclic DEF IInv, SearchTypeOK, CyclesAreReal
  <2> QED BY <2>3, <2>4
<1> QED BY <1>1, InvariantTheorem, PTL

-----------------------------------------------------------------------------
(* What a package depends on, directly or through others *)

\* Below is the least closed set that has the dependencies of a package.
LEMMA BelowIsLeast ==
  ASSUME NEW r, NEW p
  PROVE  /\ Below(r, p) \subseteq Declared(r)
         /\ Dependencies(r, p) \subseteq Below(r, p)
         /\ Closed(r, Below(r, p))
         /\ \A S \in SUBSET Declared(r) :
              Closed(r, S) /\ Dependencies(r, p) \subseteq S => Below(r, p) \subseteq S
<1>1. Dependencies(r, p) \subseteq Declared(r)
  BY DEF Dependencies
<1>2. Dependencies(r, p) \subseteq Below(r, p)
  BY <1>1 DEF Below
<1>3. ASSUME NEW q \in Below(r, p), NEW d \in Dependencies(r, q)
      PROVE  d \in Below(r, p)
  <2>1. d \in Declared(r)
    BY DEF Dependencies
  <2>2. ASSUME NEW S \in SUBSET Declared(r), Closed(r, S), Dependencies(r, p) \subseteq S
        PROVE  d \in S
    BY <2>2 DEF Below, Closed
  <2> QED BY <2>1, <2>2 DEF Below
<1>4. Closed(r, Below(r, p))
  BY <1>3 DEF Closed
<1> QED BY <1>2, <1>4 DEF Below

\* What is below something below p is below p.
LEMMA BelowIsTransitive ==
  ASSUME NEW r, NEW p, NEW q \in Below(r, p)
  PROVE  Below(r, q) \subseteq Below(r, p)
<1>1. Dependencies(r, q) \subseteq Below(r, p)
  BY BelowIsLeast DEF Closed
<1> QED BY <1>1, BelowIsLeast

\* What is below p is a dependency of p or below one.
LEMMA BelowADependency ==
  ASSUME NEW r, NEW p, NEW q \in Below(r, p), q \notin Dependencies(r, p)
  PROVE  \E d \in Dependencies(r, p) : q \in Below(r, d)
<1> DEFINE S == Dependencies(r, p) \cup UNION {Below(r, d) : d \in Dependencies(r, p)}
<1>1. S \in SUBSET Declared(r)
  BY BelowIsLeast DEF Dependencies
<1>2. ASSUME NEW x \in S, NEW e \in Dependencies(r, x)
      PROVE  e \in S
  <2>1. CASE x \in Dependencies(r, p)
    BY <2>1, BelowIsLeast
  <2>2. ASSUME NEW d \in Dependencies(r, p), x \in Below(r, d)
        PROVE  e \in Below(r, d)
    BY <2>2, BelowIsLeast DEF Closed
  <2> QED BY <2>1, <2>2
<1>3. Closed(r, S)
  BY <1>2 DEF Closed
<1>4. Below(r, p) \subseteq S
  BY <1>1, <1>3, BelowIsLeast
<1> QED BY <1>4

\* A nonempty set of indices has a least one.
LEMMA LeastIndex ==
  ASSUME NEW S \in SUBSET Nat, S # {}
  PROVE  \E m \in S : \A k \in S : m <= k
<1> DEFINE R == OpToRel(<, Nat)
<1>1. IsWellFoundedOn(R, Nat)
  BY NatLessThanWellFounded
<1>2. R = { ss \in Nat \X Nat : ss[1] < ss[2] }
  BY DEF OpToRel
<1> HIDE DEF R
<1>3. PICK x \in S : \A y \in S : ~ (<<y, x>> \in R)
  <2>1. \E x \in S : \A y \in S : ~ (<<y, x>> \in R)
    BY <1>1, WFMin
  <2> QED BY <2>1
<1>4. \A y \in S : <<y, x>> \in Nat \X Nat /\ <<y, x>>[1] = y /\ <<y, x>>[2] = x
  OBVIOUS
<1>5. \A y \in S : ~(y < x)
  BY <1>2, <1>3, <1>4
<1> QED BY <1>5

\* The packages of a cycle are below each other.
LEMMA RoundTheCycle ==
  ASSUME NEW r, NEW c \in Seq(Declared(r)), IsCycle(r, c)
  PROVE  \A i, j \in 1..Len(c) : c[j] \in Below(r, c[i])
<1> DEFINE L == Len(c) - 1
<1>1. L \in Nat \ {0} /\ Len(c) = L + 1
  BY DEF IsCycle
<1>2. /\ c[1] = c[L + 1]
      /\ \A j \in 1..L : c[j + 1] \in Dependencies(r, c[j])
  <2>1. \A j \in 1..L : j + 1 \in 1..Len(c)
    BY <1>1
  <2> QED BY <1>1, <2>1 DEF IsCycle, Dependencies
<1> HIDE DEF L
<1>3. ASSUME NEW i \in 1..L, NEW k \in 1..(L + 1), c[k] \in Below(r, c[i])
      PROVE  \A j \in k..(L + 1) : c[j] \in Below(r, c[i])
  <2> DEFINE B == {j \in k..(L + 1) : c[j] \notin Below(r, c[i])}
  <2>1. SUFFICES ASSUME B # {} PROVE FALSE
    OBVIOUS
  <2>2. B \in SUBSET Nat
    BY <1>1
  <2>3. PICK j \in B : \A h \in B : j <= h
    <3> HIDE DEF B
    <3> QED BY <2>1, <2>2, LeastIndex
  <2>4. j # k
    BY <1>3, <2>3
  <2>5. j - 1 \in k..(L + 1) /\ j - 1 \in 1..L /\ ~(j <= j - 1) /\ (j - 1) + 1 = j
    BY <1>1, <1>3, <2>3, <2>4
  <2>6. c[j - 1] \in Below(r, c[i])
    BY <2>3, <2>5
  <2>7. c[j] \in Dependencies(r, c[j - 1])
    BY <1>2, <2>5
  <2> QED BY <2>3, <2>6, <2>7, BelowIsLeast DEF Closed
<1>4. ASSUME NEW i \in 1..L
      PROVE  \A j \in 1..(L + 1) : c[j] \in Below(r, c[i])
  <2>1. i + 1 \in 1..(L + 1) /\ L + 1 \in (i + 1)..(L + 1) /\ 1 \in 1..(L + 1)
    BY <1>1
  <2>2. c[i + 1] \in Below(r, c[i])
    BY <1>2, BelowIsLeast
  <2>3. c[1] \in Below(r, c[i])
    BY <1>2, <1>3, <2>1, <2>2
  <2> QED BY <1>3, <2>1, <2>3
<1>5. ASSUME NEW i \in 1..(L + 1), NEW j \in 1..(L + 1)
      PROVE  c[j] \in Below(r, c[i])
  <2>1. CASE i \in 1..L
    BY <1>4, <2>1
  <2>2. CASE i = L + 1
    BY <1>1, <1>2, <1>4, <2>2
  <2> QED BY <1>1, <2>1, <2>2
<1> QED BY <1>1, <1>5

\* Each group of packages that depend on each other is named by a reported cycle
\* (lines 316-347): a group of visited packages without a member that depends on
\* none of the group has one on a reported cycle, and with it the whole cycle.
THEOREM KnotTheorem == SearchSpec => []EveryKnotReported
<1>1. IInv => EveryKnotReported
  <2> SUFFICES ASSUME IInv, Returned, NEW p \in Declared(rules), p \in Below(rules, p)
               PROVE  \E c \in cycles : \A i \in 1..Len(c) :
                        c[i] \in Below(rules, p) /\ p \in Below(rules, c[i])
    BY DEF EveryKnotReported
  <2> DEFINE S == {q \in Below(rules, p) : p \in Below(rules, q)}
  <2>1. visited = Declared(rules)
    <3>1. Depth = 0 /\ roots = {}
      BY DEF Returned, Depth
    <3>2. activePackages = {}
      BY <3>1 DEF IInv, SearchTypeOK
    <3> QED BY <3>1, <3>2 DEF IInv, SearchTypeOK, Outer
  <2>2. S \in SUBSET visited /\ S # {}
    BY <2>1, BelowIsLeast
  <2>3. ASSUME NEW q \in S
        PROVE  rules[q] \cap S # {}
    <3>1. q \in Below(rules, p) /\ p \in Below(rules, q)
      OBVIOUS
    <3>2. CASE p \in Dependencies(rules, q)
      <4>1. p \in S /\ p \in rules[q]
        BY <3>2 DEF Dependencies
      <4> QED BY <4>1
    <3>3. CASE p \notin Dependencies(rules, q)
      <4>1. PICK d \in Dependencies(rules, q) : p \in Below(rules, d)
        BY <3>1, <3>3, BelowADependency
      <4>2. d \in Below(rules, p)
        BY <3>1, BelowIsLeast DEF Closed
      <4>3. d \in S /\ d \in rules[q]
        BY <4>1, <4>2 DEF Dependencies
      <4> QED BY <4>3
    <3> QED BY <3>2, <3>3
  <2>4. PICK q \in S : Joined(q, q)
    <3> HIDE DEF S
    <3> QED BY <2>2, <2>3 DEF IInv, Grounded
  <2>5. PICK c \in cycles : OnCycle(c, q)
    BY <2>4 DEF Joined
  <2>6. PICK k \in 1..Len(c) : c[k] = q
    BY <2>5 DEF OnCycle
  <2>7. \A i, j \in 1..Len(c) : c[j] \in Below(rules, c[i])
    <3>1. c \in Seq(Declared(rules)) /\ IsCycle(rules, c)
      BY DEF IInv, SearchTypeOK, CyclesAreReal
    <3> QED BY <3>1, RoundTheCycle
  <2>8. ASSUME NEW i \in 1..Len(c)
        PROVE  c[i] \in Below(rules, p) /\ p \in Below(rules, c[i])
    <3>1. q \in Below(rules, p) /\ p \in Below(rules, q)
      BY <2>4
    <3>2. c[i] \in Below(rules, q) /\ q \in Below(rules, c[i])
      BY <2>6, <2>7
    <3> QED BY <3>1, <3>2, BelowIsTransitive
  <2> QED BY <2>8
<1> QED BY <1>1, InvariantTheorem, PTL

\* The recursion is never deeper than there are declared packages (line 331).
THEOREM DepthTheorem == SearchSpec => []DepthBounded
<1>1. IInv => DepthBounded
  <2> SUFFICES ASSUME IInv PROVE Depth <= Cardinality(Declared(rules))
    BY DEF DepthBounded
  <2> DEFINE f == [i \in 1..Depth |-> activePath[i]]
  <2>1. Depth \in Nat /\ \A i \in 1..Depth : activePath[i] \in Declared(rules)
    BY Shape DEF IInv
  <2>2. f \in Injection(1..Depth, Declared(rules))
    BY <2>1 DEF IInv, Stack, Injection, IsInjective
  <2>3. IsFiniteSet(Declared(rules))
    BY RulesAssumption DEF IInv, SearchTypeOK
  <2>4. Cardinality(1..Depth) <= Cardinality(Declared(rules))
    BY <2>2, <2>3, FS_Injection
  <2>5. Cardinality(1..Depth) = Depth
    BY <2>1, FS_Interval
  <2> QED BY <2>4, <2>5
<1> QED BY <1>1, InvariantTheorem, PTL

-----------------------------------------------------------------------------
(* The checker runs the search *)

\* Every behaviour of the checker is one of the search: find_boundary_violations
\* touches the search's variables in its own steps only.
THEOREM SearchTheorem == Spec => SearchSpec
<1>1. Init => SearchInit
  BY DEF Init
<1>2. [Next]_vars => [SearchNext]_searchVars
  <2> SUFFICES ASSUME [Next]_vars PROVE [SearchNext]_searchVars
    OBVIOUS
  <2>1. CASE CheckPolicy
    BY <2>1 DEF CheckPolicy
  <2>2. CASE Search
    BY <2>2 DEF Search
  <2>3. CASE EndSearch
    BY <2>3 DEF EndSearch
  <2>4. ASSUME NEW f \in uninspected, InspectFile(f) PROVE UNCHANGED searchVars
    BY <2>4 DEF InspectFile
  <2>5. CASE Exit
    BY <2>5 DEF Exit
  <2>6. CASE UNCHANGED vars
    BY <2>6 DEF vars
  <2> QED BY <2>1, <2>2, <2>3, <2>4, <2>5, <2>6 DEF Next
<1> QED BY <1>1, <1>2, PTL DEF Spec, SearchSpec

\* What the checker prints as a cycle is one, and goes round it once.
THEOREM PrintedCyclesTheorem == Spec => []CyclesAreReal
<1> QED BY SearchTheorem, CyclesTheorem, PTL

\* When the checker's search has returned, it has found something exactly when the
\* rules are not acyclic.
THEOREM CheckerVerdictTheorem == Spec => []Verdict
<1> QED BY SearchTheorem, VerdictTheorem, PTL

\* When it has returned, each group of packages that depend on each other is named
\* by a reported cycle.
THEOREM CheckerKnotTheorem == Spec => []EveryKnotReported
<1> QED BY SearchTheorem, KnotTheorem, PTL

-----------------------------------------------------------------------------
(* The checker's invariant: what each stage has found is in the report, and    *)
(* what is in the report about an import was found by inspecting its file.     *)

Decided == outcome \in {"inspecting", "valid", "invalid", "raised"}

\* The report has what is wrong with the rules and the tree's top level.
PolicyReported ==
  IF tree.exists
    THEN outcome # "starting" => PolicyViolations \subseteq report
    ELSE outcome # "starting" => report # {}

\* It has the cycles once the search has returned.
CyclesReported ==
  tree.exists /\ Decided => Returned /\ \A c \in cycles : <<"cycle", c>> \in report

\* It has what is wrong with every file that the loop has passed, and the loop went on.
FilesReported ==
  tree.exists /\ outcome \in {"inspecting", "valid", "invalid"} =>
    \A f \in tree.files \ uninspected :
      /\ HasPackage(f) => f.text # "undecodable"
      /\ FileViolations(f) \subseteq report

\* It says of an import statement only what the inspection of its file finds.
OnlyFound ==
  \A f \in tree.files : \A s \in f.imports : \A verdict \in Verdicts :
    <<verdict, f, s>> \in report => /\ HasPackage(f)
                                    /\ <<verdict, f, s>> \in ImportViolations(f)

CheckInv ==
  /\ rules \in RuleSets
  /\ tree \in Trees(rules)
  /\ uninspected \subseteq tree.files
  /\ outcome \in {"valid", "invalid"} => uninspected = {}
  /\ outcome = "valid" => report = {}
  /\ PolicyReported /\ CyclesReported /\ FilesReported /\ OnlyFound

\* A tree that is checked is one.
LEMMA CheckedTree ==
  ASSUME CheckInv
  PROVE  TreeOk(tree)
BY TreesAssumption DEF CheckInv

\* Nothing is found before the check begins.
LEMMA CheckInitOk == Init => CheckInv
BY DEF Init, SearchInit, CheckInv, PolicyReported, CyclesReported, FilesReported,
       OnlyFound, Decided

\* What the checker says of the policy is not said of an import.
LEMMA PolicySaysNothingOfImports ==
  ASSUME NEW verdict \in Verdicts, NEW f, NEW s
  PROVE  /\ <<verdict, f, s>> \notin PolicyViolations
         /\ <<verdict, f, s>> # <<"root missing">>
         /\ \A c : <<verdict, f, s>> # <<"cycle", c>>
<1> DEFINE x == <<verdict, f, s>>
<1>1. x[1] = verdict
  OBVIOUS
<1>2. \A r \in PolicyViolations :
        r[1] \in {"missing", "no rule", "top-level module", "unknown dependency", "lists itself"}
  <2>1. /\ \A p : <<"missing", p>>[1] = "missing" /\ <<"no rule", p>>[1] = "no rule"
        /\ \A p : <<"top-level module", p>>[1] = "top-level module"
        /\ \A p : <<"lists itself", p>>[1] = "lists itself"
        /\ \A p, q : <<"unknown dependency", p, q>>[1] = "unknown dependency"
    OBVIOUS
  <2>2. \A r \in RuleViolations :
          (\E p, q : r = <<"unknown dependency", p, q>>) \/ \E p : r = <<"lists itself", p>>
    BY Zenon DEF RuleViolations
  <2>3. \A r \in PolicyViolations :
          \/ r \in RuleViolations
          \/ \E p : r = <<"missing", p>> \/ r = <<"no rule", p>> \/ r = <<"top-level module", p>>
    BY Zenon DEF PolicyViolations
  <2>4. \A r \in RuleViolations : r[1] \in {"unknown dependency", "lists itself"}
    BY <2>1, <2>2
  <2> QED BY <2>1, <2>3, <2>4
<1>3. <<"root missing">>[1] = "root missing" /\ \A c : <<"cycle", c>>[1] = "cycle"
  OBVIOUS
<1>4. verdict \notin {"missing", "no rule", "top-level module", "unknown dependency",
                      "lists itself", "root missing", "cycle"}
  BY DEF Verdicts
<1> HIDE DEF x
<1> QED BY <1>1, <1>2, <1>3, <1>4 DEF x

\* What is found depends on the rules and the tree, which the check leaves alone.
LEMMA SameFindings ==
  ASSUME rules' = rules, tree' = tree
  PROVE  /\ PolicyViolations' = PolicyViolations
         /\ \A f : ImportViolations(f)' = ImportViolations(f)
         /\ \A f : FileViolations(f)' = FileViolations(f)
<1>1. PolicyViolations' = PolicyViolations
  BY DEF PolicyViolations, RuleViolations, TopLevel
<1>2. \A f : ImportViolations(f)' = ImportViolations(f)
  BY DEF ImportViolations, Judgement, ImportsOf, Absolute, Relative, TargetsInternal, Kind
<1>3. \A f : FileViolations(f)' = FileViolations(f)
  BY <1>2 DEF FileViolations
<1> QED BY <1>1, <1>2, <1>3

\* Each stage adds what it finds to the report and leaves what is there.
LEMMA CheckNextOk == CheckInv /\ [Next]_vars => CheckInv'
<1> SUFFICES ASSUME CheckInv, [Next]_vars PROVE CheckInv'
  OBVIOUS
<1>0. /\ rules \in RuleSets /\ tree \in Trees(rules) /\ uninspected \subseteq tree.files
      /\ outcome \in {"valid", "invalid"} => uninspected = {}
      /\ outcome = "valid" => report = {}
      /\ PolicyReported /\ CyclesReported /\ FilesReported /\ OnlyFound
  BY DEF CheckInv
<1>1. CASE CheckPolicy
  <2>1. /\ outcome = "starting" /\ UNCHANGED <<rules, roots, activePath, cycles, tree, uninspected>>
        /\ IF tree.exists THEN report' = PolicyViolations /\ outcome' = "searching"
           ELSE report' = {<<"root missing">>} /\ outcome' = "inspecting"
    BY <1>1 DEF CheckPolicy, searchVars
  <2>2. PolicyViolations' = PolicyViolations
    BY <2>1, SameFindings
  <2>3. PolicyReported' /\ CyclesReported' /\ FilesReported'
    BY <2>1, <2>2 DEF PolicyReported, CyclesReported, FilesReported, Decided
  <2>4. OnlyFound'
    <3>1. \A f, s : \A verdict \in Verdicts : <<verdict, f, s>> \notin report'
      <4> SUFFICES ASSUME NEW f, NEW s, NEW verdict \in Verdicts
                   PROVE  <<verdict, f, s>> \notin report'
        OBVIOUS
      <4>1. report' = PolicyViolations \/ report' = {<<"root missing">>}
        BY <2>1
      <4>2. /\ <<verdict, f, s>> \notin PolicyViolations
            /\ <<verdict, f, s>> # <<"root missing">>
        BY PolicySaysNothingOfImports
      <4> QED BY <4>1, <4>2, Zenon
    <3> QED BY <3>1 DEF OnlyFound
  <2> QED BY <1>0, <2>1, <2>3, <2>4 DEF CheckInv
<1>2. CASE Search
  <2>1. /\ outcome = "searching" /\ UNCHANGED <<rules, tree, uninspected, report, outcome>>
    BY <1>2 DEF Search, SearchNext, VisitRoot, SkipUndeclared, ReportCycle, SkipVisited,
                Descend, Leave
  <2>2. PolicyViolations' = PolicyViolations
    BY <2>1, SameFindings
  <2>3. PolicyReported' /\ CyclesReported' /\ FilesReported'
    BY <1>0, <2>1, <2>2 DEF PolicyReported, CyclesReported, FilesReported, Decided
  <2>4. OnlyFound'
    BY <1>0, <2>1, SameFindings DEF OnlyFound
  <2> QED BY <1>0, <2>1, <2>3, <2>4 DEF CheckInv
<1>3. CASE EndSearch
  <2>1. /\ outcome = "searching" /\ Returned
        /\ report' = report \cup {<<"cycle", c>> : c \in cycles}
        /\ uninspected' = tree.files
        /\ outcome' = "inspecting"
        /\ UNCHANGED <<rules, roots, activePath, cycles, tree>>
    BY <1>3 DEF EndSearch, searchVars
  <2>2. PolicyViolations' = PolicyViolations /\ Returned'
    BY <2>1, SameFindings DEF Returned
  <2>3. PolicyReported' /\ CyclesReported' /\ FilesReported'
    BY <1>0, <2>1, <2>2 DEF PolicyReported, CyclesReported, FilesReported, Decided
  <2>4. OnlyFound'
    <3>1. \A f, s : \A verdict \in Verdicts :
            <<verdict, f, s>> \in report' => <<verdict, f, s>> \in report
      BY <2>1, PolicySaysNothingOfImports
    <3>2. \A f : ImportViolations(f)' = ImportViolations(f)
      BY <2>1, SameFindings
    <3> QED BY <1>0, <2>1, <3>1, <3>2 DEF OnlyFound
  <2> QED BY <1>0, <2>1, <2>3, <2>4 DEF CheckInv
<1>4. ASSUME NEW g \in uninspected, InspectFile(g)
      PROVE  CheckInv'
  <2>1. /\ outcome = "inspecting"
        /\ IF HasPackage(g) /\ g.text = "undecodable"
             THEN outcome' = "raised" /\ UNCHANGED report
             ELSE report' = report \cup FileViolations(g) /\ UNCHANGED outcome
        /\ uninspected' = uninspected \ {g}
        /\ UNCHANGED <<rules, roots, activePath, cycles, tree>>
    BY <1>4 DEF InspectFile, searchVars
  <2>2. PolicyViolations' = PolicyViolations /\ Returned' = Returned
    BY <2>1, SameFindings DEF Returned
  <2>3. \A f : ImportViolations(f)' = ImportViolations(f)
    BY <2>1, SameFindings
  <2>4. \A f : FileViolations(f)' = FileViolations(f)
    BY <2>1, SameFindings
  <2>5. PolicyReported' /\ CyclesReported'
    BY <1>0, <2>1, <2>2 DEF PolicyReported, CyclesReported, Decided
  <2>6. FilesReported'
    BY <1>0, <2>1, <2>4 DEF FilesReported
  <2>7. OnlyFound'
    <3> SUFFICES ASSUME NEW f \in tree.files, NEW s \in f.imports, NEW verdict \in Verdicts,
                        <<verdict, f, s>> \in report'
                 PROVE  HasPackage(f) /\ <<verdict, f, s>> \in ImportViolations(f)
      BY <2>1, <2>3 DEF OnlyFound
    <3>1. CASE <<verdict, f, s>> \in report
      BY <1>0, <3>1 DEF OnlyFound
    <3>2. CASE <<verdict, f, s>> \in FileViolations(g) /\ <<verdict, f, s>> \notin report
      <4>1. g.text \in {"parses", "unreadable", "undecodable"}
        BY <1>0, CheckedTree DEF TreeOk, FileOk
      <4>2. ~(HasPackage(g) /\ g.text = "undecodable")
        BY <2>1, <3>1, <3>2
      <4> DEFINE x == <<verdict, f, s>>
      <4>3. x[1] = verdict /\ x[2] = f /\ x[3] = s
        OBVIOUS
      <4>4. HasPackage(g) /\ g.text = "parses" /\ x \in ImportViolations(g)
        <5>1. <<"unreadable", g>>[1] = "unreadable" /\ \A c : <<"dynamic", g, c>>[1] = "dynamic"
          OBVIOUS
        <5> HIDE DEF x
        <5> QED BY <3>2, <4>1, <4>2, <4>3, <5>1 DEF FileViolations, Verdicts, x
      <4>5. \A y \in ImportViolations(g) : y[2] = g
        BY DEF ImportViolations
      <4>6. f = g
        BY <4>3, <4>4, <4>5
      <4> QED BY <4>4, <4>6
    <3> QED BY <2>1, <3>1, <3>2
  <2> QED BY <1>0, <2>1, <2>5, <2>6, <2>7 DEF CheckInv
<1>5. CASE Exit
  <2>1. /\ outcome = "inspecting" /\ uninspected = {}
        /\ outcome' = IF report = {} THEN "valid" ELSE "invalid"
        /\ UNCHANGED <<rules, roots, activePath, cycles, tree, uninspected, report>>
    BY <1>5 DEF Exit, searchVars
  <2>2. /\ PolicyViolations' = PolicyViolations /\ Returned' = Returned
        /\ \A f : FileViolations(f)' = FileViolations(f)
        /\ \A f : ImportViolations(f)' = ImportViolations(f)
    BY <2>1, SameFindings DEF Returned
  <2>3. PolicyReported' /\ CyclesReported' /\ FilesReported' /\ OnlyFound'
    BY <1>0, <2>1, <2>2 DEF PolicyReported, CyclesReported, FilesReported, OnlyFound, Decided
  <2> QED BY <1>0, <2>1, <2>3 DEF CheckInv
<1>6. CASE UNCHANGED vars
  <2>1. UNCHANGED <<rules, roots, activePath, cycles, tree, uninspected, report, outcome>>
    BY <1>6 DEF vars, searchVars
  <2>2. /\ PolicyViolations' = PolicyViolations /\ Returned' = Returned
        /\ \A f : FileViolations(f)' = FileViolations(f)
        /\ \A f : ImportViolations(f)' = ImportViolations(f)
    BY <2>1, SameFindings DEF Returned
  <2>3. PolicyReported' /\ CyclesReported' /\ FilesReported' /\ OnlyFound'
    BY <1>0, <2>1, <2>2 DEF PolicyReported, CyclesReported, FilesReported, OnlyFound, Decided
  <2> QED BY <1>0, <2>1, <2>3 DEF CheckInv
<1> QED BY <1>1, <1>2, <1>3, <1>4, <1>5, <1>6 DEF Next

\* Every stage of the check keeps the invariant.
THEOREM CheckSoundness == Spec => []CheckInv
BY CheckInitOk, CheckNextOk, PTL DEF Spec
-----------------------------------------------------------------------------
(* A tree found valid *)

\* Its top level has declared packages only.
LEMMA ValidTopLevel ==
  ASSUME CheckInv, outcome = "valid", NEW path, path # <<>>, Exists(path)
  PROVE  path[1] \in Declared(rules)
<1>1. report = {} /\ tree.exists /\ PolicyViolations = {}
  BY DEF CheckInv, PolicyReported
<1>2. /\ TopLevel({"package", "namespace"}) \subseteq Declared(rules)
      /\ TopLevel({"module"}) = {}
  BY <1>1 DEF PolicyViolations
<1>3. path \in DOMAIN tree.kind /\ tree.kind[path] # "absent"
  BY DEF Exists, Kind
<1> DEFINE top == <<path[1]>>
<1>4. /\ top \in DOMAIN tree.kind
      /\ tree.kind[top] \in {"module", "package", "namespace"}
  BY <1>3, CheckedTree DEF TreeOk
<1>5. Len(top) = 1 /\ top[1] = path[1]
  OBVIOUS
<1> HIDE DEF top
<1>6. CASE tree.kind[top] = "module"
  <2>1. top[1] \in TopLevel({"module"})
    BY <1>4, <1>5, <1>6 DEF TopLevel
  <2> QED BY <1>2, <2>1
<1>7. CASE tree.kind[top] \in {"package", "namespace"}
  <2>1. top[1] \in TopLevel({"package", "namespace"})
    BY <1>4, <1>5, <1>7 DEF TopLevel
  <2> QED BY <1>2, <1>5, <2>1
<1> QED BY <1>4, <1>6, <1>7

\* Its files have been inspected, all of them, and nothing was found in one.
LEMMA ValidFile ==
  ASSUME CheckInv, outcome = "valid", NEW f \in tree.files
  PROVE  /\ DynamicCalls(f) = {}
         /\ \A s \in f.imports : \A i \in ImportsOf(f, s) : Judgement(f, i) = {}
<1>1. report = {} /\ tree.exists /\ PolicyViolations = {} /\ uninspected = {}
  BY DEF CheckInv, PolicyReported
<1>2. FileOk(tree.kind, f) /\ FileViolations(f) = {} /\ (HasPackage(f) => f.text # "undecodable")
  BY <1>1, CheckedTree DEF TreeOk, CheckInv, FilesReported
<1>3. HasPackage(f)
  <2> SUFFICES ASSUME f.dir = <<>>, ~f.isInit PROVE FALSE
    BY DEF HasPackage
  <2>1. PICK n \in Identifier : <<n>> \in DOMAIN tree.kind /\ tree.kind[<<n>>] = "module"
    BY <1>2 DEF FileOk
  <2>2. Len(<<n>>) = 1
    OBVIOUS
  <2>3. <<n>>[1] \in TopLevel({"module"})
    BY <2>1, <2>2 DEF TopLevel
  <2> QED BY <1>1, <2>3 DEF PolicyViolations
<1>4. f.text = "parses"
  BY <1>2, <1>3 DEF FileOk, FileViolations
<1>5. SourcePackage(f) \in Declared(rules) \cup {Root}
  <2>1. CASE f.dir = <<>>
    BY <2>1 DEF SourcePackage
  <2>2. CASE f.dir # <<>>
    <3>1. Exists(<<f.dir[1]>>)
      BY <1>2, <2>2 DEF FileOk, Exists, Kind
    <3>2. <<f.dir[1]>> # <<>> /\ <<f.dir[1]>>[1] = f.dir[1]
      OBVIOUS
    <3>3. f.dir[1] \in Declared(rules)
      BY <3>1, <3>2, ValidTopLevel
    <3> QED BY <2>2, <3>3 DEF SourcePackage
  <2> QED BY <2>1, <2>2
<1>6. {<<"dynamic", f, c>> : c \in DynamicCalls(f)} \cup ImportViolations(f) = {}
  BY <1>2, <1>3, <1>4, <1>5 DEF FileViolations
<1>7. DynamicCalls(f) = {}
  BY <1>6
<1>8. \A s \in f.imports : \A i \in ImportsOf(f, s) : Judgement(f, i) = {}
  <2> SUFFICES ASSUME NEW s \in f.imports, NEW i \in ImportsOf(f, s), NEW v \in Judgement(f, i)
               PROVE  FALSE
    OBVIOUS
  <2>1. v \in UNION {Judgement(f, j) : j \in ImportsOf(f, s)}
    OBVIOUS
  <2>2. <<v, f, s>> \in ImportViolations(f)
    <3> DEFINE of(z) == {<<w, f, z>> : w \in UNION {Judgement(f, j) : j \in ImportsOf(f, z)}}
    <3>1. <<v, f, s>> \in of(s)
      BY <2>1, Zenon
    <3>2. ImportViolations(f) = UNION {of(z) : z \in f.imports}
      BY DEF ImportViolations
    <3> HIDE DEF of
    <3> QED BY <3>1, <3>2
  <2> QED BY <1>6, <2>2
<1> QED BY <1>7, <1>8

\* An import of another declared package that is not reported is in the importing
\* package's rule, and of its public interface.
LEMMA NotJudged ==
  ASSUME NEW f, NEW i, Judgement(f, i) = {},
         i.target \in Declared(rules), i.target # SourcePackage(f)
  PROVE  /\ SourcePackage(f) # Root /\ i.target \in rules[SourcePackage(f)]
         /\ ~TargetsInternal(i)
<1>1. i.target # Outside
  BY DEF Judgement
<1>2. CASE i.target \notin (IF SourcePackage(f) = Root THEN {} ELSE rules[SourcePackage(f)])
  BY <1>1, <1>2 DEF Judgement
<1>3. CASE i.target \in (IF SourcePackage(f) = Root THEN {} ELSE rules[SourcePackage(f)])
  BY <1>1, <1>3 DEF Judgement
<1> QED BY <1>2, <1>3

\* A path of one part, and a name below it.
LEMMA OnePart ==
  ASSUME NEW S, NEW x \in Seq(S), Len(x) = 1
  PROVE  x = <<x[1]>> /\ \A n \in S : Append(x, n) = <<x[1], n>>
<1>1. x = <<x[1]>>
  OBVIOUS
<1>2. ASSUME NEW n \in S PROVE Append(x, n) = <<x[1], n>>
  <2> DEFINE y == Append(x, n)
  <2>0. /\ y \in Seq(S) /\ Len(y) = Len(x) + 1 /\ y[Len(x) + 1] = n
        /\ \A j \in 1..Len(x) : y[j] = x[j]
    OBVIOUS
  <2>1. y \in Seq(S) /\ Len(y) = 2 /\ y[1] = x[1] /\ y[2] = n
    <3> HIDE DEF y
    <3> QED BY <2>0
  <2> HIDE DEF y
  <2>2. y = <<y[1], y[2]>>
    BY <2>1
  <2> QED BY <2>1, <2>2 DEF y
<1> QED BY <1>1, <1>2

\* What a statement that is not judged may load: it names the path x, and perhaps takes
\* names from there.
LEMMA LoadsOfPath ==
  ASSUME CheckInv, outcome = "valid", NEW f \in tree.files,
         NEW x \in Seq(Identifier), x # <<>>, Exists(x), NEW names \in SUBSET Identifier,
         Judgement(f, InternalImport(x, names)) = {},
         NEW path, Exists(path),
         path \in Prefixes(x) \/ \E n \in names : path = Append(x, n)
  PROVE  \/ Permitted(f, path)
         \/ Kind(path) = "namespace" /\ Permitted(f, <<path[1]>>)
<1> DEFINE i == InternalImport(x, names)
           source == SourcePackage(f)
<1>1. i.target = x[1] /\ (i.internal <=> Len(x) > 1) /\ i.names = names
  BY DEF InternalImport
<1>2. x[1] \in Declared(rules)
  BY ValidTopLevel
<1>3. Len(x) \in Nat \ {0}
  OBVIOUS
<1>4. path = <<>> \/ path[1] = x[1]
  <2>1. ASSUME NEW n \in 0..Len(x), path = SubSeq(x, 1, n)
        PROVE  path = <<>> \/ path[1] = x[1]
    <3>1. CASE n = 0
      BY <2>1, <3>1
    <3>2. CASE n # 0
      BY <1>3, <2>1, <3>2
    <3> QED BY <3>1, <3>2
  <2>2. ASSUME NEW n, path = Append(x, n)
        PROVE  path[1] = x[1]
    BY <1>3, <2>2
  <2> QED BY <2>1, <2>2 DEF Prefixes
<1>5. CASE path = <<>>
  BY <1>5 DEF Permitted
<1>6. CASE path # <<>> /\ x[1] = source
  BY <1>4, <1>6 DEF Permitted
<1>7. CASE path # <<>> /\ x[1] # source
  <2>1. source # Root /\ x[1] \in rules[source] /\ ~TargetsInternal(i)
    BY <1>1, <1>2, <1>7, NotJudged
  <2>2. Permitted(f, <<x[1]>>)
    BY <1>2, <2>1 DEF Permitted, Dependencies
  <2>3. Len(x) = 1
    <3> HIDE DEF i
    <3>1. ~(Len(x) > 1)
      BY <1>1, <2>1 DEF TargetsInternal
    <3>2. \A m \in Nat \ {0} : ~(m > 1) => m = 1
      OBVIOUS
    <3> QED BY <1>3, <3>1, <3>2
  <2>4. x = <<x[1]>>
    BY <2>3, OnePart
  <2>5. CASE path \in Prefixes(x)
    <3>1. PICK n \in 0..1 : path = SubSeq(x, 1, n)
      BY <2>3, <2>5 DEF Prefixes
    <3>2. n = 1
      BY <1>7, <3>1
    <3>3. path = x
      BY <2>3, <3>1, <3>2
    <3> QED BY <2>2, <2>4, <3>3
  <2>6. CASE \E n \in names : path = Append(x, n)
    <3>1. PICK n \in names : path = Append(x, n)
      BY <2>6
    <3>2. path = <<x[1], n>>
      <4>1. n \in Identifier
        OBVIOUS
      <4> QED BY <2>3, <3>1, <4>1, OnePart
    <3>3. Kind(path) \notin {"module", "package"}
      <4> HIDE DEF i
      <4> QED BY <1>1, <2>1, <3>2 DEF TargetsInternal
    <3>4. Kind(path) = "namespace"
      BY <1>7, <3>3, CheckedTree DEF Exists, Kind, TreeOk
    <3> QED BY <1>4, <1>7, <2>2, <3>4
  <2> QED BY <2>5, <2>6
<1> QED BY <1>5, <1>6, <1>7

\* Where a relative import starts: at the file's directory or above.
LEMMA BaseOk ==
  ASSUME NEW f, NEW s, f.dir \in Seq(Identifier), StatementOk(s),
         s.level > 0, Retained(f, s) >= 0
  PROVE  /\ Retained(f, s) \in 0..Len(f.dir)
         /\ Base(f, s) \in Seq(Identifier)
         /\ s.path # <<>> => Base(f, s) # <<>>
         /\ s.path = <<>> /\ Base(f, s) # <<>> =>
              /\ Base(f, s)[1] = f.dir[1] /\ SourcePackage(f) = f.dir[1]
              /\ Append(Base(f, s), s.name)[1] = f.dir[1]
<1>1. s.level \in Nat \ {0} /\ Len(f.dir) \in Nat /\ s.path \in Seq(Identifier)
  BY DEF StatementOk
<1>2. Retained(f, s) \in 0..Len(f.dir)
  BY <1>1 DEF Retained
<1> DEFINE kept == SubSeq(f.dir, 1, Retained(f, s))
<1>3. kept \in Seq(Identifier) /\ Len(kept) = Retained(f, s)
      /\ \A j \in 1..Retained(f, s) : kept[j] = f.dir[j]
  BY <1>2
<1> HIDE DEF kept
<1>4. Base(f, s) = kept \o s.path
  BY DEF Base, kept
<1>5. Base(f, s) \in Seq(Identifier)
  BY <1>1, <1>3, <1>4
<1>6. s.path # <<>> => Base(f, s) # <<>>
  BY <1>1, <1>3, <1>4
<1>7. ASSUME s.path = <<>>, Base(f, s) # <<>>
      PROVE  /\ Base(f, s)[1] = f.dir[1] /\ SourcePackage(f) = f.dir[1]
             /\ Append(Base(f, s), s.name)[1] = f.dir[1]
  <2>1. Base(f, s) = kept
    BY <1>3, <1>4, <1>7
  <2>2. Retained(f, s) >= 1
    BY <1>2, <1>3, <1>7, <2>1
  <2>3. kept[1] = f.dir[1] /\ f.dir # <<>>
    BY <1>2, <1>3, <2>2
  <2>4. Append(kept, s.name)[1] = kept[1]
    BY <1>3, <2>2
  <2> QED BY <2>1, <2>3, <2>4 DEF SourcePackage
<1> QED BY <1>2, <1>5, <1>6, <1>7

\* In a tree found valid, an import statement runs no code that its file may not use.
LEMMA ValidLoads ==
  ASSUME CheckInv, outcome = "valid", NEW f \in tree.files, NEW s \in f.imports,
         NEW path \in Loads(f, s)
  PROVE  \/ Permitted(f, path)
         \/ Kind(path) = "namespace" /\ Permitted(f, <<path[1]>>)
<1> DEFINE x == From(f, s)
<1>1. FileOk(tree.kind, f) /\ StatementOk(s) /\ f.dir \in Seq(Identifier)
  BY CheckedTree DEF TreeOk, FileOk
<1>2. /\ ~Escapes(f, s) /\ Exists(x) /\ Exists(path)
      /\ \/ path \in Prefixes(x)
         \/ s.form = "from" /\ path = Append(x, s.name)
  BY DEF Loads
<1>3. \A i \in ImportsOf(f, s) : Judgement(f, i) = {}
  BY ValidFile
<1>4. s.level \in Nat /\ s.path \in Seq(Identifier) /\ s.form \in {"import", "from"}
  BY <1>1 DEF StatementOk
<1>5. ASSUME NEW names \in SUBSET Identifier, x \in Seq(Identifier), x # <<>>,
             InternalImport(x, names) \in ImportsOf(f, s),
             s.form = "from" => s.name \in names
      PROVE  \/ Permitted(f, path)
             \/ Kind(path) = "namespace" /\ Permitted(f, <<path[1]>>)
  <2>1. path \in Prefixes(x) \/ \E n \in names : path = Append(x, n)
    BY <1>2, <1>5
  <2>2. Judgement(f, InternalImport(x, names)) = {}
    BY <1>3, <1>5
  <2> HIDE DEF x
  <2> QED BY <1>2, <1>5, <2>1, <2>2, LoadsOfPath
<1>6. ASSUME x = <<>>,
             s.form = "from" /\ s.name \in Declared(rules) =>
               InternalImport(<<s.name>>, {}) \in ImportsOf(f, s)
      PROVE  \/ Permitted(f, path)
             \/ Kind(path) = "namespace" /\ Permitted(f, <<path[1]>>)
  <2>1. \A p \in Prefixes(<<>>) : p = <<>>
    <3>1. \A n \in 0..Len(<<>>) : SubSeq(<<>>, 1, n) = <<>>
      OBVIOUS
    <3> QED BY <3>1 DEF Prefixes
  <2>2. CASE path = <<>>
    BY <2>2 DEF Permitted
  <2>3. CASE path # <<>>
    <3>1. s.form = "from" /\ path = Append(<<>>, s.name)
      BY <1>2, <1>6, <2>1, <2>3
    <3>2. path = <<s.name>> /\ path[1] = s.name /\ Len(path) = 1
      BY <3>1
    <3>3. s.name \in Identifier
      BY <1>1, <3>1 DEF StatementOk
    <3>4. s.name \in Declared(rules)
      BY <1>2, <2>3, <3>2, ValidTopLevel
    <3>5. Judgement(f, InternalImport(<<s.name>>, {})) = {}
      BY <1>3, <1>6, <3>1, <3>4
    <3>6. path \in Prefixes(path) /\ path \in Seq(Identifier)
      <4>1. path \in Seq(Identifier)
        BY <3>2, <3>3
      <4>2. SubSeq(path, 1, Len(path)) = path /\ Len(path) \in 0..Len(path)
        BY <4>1
      <4> QED BY <4>1, <4>2 DEF Prefixes
    <3>7. Judgement(f, InternalImport(path, {})) = {}
      BY <3>2, <3>5
    <3>8. {} \in SUBSET Identifier
      OBVIOUS
    <3> QED BY <1>2, <2>3, <3>6, <3>7, <3>8, LoadsOfPath
  <2> QED BY <2>2, <2>3
<1>7. CASE s.level = 0
  <2>1. x = s.path /\ ImportsOf(f, s) = Absolute(s)
    BY <1>7 DEF From, ImportsOf
  <2>2. CASE s.path # <<>> /\ s.form = "import"
    <3>1. InternalImport(x, {}) \in ImportsOf(f, s)
      BY <2>1, <2>2 DEF Absolute
    <3>2. s.form # "from" /\ {} \in SUBSET Identifier
      BY <2>2
    <3> QED BY <1>4, <1>5, <2>1, <2>2, <3>1, <3>2
  <2>3. CASE s.path # <<>> /\ s.form = "from"
    <3>1. InternalImport(x, {s.name}) \in ImportsOf(f, s)
      BY <2>1, <2>3 DEF Absolute
    <3>2. {s.name} \in SUBSET Identifier
      BY <1>1, <2>3 DEF StatementOk
    <3> QED BY <1>4, <1>5, <2>1, <2>3, <3>1, <3>2
  <2>4. CASE s.path = <<>>
    <3>1. s.form = "from" /\ s.name \in Declared(rules) =>
            InternalImport(<<s.name>>, {}) \in ImportsOf(f, s)
      BY <2>1, <2>4 DEF Absolute
    <3> QED BY <1>6, <2>1, <2>4, <3>1
  <2> QED BY <1>4, <2>2, <2>3, <2>4
<1>8. CASE s.level # 0
  <2>1. s.level > 0 /\ Retained(f, s) >= 0
    <3>1. s.level > 0 /\ ~(Retained(f, s) < 0)
      BY <1>2, <1>4, <1>8 DEF Escapes
    <3>2. Retained(f, s) \in Int
      BY <1>1, <1>4 DEF Retained
    <3> QED BY <3>1, <3>2
  <2>2. x = Base(f, s) /\ ImportsOf(f, s) = Relative(f, s)
    BY <1>8 DEF From, ImportsOf
  <2>3. /\ Base(f, s) \in Seq(Identifier)
        /\ s.path # <<>> => Base(f, s) # <<>>
        /\ s.path = <<>> /\ Base(f, s) # <<>> =>
             /\ Base(f, s)[1] = f.dir[1] /\ SourcePackage(f) = f.dir[1]
             /\ Append(Base(f, s), s.name)[1] = f.dir[1]
    BY <1>1, <2>1, BaseOk
  <2>4. ~(Retained(f, s) < 0)
    BY <1>2, <2>1 DEF Escapes
  <2>5. CASE s.path # <<>>
    <3>1. InternalImport(x, {s.name}) \in ImportsOf(f, s)
      BY <2>1, <2>2, <2>4, <2>5 DEF Relative
    <3>2. {s.name} \in SUBSET Identifier
      BY <1>1, <2>1 DEF StatementOk
    <3> QED BY <1>5, <2>2, <2>3, <2>5, <3>1, <3>2
  <2>6. CASE s.path = <<>> /\ x = <<>>
    <3>1. InternalImport(<<s.name>>, {}) \in ImportsOf(f, s)
      <4>1. Append(<<>>, s.name) = <<s.name>>
        OBVIOUS
      <4> QED BY <2>1, <2>2, <2>4, <2>6, <4>1 DEF Relative
    <3> QED BY <1>6, <2>6, <3>1
  <2>7. CASE s.path = <<>> /\ x # <<>>
    <3>1. path = <<>> \/ path[1] = f.dir[1]
      <4>1. Len(x) \in Nat /\ x \in Seq(Identifier)
        BY <2>2, <2>3
      <4>2. ASSUME NEW n \in 0..Len(x), path = SubSeq(x, 1, n)
            PROVE  path = <<>> \/ path[1] = x[1]
        <5> HIDE DEF x
        <5>1. CASE n = 0
          BY <4>1, <4>2, <5>1
        <5>2. CASE n # 0
          BY <4>1, <4>2, <5>2
        <5> QED BY <5>1, <5>2
      <4> QED BY <1>2, <2>2, <2>3, <2>7, <4>2 DEF Prefixes
    <3> QED BY <2>2, <2>3, <2>7, <3>1 DEF Permitted
  <2> QED BY <2>5, <2>6, <2>7
<1> QED BY <1>7, <1>8

\* A function has a path of two, and its last name is one of two.
LEMMA FunctionPaths ==
  ASSUME NEW S, NEW s \in Seq(S), NEW x \in S, Append(s, x) \in ByNameFunctions
  PROVE  Len(s) = 1 /\ x \in {"import_module", "__import__"}
<1> DEFINE g == Append(s, x)
<1>1. Len(g) = Len(s) + 1 /\ g[Len(s) + 1] = x /\ Len(s) \in Nat
  OBVIOUS
<1>2. \A h \in ByNameFunctions : Len(h) = 2 /\ h[2] \in {"import_module", "__import__"}
  BY DEF ByNameFunctions
<1>3. g \in ByNameFunctions
  OBVIOUS
<1>4. Len(g) = 2 /\ g[2] \in {"import_module", "__import__"}
  BY <1>2, <1>3
<1>5. Len(s) = 1
  <2> DEFINE m == Len(s)
             n == Len(g)
  <2>1. m \in Nat /\ n = m + 1 /\ n = 2
    BY <1>1, <1>4
  <2>2. ASSUME NEW k \in Nat, k + 1 = 2 PROVE k = 1
    BY <2>2
  <2> HIDE DEF m, n
  <2>3. m = 1
    BY <2>1, <2>2
  <2> QED BY <2>3, Zenon DEF m
<1> HIDE DEF g
<1> QED BY <1>1, <1>4, <1>5

LEMMA NoLongerPath ==
  ASSUME NEW x, NEW y, NEW z, Append(Append(<<x>>, y), z) \in ByNameFunctions
  PROVE  FALSE
<1> DEFINE S == {x, y, z}
           s == Append(<<x>>, y)
<1>1. <<x>> \in Seq(S) /\ Len(<<x>>) = 1
  OBVIOUS
<1>2. y \in S /\ z \in S
  OBVIOUS
<1> HIDE DEF S
<1>3. s \in Seq(S) /\ Len(s) = 2
  BY <1>1, <1>2
<1>4. Append(s, z) \in ByNameFunctions
  OBVIOUS
<1> HIDE DEF s
<1> QED BY <1>2, <1>3, <1>4, FunctionPaths

\* What the two followed forms bind is looked for among the calls.
LEMMA FollowedNames ==
  ASSUME NEW f, NEW c \in f.calls, ImportsByName(f, c)
  PROVE  \/ c \in DynamicCalls(f)
         \/ c.attr = "__import__"
         \/ \E b \in f.bindings : Binds(b, c.id) /\ ~ImportsPackage(b) /\ ~ImportsFunction(b)
<1>1. CASE c.id = "__import__" /\ c.attr = ""
  BY <1>1 DEF DynamicCalls
<1>2. ASSUME NEW b \in f.bindings, NEW d \in Denotes(b), d.name = c.id,
             (IF c.attr = "" THEN d.object ELSE Append(d.object, c.attr)) \in ByNameFunctions
      PROVE  \/ c \in DynamicCalls(f)
             \/ c.attr = "__import__"
             \/ Binds(b, c.id) /\ ~ImportsPackage(b) /\ ~ImportsFunction(b)
  <2>1. CASE ImportsPackage(b)
    <3>1. d = [name |-> LocalName(b, "importlib"), object |-> <<"importlib">>]
      <4>1. b.path[1] = "importlib"
        BY <2>1 DEF ImportsPackage
      <4> QED BY <1>2, <2>1, <4>1 DEF ImportsPackage, Denotes, LocalName
    <3>2. c.attr # ""
      BY <1>2, <3>1 DEF ByNameFunctions
    <3>3. Append(<<"importlib">>, c.attr) \in ByNameFunctions
      BY <1>2, <3>1, <3>2
    <3>4. <<"importlib">> \in Seq({"importlib", c.attr})
      OBVIOUS
    <3>5. c.attr \in {"import_module", "__import__"}
      BY <3>3, <3>4, FunctionPaths
    <3>6. c.id \in {LocalName(x, "importlib") : x \in {y \in f.bindings : ImportsPackage(y)}}
      BY <1>2, <2>1, <3>1
    <3> QED BY <3>5, <3>6 DEF DynamicCalls
  <2>2. CASE ImportsFunction(b)
    <3>1. /\ d.name = LocalName(b, b.name)
          /\ d.object = Append(<<"importlib">>, "import_module")
      <4>1. b.form = "from" /\ b.name = "import_module" /\ b.path = <<"importlib">>
        BY <2>2 DEF ImportsFunction
      <4>2. Denotes(b) = {[name |-> LocalName(b, b.name), object |-> Append(b.path, b.name)]}
        BY <4>1 DEF Denotes
      <4>3. d = [name |-> LocalName(b, b.name), object |-> Append(b.path, b.name)]
        BY <1>2, <4>2
      <4>4. d.name = LocalName(b, b.name) /\ d.object = Append(b.path, b.name)
        BY <4>3
      <4> QED BY <4>1, <4>4
    <3>2. c.attr = ""
      <4> SUFFICES ASSUME c.attr # "" PROVE FALSE
        OBVIOUS
      <4>1. Append(Append(<<"importlib">>, "import_module"), c.attr) \in ByNameFunctions
        BY <1>2, <3>1
      <4> QED BY <4>1, NoLongerPath
    <3>3. c.id \in {LocalName(x, x.name) : x \in {y \in f.bindings : ImportsFunction(y)}}
      BY <1>2, <2>2, <3>1
    <3> QED BY <3>2, <3>3 DEF DynamicCalls
  <2>3. CASE ~ImportsPackage(b) /\ ~ImportsFunction(b)
    BY <1>2, <2>3 DEF Binds
  <2> QED BY <2>1, <2>2, <2>3
<1> QED BY <1>1, <1>2 DEF ImportsByName

\* A tree found valid loads nothing of another package but permitted public interfaces,
\* and imports by name only through an attribute __import__ or a name bound in a way that
\* the checker does not follow.
THEOREM PermittedTheorem == Spec => []ValidMeansPermitted
<1>1. ASSUME CheckInv PROVE ValidMeansPermitted
  <2> SUFFICES ASSUME outcome = "valid", NEW f \in tree.files
               PROVE  /\ \A s \in f.imports : \A path \in Loads(f, s) :
                           \/ Permitted(f, path)
                           \/ Kind(path) = "namespace" /\ Permitted(f, <<path[1]>>)
                      /\ \A c \in f.calls : ImportsByName(f, c) =>
                           \/ c.attr = "__import__"
                           \/ \E b \in f.bindings :
                                Binds(b, c.id) /\ ~ImportsPackage(b) /\ ~ImportsFunction(b)
    BY DEF ValidMeansPermitted
  <2>1. \A s \in f.imports : \A path \in Loads(f, s) :
          \/ Permitted(f, path)
          \/ Kind(path) = "namespace" /\ Permitted(f, <<path[1]>>)
    BY <1>1, ValidLoads
  <2>2. \A c \in f.calls : c \notin DynamicCalls(f)
    BY <1>1, ValidFile
  <2> QED BY <2>1, <2>2, FollowedNames
<1> QED BY <1>1, CheckSoundness, PTL

\* In a tree found valid the packages can be put in an order in which each loads only
\* those before it.
THEOREM LayeredTheorem == Spec => []ValidMeansLayered
<1>1. ASSUME CheckInv, Verdict PROVE ValidMeansLayered
  <2> SUFFICES ASSUME outcome = "valid", NEW S \in SUBSET Declared(rules), S # {}
               PROVE  \E p \in S : \A f \in tree.files : SourcePackage(f) = p =>
                        \A s \in f.imports : \A path \in Loads(f, s) :
                          path # <<>> => path[1] \notin S \ {p}
    BY DEF ValidMeansLayered
  <2>1. report = {} /\ tree.exists
    BY <1>1 DEF CheckInv, PolicyReported
  <2>2. Returned /\ cycles = {}
    BY <1>1, <2>1 DEF CheckInv, CyclesReported, Decided
  <2>3. PICK p \in S : rules[p] \cap S = {}
    BY <1>1, <2>2 DEF Verdict, Acyclic
  <2>4. ASSUME NEW f \in tree.files, SourcePackage(f) = p,
               NEW s \in f.imports, NEW path \in Loads(f, s), path # <<>>
        PROVE  path[1] \notin S \ {p}
    <3>1. \/ Permitted(f, path)
          \/ Permitted(f, <<path[1]>>)
      BY <1>1, <2>4, ValidLoads
    <3>2. path[1] = p \/ path[1] \in rules[p]
      BY <2>4, <3>1 DEF Permitted, Dependencies
    <3> QED BY <2>3, <3>2
  <2> QED BY <2>4
<1> QED BY <1>1, CheckSoundness, CheckerVerdictTheorem, PTL
-----------------------------------------------------------------------------
(* An import that is reported *)

\* Whatever is said against an import that stays in the root, it crosses into a package
\* that its rule does not list, or into one's implementation.
LEMMA Judged ==
  ASSUME NEW f, NEW i, NEW v \in Judgement(f, i), i.target # Outside
  PROVE  /\ i.target # SourcePackage(f)
         /\ \/ SourcePackage(f) = Root
            \/ i.target \notin Dependencies(rules, SourcePackage(f))
            \/ TargetsInternal(i)
<1>1. i.target # SourcePackage(f)
  BY DEF Judgement
<1>2. CASE i.target \notin {Outside, SourcePackage(f)} \cup Declared(rules)
  BY <1>1, <1>2 DEF Dependencies
<1>3. CASE i.target \in {Outside, SourcePackage(f)} \cup Declared(rules)
  <2>1. CASE i.target \notin (IF SourcePackage(f) = Root THEN {} ELSE rules[SourcePackage(f)])
    BY <1>1, <2>1 DEF Dependencies
  <2>2. CASE i.target \in (IF SourcePackage(f) = Root THEN {} ELSE rules[SourcePackage(f)])
    BY <1>1, <1>3, <2>2 DEF Judgement
  <2> QED BY <2>1, <2>2
<1> QED BY <1>2, <1>3

\* When the path it names exists, something is loaded that must not be.
LEMMA JudgedPath ==
  ASSUME NEW f, NEW x \in Seq(Identifier), x # <<>>, Exists(x),
         NEW names \in SUBSET Identifier, NEW v \in Judgement(f, InternalImport(x, names))
  PROVE  \E path \in Prefixes(x) \cup {Append(x, n) : n \in names} :
           Exists(path) /\ ~Permitted(f, path)
<1> DEFINE i == InternalImport(x, names)
<1>1. i.target = x[1] /\ (i.internal <=> Len(x) > 1) /\ i.names = names
  BY DEF InternalImport
<1>2. Len(x) \in Nat \ {0} /\ x[1] \in Identifier
  OBVIOUS
<1>3. v \in Judgement(f, i)
  OBVIOUS
<1> HIDE DEF i
<1>4. /\ x[1] # SourcePackage(f)
      /\ \/ SourcePackage(f) = Root
         \/ x[1] \notin Dependencies(rules, SourcePackage(f))
         \/ TargetsInternal(i)
  BY <1>1, <1>2, <1>3, Judged, TreesAssumption
<1>5. x \in Prefixes(x)
  <2>1. SubSeq(x, 1, Len(x)) = x /\ Len(x) \in 0..Len(x)
    OBVIOUS
  <2> QED BY <2>1 DEF Prefixes
<1>6. CASE Len(x) > 1 \/ SourcePackage(f) = Root
             \/ x[1] \notin Dependencies(rules, SourcePackage(f))
  <2>1. ~Permitted(f, x)
    <3> SUFFICES ASSUME Permitted(f, x) PROVE FALSE
      OBVIOUS
    <3>1. Len(x) = 1 /\ SourcePackage(f) # Root /\ x[1] \in Dependencies(rules, SourcePackage(f))
      BY <1>4 DEF Permitted
    <3>2. ~(Len(x) > 1)
      BY <3>1
    <3> QED BY <1>6, <3>1, <3>2
  <2> QED BY <1>5, <2>1
<1>7. CASE ~(Len(x) > 1) /\ TargetsInternal(i)
  <2>1. Len(x) = 1
    <3>1. \A m \in Nat \ {0} : ~(m > 1) => m = 1
      OBVIOUS
    <3> QED BY <1>2, <1>7, <3>1
  <2>2. PICK n \in names : Kind(<<x[1], n>>) \in {"module", "package"}
    BY <1>1, <1>7 DEF TargetsInternal
  <2>3. n \in Identifier
    OBVIOUS
  <2> DEFINE path == <<x[1], n>>
  <2>4. path = Append(x, n)
    BY <2>1, <2>3, OnePart
  <2>5. Len(path) = 2 /\ path[1] = x[1] /\ path # <<>>
    OBVIOUS
  <2>6. Kind(path) \in {"module", "package"}
    BY <2>2
  <2> HIDE DEF path
  <2>7. Exists(path)
    BY <2>6 DEF Exists
  <2>8. ~Permitted(f, path)
    BY <1>4, <2>5 DEF Permitted
  <2> QED BY <2>4, <2>7, <2>8
<1> QED BY <1>4, <1>6, <1>7

\* An import statement that is judged loads what it must not, fails, or takes from the
\* root what is no module.
LEMMA JudgedStatement ==
  ASSUME NEW f, f.dir \in Seq(Identifier), NEW s, StatementOk(s),
         NEW i \in ImportsOf(f, s), NEW v \in Judgement(f, i)
  PROVE  \/ \E path \in Loads(f, s) : ~Permitted(f, path)
         \/ Fails(f, s)
         \/ /\ From(f, s) = <<>> /\ ~Exists(<<s.name>>)
            /\ s.level > 0 \/ s.name \in Declared(rules)
<1> SUFFICES ASSUME ~Fails(f, s)
             PROVE  \/ \E path \in Loads(f, s) : ~Permitted(f, path)
                    \/ /\ From(f, s) = <<>> /\ ~Exists(<<s.name>>)
                       /\ s.level > 0 \/ s.name \in Declared(rules)
  OBVIOUS
<1> DEFINE x == From(f, s)
<1>1. ~Escapes(f, s) /\ Exists(x)
  BY DEF Fails
<1>2. /\ s.level \in Nat /\ s.path \in Seq(Identifier) /\ s.form \in {"import", "from"}
      /\ s.level > 0 => s.form = "from"
      /\ s.form = "from" => s.name \in Identifier
  BY DEF StatementOk
<1>3. Loads(f, s) = { path \in Prefixes(x) \cup (IF s.form = "from" THEN {Append(x, s.name)}
                                                 ELSE {}) : Exists(path) }
  BY <1>1 DEF Loads
<1>4. ASSUME NEW names \in SUBSET Identifier, x \in Seq(Identifier), x # <<>>,
             i = InternalImport(x, names),
             names = {} \/ (s.form = "from" /\ names = {s.name})
      PROVE  \E path \in Loads(f, s) : ~Permitted(f, path)
  <2> HIDE DEF x
  <2>1. PICK path \in Prefixes(x) \cup {Append(x, n) : n \in names} :
               Exists(path) /\ ~Permitted(f, path)
    BY <1>1, <1>4, JudgedPath
  <2> QED BY <1>3, <1>4, <2>1
<1>5. ASSUME x = <<>>, s.form = "from", i = InternalImport(<<s.name>>, {}), Exists(<<s.name>>)
      PROVE  \E path \in Loads(f, s) : ~Permitted(f, path)
  <2> DEFINE y == <<s.name>>
  <2>1. y \in Seq(Identifier) /\ y # <<>> /\ Len(y) = 1
    BY <1>2, <1>5
  <2>2. y = Append(<<>>, s.name)
    OBVIOUS
  <2>3. i = InternalImport(y, {}) /\ Exists(y) /\ {} \in SUBSET Identifier
    BY <1>5
  <2> HIDE DEF x, y
  <2>4. PICK path \in Prefixes(y) \cup {Append(y, n) : n \in {}} :
               Exists(path) /\ ~Permitted(f, path)
    BY <2>1, <2>3, JudgedPath
  <2>5. path \in {<<>>, y}
    <3>1. \A n \in 0..1 : SubSeq(y, 1, n) \in {<<>>, y}
      BY <2>1
    <3> QED BY <2>1, <2>4, <3>1 DEF Prefixes
  <2>6. path = y
    BY <2>4, <2>5 DEF Permitted
  <2> QED BY <1>3, <1>5, <2>2, <2>4, <2>6
<1>6. CASE s.level = 0
  <2>1. x = s.path /\ ImportsOf(f, s) = Absolute(s)
    BY <1>6 DEF From, ImportsOf
  <2>2. CASE s.path # <<>> /\ s.form = "import"
    <3>1. i = InternalImport(x, {})
      BY <2>1, <2>2 DEF Absolute
    <3>2. {} \in SUBSET Identifier
      OBVIOUS
    <3> QED BY <1>2, <1>4, <2>1, <2>2, <3>1, <3>2
  <2>3. CASE s.path # <<>> /\ s.form = "from"
    <3>1. i = InternalImport(x, {s.name})
      BY <2>1, <2>3 DEF Absolute
    <3>2. {s.name} \in SUBSET Identifier
      BY <1>2, <2>3
    <3> QED BY <1>2, <1>4, <2>1, <2>3, <3>1, <3>2
  <2>4. CASE s.path = <<>>
    <3>1. s.form = "from" /\ s.name \in Declared(rules) /\ i = InternalImport(<<s.name>>, {})
      <4>1. s.form = "from"
        BY <1>2, <2>1, <2>4 DEF Absolute
      <4>2. i \in {InternalImport(<<n>>, {}) : n \in {s.name} \cap Declared(rules)}
        BY <2>1, <2>4, <4>1 DEF Absolute
      <4> QED BY <4>1, <4>2
    <3> QED BY <1>5, <2>1, <2>4, <3>1
  <2> QED BY <1>2, <2>2, <2>3, <2>4
<1>7. CASE s.level # 0
  <2>1. s.level > 0 /\ Retained(f, s) >= 0 /\ ~(Retained(f, s) < 0) /\ s.form = "from"
    <3>1. s.level > 0 /\ ~(Retained(f, s) < 0)
      BY <1>1, <1>2, <1>7 DEF Escapes
    <3>2. Retained(f, s) \in Int
      BY <1>2 DEF Retained
    <3> QED BY <1>2, <3>1, <3>2
  <2>2. x = Base(f, s) /\ ImportsOf(f, s) = Relative(f, s)
    BY <1>7 DEF From, ImportsOf
  <2>3. /\ Base(f, s) \in Seq(Identifier)
        /\ s.path # <<>> => Base(f, s) # <<>>
        /\ s.path = <<>> /\ Base(f, s) # <<>> =>
             /\ Base(f, s)[1] = f.dir[1] /\ SourcePackage(f) = f.dir[1]
             /\ Append(Base(f, s), s.name)[1] = f.dir[1]
    BY <2>1, BaseOk
  <2>4. CASE s.path # <<>>
    <3>1. i = InternalImport(x, {s.name})
      BY <2>1, <2>2, <2>4 DEF Relative
    <3>2. {s.name} \in SUBSET Identifier
      BY <1>2, <2>1
    <3> QED BY <1>4, <2>1, <2>2, <2>3, <2>4, <3>1, <3>2
  <2>5. CASE s.path = <<>> /\ x = <<>>
    <3>1. i = InternalImport(<<s.name>>, {})
      <4>1. Append(<<>>, s.name) = <<s.name>>
        OBVIOUS
      <4> QED BY <2>1, <2>2, <2>5, <4>1 DEF Relative
    <3> QED BY <1>5, <2>1, <2>5, <3>1
  <2>6. CASE s.path = <<>> /\ x # <<>>
    <3>1. i = InternalImport(Append(x, s.name), {s.name})
      BY <2>1, <2>2, <2>6 DEF Relative
    <3>2. i.target = SourcePackage(f)
      BY <2>2, <2>3, <2>6, <3>1 DEF InternalImport
    <3>3. x[1] \in Identifier /\ i.target = x[1]
      <4>1. x \in Seq(Identifier) /\ Len(x) >= 1
        BY <2>2, <2>3, <2>6
      <4> HIDE DEF x
      <4>2. x[1] \in Identifier
        BY <4>1
      <4> QED BY <2>2, <2>3, <2>6, <3>2, <4>2 DEF x
    <3> HIDE DEF x
    <3> QED BY <3>2, <3>3, Judged, TreesAssumption
  <2> QED BY <2>4, <2>5, <2>6
<1> QED BY <1>6, <1>7

\* Nothing is reported of an import that loads what it may load.
THEOREM JustifiedTheorem == Spec => []ReportsAreJustified
<1>1. ASSUME CheckInv PROVE ReportsAreJustified
  <2> SUFFICES ASSUME NEW f \in tree.files, NEW s \in f.imports, NEW verdict \in Verdicts,
                      <<verdict, f, s>> \in report
               PROVE  \/ \E path \in Loads(f, s) : ~Permitted(f, path)
                      \/ Fails(f, s)
                      \/ /\ From(f, s) = <<>> /\ ~Exists(<<s.name>>)
                         /\ s.level > 0 \/ s.name \in Declared(rules)
    BY DEF ReportsAreJustified
  <2>1. f.dir \in Seq(Identifier) /\ StatementOk(s)
    BY <1>1, CheckedTree DEF TreeOk, FileOk
  <2>2. <<verdict, f, s>> \in ImportViolations(f)
    BY <1>1 DEF CheckInv, OnlyFound
  <2>3. \E i \in ImportsOf(f, s) : verdict \in Judgement(f, i)
    <3> DEFINE of(z) == {<<w, f, z>> : w \in UNION {Judgement(f, j) : j \in ImportsOf(f, z)}}
    <3>1. ImportViolations(f) = UNION {of(z) : z \in f.imports}
      BY DEF ImportViolations
    <3>2. \A z : \A y \in of(z) : y[3] = z /\ \E i \in ImportsOf(f, z) : y[1] \in Judgement(f, i)
      <4> SUFFICES ASSUME NEW z, NEW y \in of(z)
                   PROVE  y[3] = z /\ \E i \in ImportsOf(f, z) : y[1] \in Judgement(f, i)
        OBVIOUS
      <4>1. PICK w \in UNION {Judgement(f, j) : j \in ImportsOf(f, z)} : y = <<w, f, z>>
        BY Zenon
      <4>2. PICK j \in ImportsOf(f, z) : w \in Judgement(f, j)
        BY <4>1, Zenon
      <4> QED BY <4>1, <4>2
    <3> DEFINE y == <<verdict, f, s>>
    <3>3. y[1] = verdict /\ y[3] = s
      OBVIOUS
    <3>4. y \in UNION {of(z) : z \in f.imports}
      BY <2>2, <3>1
    <3> HIDE DEF of, y
    <3>5. PICK z \in f.imports : y \in of(z)
      BY <3>4
    <3> QED BY <3>2, <3>3, <3>5
  <2> QED BY <2>1, <2>3, JudgedStatement
<1> QED BY <1>1, CheckSoundness, PTL

-----------------------------------------------------------------------------
(* Termination, as far as it can be proved: a natural number that every step   *)
(* makes smaller, and that no call stops before its end.                       *)

\* The search has still to take dependency d of p: it has not entered p, or the loop
\* of the visit to p has d before it.
Due(p, d) ==
  /\ p \in Declared(rules) \ visited
  /\ d \in rules[p]
  /\ \A i \in 1..Depth : activePath[i] = p => d \in pending[i]

ToTake == {x \in Declared(rules) \X Name : Due(x[1], x[2])}

\* A turn for each package of the outer loop, each dependency, and each return.
TurnsLeft ==
  Cardinality(roots) + Cardinality(ToTake) + Cardinality(Declared(rules) \ visited)

\* A turn of one of the loops, or the end of a visit, is due.
TurnDue ==
  \/ activePath = <<>> /\ \E p \in roots : IsFirst(p, roots)
  \/ activePath # <<>> /\ pending[Depth] = {}
  \/ \E d \in Name : Takes(d)

\* All of this is finite.
LEMMA FinitelyMany ==
  ASSUME IInv
  PROVE  /\ IsFiniteSet(roots) /\ IsFiniteSet(Declared(rules) \ visited)
         /\ IsFiniteSet(ToTake)
         /\ \A p \in Declared(rules) : IsFiniteSet(rules[p])
<1>1. /\ IsFiniteSet(Declared(rules)) /\ roots \subseteq Declared(rules)
      /\ \A p \in Declared(rules) : IsFiniteSet(rules[p])
  BY RulesAssumption DEF IInv, SearchTypeOK
<1>2. IsFiniteSet(roots) /\ IsFiniteSet(Declared(rules) \ visited)
  BY <1>1, FS_Subset, FS_Difference
<1> DEFINE pairs(p) == {p} \X rules[p]
           D == Declared(rules)
           Pairs == {pairs(p) : p \in D}
           f == [p \in D |-> pairs(p)]
<1>3. f \in Surjection(D, Pairs)
  BY DEF Surjection
<1>4. IsFiniteSet(Pairs)
  BY <1>1, <1>3, FS_Surjection
<1>5. \A T \in Pairs : IsFiniteSet(T)
  <2> SUFFICES ASSUME NEW p \in D PROVE IsFiniteSet(pairs(p))
    OBVIOUS
  <2> QED BY <1>1, FS_Product, FS_Singleton
<1>6. IsFiniteSet(UNION Pairs)
  BY <1>4, <1>5, FS_UNION
<1>7. ToTake \subseteq UNION Pairs
  <2> SUFFICES ASSUME NEW x \in ToTake PROVE x \in UNION Pairs
    OBVIOUS
  <2>1. x = <<x[1], x[2]>> /\ x[1] \in D /\ x[2] \in rules[x[1]]
    BY DEF ToTake, Due
  <2>2. x \in pairs(x[1])
    BY <2>1
  <2> QED BY <2>1, <2>2
<1> QED BY <1>1, <1>2, <1>6, <1>7, FS_Subset

\* A finite set of names has a first one.
LEMMA FirstOf ==
  ASSUME NEW S \in SUBSET Name, IsFiniteSet(S), S # {}
  PROVE  \E n \in S : IsFirst(n, S)
<1> DEFINE upto(n) == {m \in S : Rank[m] <= Rank[n]}
           sizes == {Cardinality(upto(n)) : n \in S}
<1>1. \A n \in S : Rank[n] \in Int
  BY RulesAssumption
<1>2. \A n \in S : IsFiniteSet(upto(n)) /\ Cardinality(upto(n)) \in Nat
  <2> TAKE n \in S
  <2>1. upto(n) \in SUBSET S
    OBVIOUS
  <2> HIDE DEF upto
  <2> QED BY <2>1, FS_Subset, FS_CardinalityType
<1>3. PICK n \in S : \A m \in S : Cardinality(upto(n)) <= Cardinality(upto(m))
  <2>1. sizes \in SUBSET Nat /\ sizes # {}
    BY <1>2
  <2>2. PICK k \in sizes : \A l \in sizes : k <= l
    BY <2>1, LeastIndex
  <2> QED BY <2>2
<1>4. ASSUME NEW m \in S PROVE Rank[n] <= Rank[m]
  <2> SUFFICES ASSUME Rank[m] < Rank[n] PROVE FALSE
    BY <1>1
  <2>1. upto(m) \in SUBSET upto(n) /\ n \in upto(n) /\ n \notin upto(m)
    BY <1>1
  <2>2. /\ Cardinality(upto(m)) <= Cardinality(upto(n))
        /\ Cardinality(upto(n)) = Cardinality(upto(m)) => upto(n) = upto(m)
    <3> HIDE DEF upto
    <3> QED BY <1>2, <2>1, FS_Subset
  <2>3. upto(n) # upto(m)
    BY <2>1
  <2> HIDE DEF upto
  <2> QED BY <1>2, <1>3, <2>2, <2>3
<1> QED BY <1>4 DEF IsFirst

\* Until the search has returned, one of its turns is due.
LEMMA SearchGoesOn ==
  ASSUME IInv, ~Returned
  PROVE  TurnDue
<1>1. CASE activePath = <<>>
  <2>1. roots # {} /\ roots \in SUBSET Name /\ IsFiniteSet(roots)
    BY <1>1, FinitelyMany, Shape DEF IInv, SearchTypeOK, Returned
  <2> QED BY <1>1, <2>1, FirstOf DEF TurnDue
<1>2. CASE activePath # <<>> /\ pending[Depth] # {}
  <2>1. /\ Depth \in 1..Depth /\ pending[Depth] \in SUBSET Name
        /\ pending[Depth] \subseteq rules[activePath[Depth]]
        /\ activePath[Depth] \in Declared(rules)
    BY <1>2, Shape DEF IInv, Stack
  <2>2. IsFiniteSet(pending[Depth])
    BY <2>1, FinitelyMany, FS_Subset
  <2>3. PICK d \in pending[Depth] : IsFirst(d, pending[Depth])
    BY <1>2, <2>1, <2>2, FirstOf
  <2> QED BY <1>2, <2>1, <2>3 DEF TurnDue, Takes
<1> QED BY <1>1, <1>2 DEF TurnDue

\* Entering a package that is neither visited nor active takes nothing.
LEMMA EnterTakesNothing ==
  ASSUME IInv, NEW p \in Declared(rules), p \notin activePackages,
         NEW rest \in Seq(SUBSET Name), Len(rest) = Depth,
         Enter(p, rest), UNCHANGED <<rules, visited>>,
         NEW q, NEW e
  PROVE  Due(q, e)' <=> /\ q \in Declared(rules) \ visited /\ e \in rules[q]
                        /\ \A i \in 1..Depth : activePath[i] = q => e \in rest[i]
<1>1. /\ Depth \in Nat /\ activePath \in Seq(Declared(rules))
      /\ activePath' = Append(activePath, p) /\ pending' = Append(rest, rules[p])
      /\ rules[p] \subseteq Name
  BY Shape DEF IInv, SearchTypeOK, Enter
<1>2. /\ Depth' = Depth + 1
      /\ \A i \in 1..Depth : activePath'[i] = activePath[i] /\ pending'[i] = rest[i]
      /\ activePath'[Depth + 1] = p /\ pending'[Depth + 1] = rules[p]
  BY <1>1 DEF Depth
<1>3. \A i \in 1..(Depth + 1) : i \in 1..Depth \/ i = Depth + 1
  BY <1>1
<1>4. 1..Depth \subseteq 1..(Depth + 1) /\ Depth + 1 \in 1..(Depth + 1)
  BY <1>1
<1> QED BY <1>2, <1>3, <1>4 DEF Due, Declared

\* A turn of the innermost loop takes one dependency and nothing else.
LEMMA TakesOne ==
  ASSUME IInv, NEW d, Takes(d),
         MoveOn(d) \/ (d \in Declared(rules) \ activePackages /\ Enter(d, Rest(d))),
         UNCHANGED <<rules, roots, visited>>
  PROVE  TurnsLeft' = TurnsLeft - 1
<1>1. /\ Depth \in Nat \ {0}
      /\ d \in pending[Depth] /\ d \in rules[activePath[Depth]] /\ d \in Name
      /\ Rest(d) \in Seq(SUBSET Name)
      /\ Len(Rest(d)) = Depth
      /\ \A i \in 1..(Depth - 1) : Rest(d)[i] = pending[i]
      /\ Rest(d)[Depth] = pending[Depth] \ {d}
  BY RestOk
<1>2. /\ Depth \in 1..Depth /\ Active = activePath[Depth]
      /\ Active \in Declared(rules) /\ Active \notin visited
      /\ \A i \in 1..Depth : activePath[i] = Active => i = Depth
      /\ \A i \in 1..Depth : i # Depth => i \in 1..(Depth - 1)
  BY <1>1, Shape DEF IInv, Stack, Active
<1>3. \A q, e : Due(q, e)' <=> /\ q \in Declared(rules) \ visited /\ e \in rules[q]
                               /\ \A i \in 1..Depth : activePath[i] = q => e \in Rest(d)[i]
  <2> TAKE q, e
  <2>1. CASE MoveOn(d)
    <3>1. pending' = Rest(d) /\ activePath' = activePath /\ Depth' = Depth
      BY <2>1 DEF MoveOn, Depth
    <3> QED BY <3>1 DEF Due, Declared
  <2>2. CASE d \in Declared(rules) \ activePackages /\ Enter(d, Rest(d))
    BY <1>1, <2>2, EnterTakesNothing
  <2> QED BY <2>1, <2>2
<1>4. \A q, e : Due(q, e)' <=> Due(q, e) /\ ~(q = Active /\ e = d)
  <2> TAKE q, e
  <2>1. CASE q # Active
    <3>1. \A i \in 1..Depth : activePath[i] = q => Rest(d)[i] = pending[i]
      BY <1>1, <1>2, <2>1
    <3> QED BY <1>3, <2>1, <3>1 DEF Due
  <2>2. CASE q = Active
    <3>1. (\A i \in 1..Depth : activePath[i] = q => e \in Rest(d)[i]) <=> e \in pending[Depth] \ {d}
      BY <1>1, <1>2, <2>2
    <3>2. (\A i \in 1..Depth : activePath[i] = q => e \in pending[i]) <=> e \in pending[Depth]
      BY <1>1, <1>2, <2>2
    <3> QED BY <1>3, <2>2, <3>1, <3>2 DEF Due
  <2> QED BY <2>1, <2>2
<1>5. <<Active, d>> \in ToTake
  <2>1. Due(Active, d)
    BY <1>1, <1>2 DEF Due
  <2> QED BY <1>1, <1>2, <2>1 DEF ToTake
<1>6. ToTake' = ToTake \ {<<Active, d>>}
  <2>1. \A x \in Declared(rules) \X Name : x = <<x[1], x[2]>>
    OBVIOUS
  <2>2. \A x \in Declared(rules) \X Name : x = <<Active, d>> <=> x[1] = Active /\ x[2] = d
    BY <2>1
  <2>3. ToTake' = {x \in Declared(rules) \X Name : Due(x[1], x[2])'}
    BY DEF ToTake, Declared
  <2> QED BY <1>4, <2>2, <2>3 DEF ToTake
<1>7. /\ Cardinality(ToTake') = Cardinality(ToTake) - 1
      /\ Cardinality(ToTake) \in Nat /\ Cardinality(roots) \in Nat
      /\ Cardinality(Declared(rules) \ visited) \in Nat
  BY <1>5, <1>6, FinitelyMany, FS_RemoveElement, FS_CardinalityType
<1>8. Cardinality(ToTake)' = Cardinality(ToTake) - 1
  BY <1>7
<1>9. /\ Cardinality(roots)' = Cardinality(roots)
      /\ Cardinality(Declared(rules) \ visited)' = Cardinality(Declared(rules) \ visited)
  BY DEF Declared
<1> QED BY <1>7, <1>8, <1>9 DEF TurnsLeft

\* Each turn of the search is one less to come.
LEMMA OneTurnLess ==
  ASSUME IInv, SearchNext
  PROVE  TurnsLeft' = TurnsLeft - 1
<1>0. /\ Cardinality(ToTake) \in Nat /\ Cardinality(roots) \in Nat
      /\ Cardinality(Declared(rules) \ visited) \in Nat
  BY FinitelyMany, FS_CardinalityType
<1>1. ASSUME NEW p \in roots, VisitRoot(p) PROVE TurnsLeft' = TurnsLeft - 1
  <2>1. /\ Depth = 0 /\ activePackages = {} /\ p \in Declared(rules)
        /\ pending \in Seq(SUBSET Name) /\ Len(pending) = Depth
        /\ roots' = roots \ {p} /\ UNCHANGED <<rules, visited>>
    BY <1>1, Shape DEF IInv, SearchTypeOK, VisitRoot
  <2>2. \A q, e : Due(q, e)' <=> Due(q, e)
    <3>1. CASE p \in visited
      BY <1>1, <3>1 DEF VisitRoot, Due, Depth, Declared
    <3>2. CASE p \notin visited
      <4>1. Enter(p, pending)
        BY <1>1, <3>2 DEF VisitRoot
      <4>2. TAKE q, e
      <4>3. Due(q, e)' <=> /\ q \in Declared(rules) \ visited /\ e \in rules[q]
                           /\ \A i \in 1..Depth : activePath[i] = q => e \in pending[i]
        BY <2>1, <4>1, EnterTakesNothing
      <4> QED BY <4>3 DEF Due
    <3> QED BY <3>1, <3>2
  <2>3. ToTake' = {x \in Declared(rules) \X Name : Due(x[1], x[2])'}
    BY <2>1 DEF ToTake, Declared
  <2>4. ToTake' = ToTake
    BY <2>2, <2>3 DEF ToTake
  <2>5. Cardinality(roots') = Cardinality(roots) - 1
    BY <2>1, FinitelyMany, FS_RemoveElement
  <2>6. /\ Cardinality(ToTake)' = Cardinality(ToTake)
        /\ Cardinality(roots)' = Cardinality(roots) - 1
        /\ Cardinality(Declared(rules) \ visited)' = Cardinality(Declared(rules) \ visited)
    BY <2>1, <2>4, <2>5 DEF Declared
  <2> QED BY <1>0, <2>6 DEF TurnsLeft
<1>2. ASSUME NEW d \in Name, SkipUndeclared(d) \/ ReportCycle(d) \/ SkipVisited(d) \/ Descend(d)
      PROVE  TurnsLeft' = TurnsLeft - 1
  <2>1. /\ Takes(d) /\ UNCHANGED <<rules, roots, visited>>
        /\ MoveOn(d) \/ (d \in Declared(rules) \ activePackages /\ Enter(d, Rest(d)))
    BY <1>2 DEF SkipUndeclared, ReportCycle, SkipVisited, Descend, IsActive
  <2> QED BY <2>1, TakesOne
<1>3. CASE Leave
  <2>1. /\ Depth \in Nat \ {0} /\ pending[Depth] = {} /\ Active = activePath[Depth]
        /\ Active \in Declared(rules) /\ Active \notin visited
        /\ \A i \in 1..Depth : activePath[i] = Active => i = Depth
        /\ activePath \in Seq(Declared(rules)) /\ pending \in Seq(SUBSET Name)
        /\ Len(pending) = Depth
    BY <1>3, Shape DEF IInv, SearchTypeOK, Stack, Leave, Active
  <2>2. /\ activePath' = SubSeq(activePath, 1, Depth - 1)
        /\ pending' = SubSeq(pending, 1, Depth - 1)
        /\ visited' = visited \cup {Active} /\ UNCHANGED <<rules, roots>>
    BY <1>3 DEF Leave
  <2>3. /\ Depth' = Depth - 1
        /\ \A i \in 1..(Depth - 1) : activePath'[i] = activePath[i] /\ pending'[i] = pending[i]
    BY <2>1, <2>2 DEF Depth
  <2>4. \A q, e : Due(q, e)' <=> Due(q, e)
    <3> TAKE q, e
    <3>1. CASE q = Active
      BY <2>1, <2>2, <3>1 DEF Due
    <3>2. CASE q # Active
      <4>1. \A i \in 1..Depth : activePath[i] = q => i \in 1..(Depth - 1)
        BY <2>1, <3>2
      <4>2. 1..(Depth - 1) \subseteq 1..Depth
        BY <2>1
      <4> QED BY <2>2, <2>3, <3>2, <4>1, <4>2 DEF Due, Declared
    <3> QED BY <3>1, <3>2
  <2>5. ToTake' = {x \in Declared(rules) \X Name : Due(x[1], x[2])'}
    BY <2>2 DEF ToTake, Declared
  <2>6. ToTake' = ToTake
    BY <2>4, <2>5 DEF ToTake
  <2>7. (Declared(rules) \ visited)' = (Declared(rules) \ visited) \ {Active}
    BY <2>2 DEF Declared
  <2>8. Cardinality((Declared(rules) \ visited)') = Cardinality(Declared(rules) \ visited) - 1
    <3>1. Active \in Declared(rules) \ visited /\ IsFiniteSet(Declared(rules) \ visited)
      BY <2>1, FinitelyMany
    <3>2. Cardinality((Declared(rules) \ visited) \ {Active})
            = Cardinality(Declared(rules) \ visited) - 1
      BY <3>1, FS_RemoveElement
    <3> QED BY <2>7, <3>2
  <2>9. /\ Cardinality(ToTake)' = Cardinality(ToTake)
        /\ Cardinality(roots)' = Cardinality(roots)
        /\ Cardinality(Declared(rules) \ visited)' = Cardinality(Declared(rules) \ visited) - 1
    BY <2>2, <2>6, <2>8
  <2> QED BY <1>0, <2>9 DEF TurnsLeft
<1> QED BY <1>1, <1>2, <1>3 DEF SearchNext

\* No turn is left exactly when the search has returned.
LEMMA NoTurnLeft ==
  ASSUME IInv
  PROVE  TurnsLeft \in Nat /\ (TurnsLeft = 0 <=> Returned)
<1>1. /\ Cardinality(ToTake) \in Nat /\ Cardinality(roots) \in Nat
      /\ Cardinality(Declared(rules) \ visited) \in Nat
      /\ Cardinality(roots) = 0 <=> roots = {}
      /\ Cardinality(ToTake) = 0 <=> ToTake = {}
      /\ Cardinality(Declared(rules) \ visited) = 0 <=> Declared(rules) \ visited = {}
  BY FinitelyMany, FS_CardinalityType, FS_EmptySet
<1>2. TurnsLeft \in Nat
      /\ (TurnsLeft = 0 <=> roots = {} /\ ToTake = {} /\ Declared(rules) \ visited = {})
  BY <1>1 DEF TurnsLeft
<1>3. ASSUME Returned PROVE ToTake = {} /\ Declared(rules) \ visited = {}
  <2>1. Depth = 0 /\ activePackages = {} /\ roots = {}
    BY <1>3, Shape DEF IInv, SearchTypeOK, Returned
  <2>2. Declared(rules) \ visited = {}
    BY <2>1 DEF IInv, Outer
  <2> QED BY <2>2 DEF ToTake, Due
<1>4. ASSUME roots = {}, Declared(rules) \ visited = {} PROVE Returned
  <2>1. \A i \in 1..Depth : activePath[i] \in Declared(rules) \ visited
    BY Shape DEF IInv, Stack
  <2>2. Depth \in Nat /\ (activePath = <<>> <=> Depth = 0)
    BY Shape DEF IInv
  <2>3. Depth # 0 => 1 \in 1..Depth
    BY <2>2
  <2> QED BY <1>4, <2>1, <2>2, <2>3 DEF Returned
<1> QED BY <1>2, <1>3, <1>4 DEF Returned

\* The search returns after exactly one turn for each declared package, one for each
\* dependency and one for each end of a visit, whatever the rules: each step is one of
\* those turns, none is left exactly when it has returned, and until then one is due
\* (lines 320-341).
THEOREM TurnsTheorem ==
  SearchSpec => /\ [](TurnsLeft \in Nat /\ (TurnsLeft = 0 <=> Returned))
                /\ [](Returned \/ TurnDue)
                /\ [][TurnsLeft' = TurnsLeft - 1]_searchVars
<1>1. IInv => TurnsLeft \in Nat /\ (TurnsLeft = 0 <=> Returned)
  BY NoTurnLeft
<1>2. IInv => Returned \/ TurnDue
  BY SearchGoesOn
<1>3. IInv /\ [SearchNext]_searchVars => [TurnsLeft' = TurnsLeft - 1]_searchVars
  BY OneTurnLess
<1> QED BY <1>1, <1>2, <1>3, InvariantTheorem, PTL DEF SearchSpec

\* Steps of the whole check still to come, at most: the search, its report, each file,
\* and the exit.
StepsLeft ==
  CASE outcome = "starting"   -> TurnsLeft + Cardinality(tree.files) + 3
    [] outcome = "searching"  -> TurnsLeft + Cardinality(tree.files) + 2
    [] outcome = "inspecting" -> Cardinality(uninspected) + 1
    [] OTHER                  -> 0

Ended == outcome \in {"valid", "invalid", "raised"}

LEMMA OutcomeOk ==
  ASSUME outcome \in {"starting", "searching", "inspecting"} \/ Ended, [Next]_vars
  PROVE  (outcome \in {"starting", "searching", "inspecting"} \/ Ended)'
BY DEF Ended, Next, CheckPolicy, Search, EndSearch, InspectFile, Exit, vars

\* What is left of the check is a number of steps, and none when it has ended.
LEMMA StepsAreFinite ==
  ASSUME IInv, CheckInv, outcome \in {"starting", "searching", "inspecting"} \/ Ended
  PROVE  /\ StepsLeft \in Nat /\ (StepsLeft = 0 <=> Ended)
         /\ Cardinality(tree.files) \in Nat
         /\ IsFiniteSet(uninspected) /\ Cardinality(uninspected) \in Nat
<1>1. /\ IsFiniteSet(tree.files) /\ Cardinality(tree.files) \in Nat
      /\ IsFiniteSet(uninspected) /\ Cardinality(uninspected) \in Nat
  BY CheckedTree, FS_Subset, FS_CardinalityType DEF TreeOk, CheckInv
<1>2. TurnsLeft \in Nat
  BY NoTurnLeft
<1> QED BY <1>1, <1>2 DEF StepsLeft, Ended

\* Each step of the check leaves fewer of them.
LEMMA FewerSteps ==
  ASSUME IInv, CheckInv, Next
  PROVE  StepsLeft' < StepsLeft
<1>0. /\ TurnsLeft \in Nat /\ Cardinality(tree.files) \in Nat
      /\ IsFiniteSet(uninspected) /\ Cardinality(uninspected) \in Nat
  BY NoTurnLeft, CheckedTree, FS_Subset, FS_CardinalityType DEF TreeOk, CheckInv
<1>1. CASE CheckPolicy
  <2>1. /\ outcome = "starting" /\ tree' = tree /\ uninspected = uninspected'
        /\ outcome' = "searching" \/ outcome' = "inspecting"
        /\ UNCHANGED searchVars
    BY <1>1 DEF CheckPolicy
  <2>2. TurnsLeft' = TurnsLeft
    BY <2>1 DEF searchVars, TurnsLeft, ToTake, Due, Declared, Depth
  <2>3. Cardinality(uninspected) <= Cardinality(tree.files)
    BY CheckedTree, FS_Subset DEF TreeOk, CheckInv
  <2>4. /\ Cardinality(tree.files)' = Cardinality(tree.files)
        /\ Cardinality(uninspected)' = Cardinality(uninspected)
    BY <2>1
  <2> QED BY <1>0, <2>1, <2>2, <2>3, <2>4 DEF StepsLeft
<1>2. CASE Search
  <2>1. outcome = "searching" /\ outcome' = "searching" /\ tree' = tree
    BY <1>2 DEF Search
  <2>2. TurnsLeft' = TurnsLeft - 1
    BY <1>2, OneTurnLess DEF Search
  <2>3. Cardinality(tree.files)' = Cardinality(tree.files)
    BY <2>1
  <2> QED BY <1>0, <2>1, <2>2, <2>3 DEF StepsLeft
<1>3. CASE EndSearch
  <2>1. outcome = "searching" /\ outcome' = "inspecting" /\ uninspected' = tree.files
    BY <1>3 DEF EndSearch
  <2>2. Cardinality(uninspected)' = Cardinality(tree.files)
    BY <2>1
  <2> QED BY <1>0, <2>1, <2>2 DEF StepsLeft
<1>4. ASSUME NEW f \in uninspected, InspectFile(f) PROVE StepsLeft' < StepsLeft
  <2>1. /\ outcome = "inspecting" /\ outcome' \in {"inspecting", "raised"}
        /\ uninspected' = uninspected \ {f}
    BY <1>4 DEF InspectFile
  <2>2. Cardinality(uninspected \ {f}) = Cardinality(uninspected) - 1
    BY <1>0, FS_RemoveElement
  <2>3. Cardinality(uninspected)' = Cardinality(uninspected) - 1
    BY <2>1, <2>2
  <2> QED BY <1>0, <2>1, <2>3 DEF StepsLeft
<1>5. CASE Exit
  <2>1. outcome = "inspecting" /\ outcome' \in {"valid", "invalid"}
    BY <1>5 DEF Exit
  <2> QED BY <1>0, <2>1 DEF StepsLeft
<1> QED BY <1>1, <1>2, <1>3, <1>4, <1>5 DEF Next

\* The check takes finitely many steps and gets stuck before none of them: what is left
\* of it is a natural number that every step makes smaller, that is 0 exactly when the
\* check has ended, and a search that has not returned has a turn that is due.  With
\* fairness this is Termination.
THEOREM StepsTheorem ==
  Spec => /\ [](StepsLeft \in Nat /\ (StepsLeft = 0 <=> Ended))
          /\ [](outcome = "searching" => Returned \/ TurnDue)
          /\ [][StepsLeft' < StepsLeft]_vars
<1> DEFINE O == outcome \in {"starting", "searching", "inspecting"} \/ Ended
<1>1. Init => O
  BY DEF Init
<1>2. O /\ [Next]_vars => O'
  BY OutcomeOk
<1>3. IInv /\ CheckInv /\ O => StepsLeft \in Nat /\ (StepsLeft = 0 <=> Ended)
  BY StepsAreFinite
<1>4. IInv => (outcome = "searching" => Returned \/ TurnDue)
  BY SearchGoesOn
<1>5. IInv /\ CheckInv /\ [Next]_vars => [StepsLeft' < StepsLeft]_vars
  BY FewerSteps
<1> HIDE DEF O
<1> QED BY <1>1, <1>2, <1>3, <1>4, <1>5, SearchTheorem, InvariantTheorem, CheckSoundness, PTL
        DEF Spec
=============================================================================
