------------------------- MODULE AuditSchemaProofs -------------------------
(***************************************************************************)
(* Theorems about the schemas of audit events (audit/schema.py).           *)
(***************************************************************************)
EXTENDS EventIdentity, AuditPayload, TLAPS, WellFoundedInduction

-----------------------------------------------------------------------------
(* EventIdentity, for any wall times and any hours that are skipped and        *)
(* repeated.  Once every datetime in the log is at offset 0 (TypeOK), what     *)
(* append answers follows from what == means.                                  *)

\* Offsets are 0 or 1.
LEMMA OffsetType ==
  ASSUME NEW d \in Datetimes(Int)
  PROVE  Offset(d) \in {0, 1} /\ Moment(d) \in Int
BY SeasonAssumption DEF Offset, OffsetAt, Moment, Datetimes, Zone

\* An event that callers build is of the type of those in the log.
LEMMA EventType ==
  ASSUME NEW e \in Event
  PROVE  e \in [event_id : EventId, occurred_at : Datetimes(Int), payload : Payload]
BY WallAssumption DEF Event, Datetimes

\* Datetimes at offset 0 that are equal are the same moment.
LEMMA EqualAtZero ==
  ASSUME NEW c \in Datetimes(Int), NEW d \in Datetimes(Int), IsUtc(c), IsUtc(d),
         EqualTimes(c, d)
  PROVE  Moment(c) = Moment(d)
BY DEF EqualTimes, Moment, IsUtc, Datetimes

\* Datetimes at offset 0 that are one moment are equal, except across zones in an hour
\* that is skipped or repeated.
LEMMA SameMoment ==
  ASSUME NEW c \in Datetimes(Int), NEW d \in Datetimes(Int), IsUtc(c), IsUtc(d),
         Moment(c) = Moment(d), ~EqualTimes(c, d)
  PROVE  c.zone # d.zone /\ (DependsOnFold(c) \/ DependsOnFold(d))
BY DEF EqualTimes, Moment, IsUtc, Datetimes

\* The log and what was saved keep their types: no restart brings in a datetime that
\* the constructor would refuse.
THEOREM TypeTheorem == Spec => []TypeOK
<1>1. Init => TypeOK
  BY DEF Init, TypeOK
<1>2. TypeOK /\ [Next]_vars => TypeOK'
  <2> SUFFICES ASSUME TypeOK, [Next]_vars PROVE TypeOK'
    OBVIOUS
  <2>1. ASSUME NEW e \in Event, AppendEvent(e) PROVE TypeOK'
    <3>1. CASE UNCHANGED log
      BY <2>1, <3>1 DEF TypeOK, AppendEvent, Answer
    <3>2. CASE ~Rejects(e.occurred_at) /\ log' = Append(log, e) /\ Answer(e, None, "ok")
      BY <2>1, <3>2, EventType DEF TypeOK, AppendEvent, Answer, Rejects, Datetimes
    <3> QED BY <2>1, <3>1, <3>2 DEF AppendEvent
  <2>2. ASSUME Serialize PROVE TypeOK'
    BY <2>2, OffsetType DEF TypeOK, Serialize, ToJson, Datetimes
  <2>3. ASSUME Restart PROVE TypeOK'
    BY <2>3 DEF TypeOK, Restart, FromJson, Utc, Zone, IsUtc, Offset, OffsetAt
  <2>4. CASE UNCHANGED vars
    BY <2>4 DEF TypeOK, vars
  <2> QED BY <2>1, <2>2, <2>3, <2>4 DEF Next, DoAppend
<1> QED BY <1>1, <1>2, PTL DEF Spec

\* What append answers to an event whose identifier the log has, from the types alone.
LEMMA AnswerLemma ==
  ASSUME TypeOK, NEW e \in Event, AppendEvent(e), Met'
  PROVE  ConflictsAreRefused' /\ RefusalsAreConflicts'
<1>1. PICK i \in DOMAIN log :
        /\ ~Rejects(e.occurred_at) /\ log[i].event_id = e.event_id
        /\ Answer(e, log[i], IF EqualEvents(log[i], e) THEN "ok" ELSE "integrity")
  BY DEF AppendEvent, Answer, Met
<1> DEFINE c == log[i].occurred_at  d == e.occurred_at
<1>2. c \in Datetimes(Int) /\ d \in Datetimes(Int) /\ IsUtc(c) /\ IsUtc(d)
  BY <1>1, EventType DEF TypeOK, Rejects, Datetimes
<1>3. last'.event = e /\ last'.existing = log[i]
  BY <1>1 DEF Answer
<1>4. CASE EqualEvents(log[i], e)
  <2>1. Moment(c) = Moment(d)
    BY <1>2, <1>4, EqualAtZero DEF EqualEvents
  <2>2. ToJson(e) = ToJson(log[i])
    BY <1>4, <2>1 DEF ToJson, EqualEvents
  <2>3. last'.answer = "ok"
    BY <1>1, <1>4 DEF Answer
  <2> QED BY <1>3, <2>2, <2>3 DEF ConflictsAreRefused, RefusalsAreConflicts
<1>5. CASE ~EqualEvents(log[i], e)
  <2>1. last'.answer = "integrity"
    BY <1>1, <1>5 DEF Answer
  <2>2. ASSUME ToJson(e) = ToJson(log[i])
        PROVE  d.zone # c.zone /\ (DependsOnFold(d) \/ DependsOnFold(c))
    <3>1. Moment(c) = Moment(d) /\ e.payload = log[i].payload /\ e.event_id = log[i].event_id
      BY <2>2 DEF ToJson
    <3> QED BY <1>2, <1>5, <3>1, SameMoment DEF EqualEvents
  <2> QED BY <1>3, <2>1, <2>2 DEF ConflictsAreRefused, RefusalsAreConflicts
<1> QED BY <1>4, <1>5

\* The answers follow the texts, up to the one exception, in every reachable state.
LEMMA AnswersHold == Spec => [](ConflictsAreRefused /\ RefusalsAreConflicts)
<1> DEFINE Answers == ConflictsAreRefused /\ RefusalsAreConflicts
<1>1. Init => Answers
  BY DEF Init, ConflictsAreRefused, RefusalsAreConflicts, Met
<1>2. TypeOK /\ Answers /\ [Next]_vars => Answers'
  <2> SUFFICES ASSUME TypeOK, Answers, [Next]_vars PROVE Answers'
    OBVIOUS
  <2>1. ASSUME NEW e \in Event, AppendEvent(e) PROVE Answers'
    <3>1. CASE Met'
      BY <2>1, <3>1, AnswerLemma
    <3>2. CASE ~Met'
      BY <3>2 DEF ConflictsAreRefused, RefusalsAreConflicts, Met
    <3> QED BY <3>1, <3>2
  <2>2. CASE UNCHANGED last
    BY <2>2 DEF ConflictsAreRefused, RefusalsAreConflicts, Met
  <2> QED BY <2>1, <2>2 DEF Next, DoAppend, Serialize, Restart, vars
<1> QED BY <1>1, <1>2, TypeTheorem, PTL DEF Spec

\* Different content under one identifier is never accepted, in whatever zones and
\* hours its datetimes are and however often the process restarts.
THEOREM ConflictTheorem == Spec => []ConflictsAreRefused
BY AnswersHold, PTL

\* The skipped and the repeated hour of another zone are the only way in which the same
\* content is refused.
THEOREM RefusalTheorem == Spec => []RefusalsAreConflicts
BY AnswersHold, PTL

-----------------------------------------------------------------------------
(* AuditPayload, for any keys, values and texts, however deep.  A value is    *)
(* written and parsed node by node, and every node keeps what is inside of    *)
(* it, so that no induction over values is needed; sort_keys is a recursion   *)
(* over the sorted keys.                                                      *)

\* A nonempty set of natural numbers has a least element.
LEMMA LeastOf ==
  ASSUME NEW S \in SUBSET Nat, S # {}
  PROVE  \E m \in S : \A k \in S : m <= k
<1> DEFINE R == OpToRel(<, Nat)
<1>1. IsWellFoundedOn(R, Nat)
  BY NatLessThanWellFounded
<1>2. R = { ss \in Nat \X Nat : ss[1] < ss[2] }
  BY DEF OpToRel
<1> HIDE DEF R
<1>3. PICK x \in S : \A y \in S : ~ (<<y, x>> \in R)
  <2>1. \E x \in S : \A y \in S : ~ (<<y, x>> \in R)
    BY <1>1, WFMin
  <2> QED BY <2>1
<1>4. \A y \in S : <<y, x>> \in Nat \X Nat /\ <<y, x>>[1] = y /\ <<y, x>>[2] = x
  OBVIOUS
<1>5. \A y \in S : ~(y < x)
  BY <1>2, <1>3, <1>4
<1> QED BY <1>5

\* One turn of the sorting, from what the turns before gave
SortTurn(keys, f, n) ==
  IF n = 0 THEN <<>>
  ELSE IF Key[n] \in keys THEN Append(f[n - 1], Key[n]) ELSE f[n - 1]

\* The function that Sorted describes exists.
LEMMA SortIsDefined ==
  ASSUME NEW keys
  PROVE  \E f : f = [n \in 0..Len(Key) |-> SortTurn(keys, f, n)]
<1> DEFINE N == Len(Key)
           Upto(m, f) == f = [n \in 0..m |-> SortTurn(keys, f, n)]
           S == { m \in 0..N : ~\E f : Upto(m, f) }
<1>1. N \in Nat
  BY PayloadAssumption DEF IsSequence
<1>2. SUFFICES ASSUME S # {} PROVE FALSE
  <2>1. N \in 0..N
    BY <1>1
  <2> HIDE DEF N
  <2> QED BY <2>1 DEF N
<1>3. S \in SUBSET Nat
  BY <1>1
<1>4. PICK m \in S : \A k \in S : m <= k
  <2> HIDE DEF S
  <2> QED BY <1>2, <1>3, LeastOf
<1> HIDE DEF N
<1>5. m # 0
  <2>1. Upto(0, [n \in 0..0 |-> <<>>])
    BY DEF SortTurn
  <2> QED BY <1>4, <2>1
<1>6. PICK f : Upto(m - 1, f)
  <2>1. m - 1 \in 0..N /\ ~(m <= m - 1)
    BY <1>1, <1>4, <1>5
  <2> QED BY <1>4, <2>1
<1> DEFINE g == [n \in 0..m |-> IF n = m THEN SortTurn(keys, f, m) ELSE f[n]]
<1>7. ASSUME NEW n \in 0..m
      PROVE  SortTurn(keys, g, n) = g[n]
  <2>1. m \in Nat /\ (n # m => n \in 0..(m - 1))
    BY <1>1, <1>4
  <2>2. CASE n = 0
    BY <1>5, <1>6, <2>1, <2>2 DEF SortTurn
  <2>3. CASE n # 0
    <3>1. n - 1 \in 0..m /\ n - 1 # m
      BY <2>1, <2>3
    <3>2. g[n - 1] = f[n - 1]
      BY <3>1
    <3>3. SortTurn(keys, g, n) = SortTurn(keys, f, n)
      BY <2>3, <3>2 DEF SortTurn
    <3> QED BY <1>6, <2>1, <3>3
  <2> QED BY <2>2, <2>3
<1>8. Upto(m, g)
  BY <1>7
<1> QED BY <1>4, <1>8

\* Sorting keeps the keys that there are, each once.
LEMMA SortedContent ==
  ASSUME NEW keys
  PROVE  /\ Sorted(keys) \in Seq({ Key[i] : i \in DOMAIN Key })
         /\ Distinct(Sorted(keys))
         /\ { Sorted(keys)[i] : i \in DOMAIN Sorted(keys) } =
              { k \in keys : IsKey(k) }
<1> DEFINE N == Len(Key)
           K == { Key[i] : i \in DOMAIN Key }
           f == CHOOSE f : f = [n \in 0..N |-> SortTurn(keys, f, n)]
           Good(n) == /\ f[n] \in Seq(K) /\ Distinct(f[n])
                      /\ \A k : (\E i \in DOMAIN f[n] : f[n][i] = k)
                                  <=> k \in keys /\ \E i \in 1..n : Key[i] = k
           S == { n \in 0..N : ~Good(n) }
<1>1. N \in Nat /\ DOMAIN Key = 1..N /\ \A i, j \in 1..N : Key[i] = Key[j] => i = j
  BY PayloadAssumption DEF IsSequence, Distinct
<1>2. f = [n \in 0..N |-> SortTurn(keys, f, n)]
  BY SortIsDefined
<1>3. Sorted(keys) = f[N]
  BY DEF Sorted, SortTurn
<1> HIDE DEF f, N
<1>4. \A n \in 0..N : f[n] = SortTurn(keys, f, n)
  BY <1>2
<1>5. S = {}
  <2> SUFFICES ASSUME S # {} PROVE FALSE
    OBVIOUS
  <2>1. S \in SUBSET Nat
    BY <1>1
  <2>2. PICK n \in S : \A k \in S : n <= k
    <3> HIDE DEF S
    <3> QED BY <2>1, LeastOf
  <2>3. n \in 0..N /\ n \in Nat /\ ~Good(n)
    BY <1>1, <2>2
  <2>4. CASE n = 0
    <3>1. f[n] = <<>>
      BY <1>4, <2>3, <2>4 DEF SortTurn
    <3>2. Good(n)
      BY <2>4, <3>1 DEF Distinct
    <3> QED BY <2>3, <3>2
  <2>5. CASE n # 0
    <3>1. n - 1 \in 0..N /\ n \in 1..N /\ ~(n <= n - 1)
      BY <1>1, <2>3, <2>5
    <3>2. Good(n - 1)
      <4>1. n - 1 \notin S
        BY <2>2, <3>1
      <4> HIDE DEF Good
      <4> QED BY <3>1, <4>1
    <3>3. \A i : i \in 1..n <=> i \in 1..(n - 1) \/ i = n
      BY <2>3, <2>5
    <3>4. CASE Key[n] \notin keys
      <4>1. f[n] = f[n - 1]
        BY <1>4, <2>3, <2>5, <3>4 DEF SortTurn
      <4>2. Good(n)
        BY <3>2, <3>3, <3>4, <4>1
      <4> QED BY <2>3, <4>2
    <3>5. CASE Key[n] \in keys
      <4> DEFINE m == Len(f[n - 1])
      <4>1. f[n] = Append(f[n - 1], Key[n])
        BY <1>4, <2>3, <2>5, <3>5 DEF SortTurn
      <4>2. Key[n] \in K
        BY <1>1, <3>1
      <4>3. f[n] \in Seq(K)
        BY <3>2, <4>1, <4>2
      <4>4. m \in Nat /\ DOMAIN f[n - 1] = 1..m /\ DOMAIN f[n] = 1..(m + 1)
        BY <3>2, <4>1
      <4>5. f[n][m + 1] = Key[n] /\ \A i \in 1..m : f[n][i] = f[n - 1][i]
        BY <3>2, <4>1
      <4>6. \A i : i \in 1..(m + 1) <=> i \in 1..m \/ i = m + 1
        BY <4>4
      <4> HIDE DEF m
      <4>7. \A i \in 1..m : f[n - 1][i] # Key[n]
        <5> SUFFICES ASSUME NEW i \in 1..m, f[n - 1][i] = Key[n] PROVE FALSE
          OBVIOUS
        <5>1. \E j \in 1..(n - 1) : Key[j] = Key[n]
          BY <3>2, <4>4
        <5>2. \A j \in 1..(n - 1) : j \in 1..N /\ j # n
          BY <1>1, <3>1
        <5> QED BY <1>1, <3>1, <5>1, <5>2
      <4>8. Distinct(f[n])
        BY <3>2, <4>4, <4>5, <4>6, <4>7 DEF Distinct
      <4>9. \A k : (\E i \in DOMAIN f[n] : f[n][i] = k)
                     <=> (\E i \in DOMAIN f[n - 1] : f[n - 1][i] = k) \/ k = Key[n]
        BY <4>4, <4>5, <4>6
      <4>10. \A k : (\E i \in 1..n : Key[i] = k) <=> (\E i \in 1..(n - 1) : Key[i] = k) \/ k = Key[n]
        BY <3>3
      <4>11. Good(n)
        BY <3>2, <3>5, <4>3, <4>8, <4>9, <4>10
      <4> QED BY <2>3, <4>11
    <3> QED BY <3>4, <3>5
  <2> QED BY <2>4, <2>5
<1>6. Good(N)
  <2>1. N \in 0..N
    BY <1>1
  <2> HIDE DEF Good
  <2> QED BY <1>5, <2>1
<1>7. \A k : (\E i \in 1..N : Key[i] = k) <=> IsKey(k)
  BY <1>1 DEF IsKey
<1> QED BY <1>3, <1>6, <1>7

\* The keys of a mapping that is accepted are all written.
LEMMA WrittenKeys ==
  ASSUME NEW v, NEW p, AcceptsNode(v, p), v[p][1] = "map"
  PROVE  /\ Written(v[p]) = <<"object", Sorted(KeysOf(v[p]))>>
         /\ IsSequence(Sorted(KeysOf(v[p]))) /\ Distinct(Sorted(KeysOf(v[p])))
         /\ KeysOf(Written(v[p])) = KeysOf(v[p])
<1> DEFINE ks == KeysOf(v[p])
           s == Sorted(ks)
<1>1. \A k \in ks : IsKey(k)
  BY DEF AcceptsNode, AcceptsKey
<1>2. Written(v[p]) = <<"object", s>>
  BY DEF Written
<1> HIDE DEF ks
<1>3. { s[i] : i \in DOMAIN s } = ks
  BY <1>1, SortedContent
<1>4. IsSequence(s) /\ Distinct(s)
  <2>1. s \in Seq({ Key[i] : i \in DOMAIN Key }) /\ Distinct(s)
    BY SortedContent
  <2> QED BY <2>1 DEF IsSequence
<1>5. KeysOf(Written(v[p])) = { s[i] : i \in DOMAIN s }
  BY <1>2 DEF KeysOf
<1> QED BY <1>2, <1>3, <1>4, <1>5 DEF ks

\* What a value that is accepted is written as, node by node.
LEMMA WrittenNode ==
  ASSUME NEW v, IsValue(v), Accepts(v), NEW p \in DOMAIN v
  PROVE  LET w == Tree(v)[p] IN
         /\ w = Written(v[p]) /\ w = <<w[1], w[2]>>
         /\ Steps(w) = Steps(v[p])
         /\ w[1] \notin {"list", "tuple", "map", "float"}
         /\ w[1] = "array" => w[2] \in Nat
         /\ w[1] = "object" => IsSequence(w[2]) /\ Distinct(w[2])
         /\ w[1] = "object" <=> v[p][1] = "map"
<1> DEFINE w == Written(v[p])
<1>1. Tree(v)[p] = w
  BY DEF Tree
<1>2. AcceptsNode(v, p) /\ v[p] = <<v[p][1], v[p][2]>>
  BY DEF Accepts, IsValue, IsTree
<1>3. CASE v[p][1] \in {"list", "tuple"}
  <2>1. w = <<"array", v[p][2]>> /\ v[p][2] \in Nat
    BY <1>3 DEF Written, IsValue, IsTree
  <2> QED BY <1>1, <1>3, <2>1 DEF Steps
<1>4. CASE v[p][1] = "map"
  <2>1. w = <<"object", Sorted(KeysOf(v[p]))>> /\ KeysOf(w) = KeysOf(v[p])
    BY <1>2, <1>4, WrittenKeys
  <2>2. IsSequence(w[2]) /\ Distinct(w[2])
    BY <1>2, <1>4, <2>1, WrittenKeys
  <2>3. Steps(w) = Steps(v[p])
    BY <1>4, <2>1 DEF Steps
  <2> QED BY <1>1, <1>4, <2>1, <2>2, <2>3
<1>5. CASE v[p][1] \in {"null", "bool", "str", "int"}
  BY <1>1, <1>2, <1>5 DEF Written
<1> QED BY <1>2, <1>3, <1>4, <1>5 DEF AcceptsNode

\* What is inside of a tree depends on the steps from its nodes.
LEMMA SameSteps ==
  ASSUME NEW v, NEW w, DOMAIN v = DOMAIN w, \A p \in DOMAIN v : Steps(w[p]) = Steps(v[p])
  PROVE  UNION { Inside(v, p) : p \in DOMAIN v } = UNION { Inside(w, p) : p \in DOMAIN w }
<1>1. \A p \in DOMAIN v : Inside(v, p) = Inside(w, p)
  BY DEF Inside
<1> QED BY <1>1

\* A value that is accepted is written as JSON that parses.
LEMMA WritesSyntax ==
  ASSUME NEW v, IsValue(v), Accepts(v)
  PROVE  IsSyntax(Tree(v)) /\ Parses(Tree(v)) /\ DOMAIN Tree(v) = DOMAIN v
<1> DEFINE t == Tree(v)
<1>1. DOMAIN t = DOMAIN v
  BY DEF Tree
<1>2. \A p \in DOMAIN v : /\ t[p] = <<t[p][1], t[p][2]>>
                          /\ Steps(t[p]) = Steps(v[p])
                          /\ t[p][1] \notin {"list", "tuple", "map", "float"}
                          /\ t[p][1] = "array" => t[p][2] \in Nat
                          /\ t[p][1] = "object" => IsSequence(t[p][2]) /\ Distinct(t[p][2])
  BY WrittenNode
<1> HIDE DEF t
<1>3. IsTree(t)
  <2>1. DOMAIN t = {<<>>} \cup UNION { Inside(t, p) : p \in DOMAIN t }
    <3>1. UNION { Inside(v, p) : p \in DOMAIN v } = UNION { Inside(t, p) : p \in DOMAIN t }
      BY <1>1, <1>2, SameSteps
    <3>2. DOMAIN v = {<<>>} \cup UNION { Inside(v, p) : p \in DOMAIN v }
      BY DEF IsValue, IsTree
    <3> QED BY <1>1, <3>1, <3>2, Zenon
  <2>2. \A p \in DOMAIN t : IsSequence(p)
    BY <1>1 DEF IsValue, IsTree
  <2> QED BY <1>1, <1>2, <2>1, <2>2 DEF IsTree
<1>4. IsSyntax(t) /\ Parses(t)
  BY <1>1, <1>2, <1>3 DEF IsSyntax, Parses
<1> QED BY <1>1, <1>4 DEF t

\* What parses becomes a value, with the same inside of every node.
LEMMA ParsesValue ==
  ASSUME NEW t, IsSyntax(t), Parses(t)
  PROVE  IsValue(Parsed(t)) /\ DOMAIN Parsed(t) = DOMAIN t
<1> DEFINE v == Parsed(t)
<1>1. DOMAIN v = DOMAIN t
  BY DEF Parsed
<1>2. ASSUME NEW p \in DOMAIN t
      PROVE  /\ v[p] = <<v[p][1], v[p][2]>>
             /\ Steps(v[p]) = Steps(t[p])
             /\ v[p][1] \notin {"array", "object"}
             /\ v[p][1] \in {"list", "tuple"} => v[p][2] \in Nat
             /\ v[p][1] = "map" => IsSequence(v[p][2]) /\ Distinct(v[p][2])
  <2>1. t[p] = <<t[p][1], t[p][2]>> /\ t[p][1] \notin {"list", "tuple", "map"}
    BY DEF IsSyntax, IsTree
  <2>2. CASE t[p][1] = "array"
    <3>1. v[p] = <<"list", t[p][2]>> /\ t[p][2] \in Nat
      BY <2>2 DEF Parsed, IsSyntax, IsTree
    <3> QED BY <2>2, <3>1 DEF Steps
  <2>3. CASE t[p][1] = "object"
    <3>1. v[p] = <<"map", t[p][2]>> /\ IsSequence(t[p][2]) /\ Distinct(t[p][2])
      BY <2>3 DEF Parsed, IsSyntax, IsTree, Parses
    <3>2. KeysOf(v[p]) = KeysOf(t[p])
      BY <3>1 DEF KeysOf
    <3> QED BY <2>3, <3>1, <3>2 DEF Steps
  <2>4. CASE t[p][1] \notin {"array", "object"}
    <3>1. v[p] = t[p]
      BY <2>4 DEF Parsed
    <3> QED BY <2>1, <2>4, <3>1
  <2> QED BY <2>2, <2>3, <2>4
<1> HIDE DEF v
<1>3. IsTree(v)
  <2>1. DOMAIN v = {<<>>} \cup UNION { Inside(v, p) : p \in DOMAIN v }
    <3>1. UNION { Inside(t, p) : p \in DOMAIN t } = UNION { Inside(v, p) : p \in DOMAIN v }
      BY <1>1, <1>2, SameSteps
    <3>2. DOMAIN t = {<<>>} \cup UNION { Inside(t, p) : p \in DOMAIN t }
      BY DEF IsSyntax, IsTree
    <3> QED BY <1>1, <3>1, <3>2, Zenon
  <2>2. \A p \in DOMAIN v : IsSequence(p)
    BY <1>1 DEF IsSyntax, IsTree
  <2> QED BY <1>1, <1>2, <2>1, <2>2 DEF IsTree
<1>4. IsValue(v)
  BY <1>1, <1>2, <1>3 DEF IsValue
<1> QED BY <1>1, <1>4 DEF v

\* The copy of a value that is accepted, node by node: lists for tuples, sorted keys.
LEMMA CopiedNode ==
  ASSUME NEW v, IsValue(v), Accepts(v), NEW p \in DOMAIN v
  PROVE  LET u == Parsed(Tree(v)) IN
         /\ v[p][1] \in {"list", "tuple"} => u[p] = <<"list", v[p][2]>>
         /\ v[p][1] = "map" => u[p] = <<"map", Sorted(KeysOf(v[p]))>> /\ KeysOf(u[p]) = KeysOf(v[p])
         /\ v[p][1] \notin {"list", "tuple", "map"} => u[p] = v[p]
<1> DEFINE t == Tree(v)
           u == Parsed(t)
<1>1. t[p] = Written(v[p]) /\ DOMAIN t = DOMAIN v
  BY DEF Tree
<1>2. u[p] = CASE t[p][1] = "array"  -> <<"list", t[p][2]>>
               [] t[p][1] = "object" -> <<"map", t[p][2]>>
               [] OTHER              -> t[p]
  BY <1>1 DEF Parsed
<1>3. AcceptsNode(v, p) /\ v[p][1] \notin {"array", "object"}
  BY DEF Accepts, IsValue
<1> HIDE DEF t, u
<1>4. CASE v[p][1] \in {"list", "tuple"}
  <2>1. t[p] = <<"array", v[p][2]>>
    BY <1>1, <1>4 DEF Written
  <2> QED BY <1>2, <1>4, <2>1 DEF t, u
<1>5. CASE v[p][1] = "map"
  <2>1. t[p] = <<"object", Sorted(KeysOf(v[p]))>> /\ KeysOf(t[p]) = KeysOf(v[p])
    BY <1>1, <1>3, <1>5, WrittenKeys
  <2>2. u[p] = <<"map", Sorted(KeysOf(v[p]))>>
    BY <1>2, <2>1
  <2>3. KeysOf(u[p]) = KeysOf(v[p])
    <3>1. u[p][2] = t[p][2]
      BY <2>1, <2>2
    <3>2. KeysOf(u[p]) = KeysOf(t[p])
      BY <3>1, Zenon DEF KeysOf
    <3> QED BY <2>1, <3>2
  <2> QED BY <1>5, <2>2, <2>3 DEF t, u
<1>6. CASE v[p][1] \notin {"list", "tuple", "map"}
  <2>1. t[p] = v[p]
    BY <1>1, <1>6 DEF Written
  <2> QED BY <1>2, <1>3, <1>6, <2>1 DEF t, u
<1> QED BY <1>4, <1>5, <1>6

\* The copy is accepted, and is written as the text it was copied from.
LEMMA CopyOfCopy ==
  ASSUME NEW v, IsValue(v), Accepts(v)
  PROVE  LET u == Parsed(Tree(v)) IN Accepts(u) /\ Tree(u) = Tree(v)
<1> DEFINE u == Parsed(Tree(v))
<1>1. DOMAIN u = DOMAIN v
  BY WritesSyntax DEF Parsed
<1>2. \A p \in DOMAIN v :
        /\ v[p][1] \in {"list", "tuple"} => u[p] = <<"list", v[p][2]>>
        /\ v[p][1] = "map" => u[p] = <<"map", Sorted(KeysOf(v[p]))>> /\ KeysOf(u[p]) = KeysOf(v[p])
        /\ v[p][1] \notin {"list", "tuple", "map"} => u[p] = v[p]
  BY CopiedNode
<1> HIDE DEF u
<1>3. ASSUME NEW p \in DOMAIN v
      PROVE  AcceptsNode(u, p) /\ Written(u[p]) = Written(v[p])
  <2>1. AcceptsNode(v, p)
    BY DEF Accepts
  <2>2. CASE v[p][1] \in {"list", "tuple"}
    <3>1. u[p] = <<"list", v[p][2]>>
      BY <1>2, <2>2
    <3> QED BY <2>2, <3>1 DEF AcceptsNode, Written
  <2>3. CASE v[p][1] = "map"
    <3>1. u[p] = <<"map", Sorted(KeysOf(v[p]))>> /\ KeysOf(u[p]) = KeysOf(v[p])
      BY <1>2, <2>3
    <3>2. ASSUME NEW key \in KeysOf(v[p])
          PROVE  AcceptsKey(u, p, key)
      <4>1. AcceptsKey(v, p, key)
        BY <2>1, <2>3 DEF AcceptsNode
      <4>2. ASSUME key \in Sensitive
            PROVE  u[Append(p, Field(key))] = Redacted
        <5>1. v[Append(p, Field(key))] = Redacted
          BY <4>1, <4>2 DEF AcceptsKey
        <5>2. Append(p, Field(key)) \in DOMAIN v
          <6>1. Append(p, Field(key)) \in Inside(v, p)
            BY <2>3 DEF Inside, Steps
          <6> QED BY <6>1 DEF IsValue, IsTree
        <5>3. u[Append(p, Field(key))] = v[Append(p, Field(key))]
          BY <1>2, <5>1, <5>2 DEF Redacted
        <5> QED BY <5>1, <5>3
      <4> QED BY <4>1, <4>2 DEF AcceptsKey
    <3>3. AcceptsNode(u, p)
      BY <3>1, <3>2 DEF AcceptsNode
    <3>4. Written(u[p]) = Written(v[p])
      BY <2>3, <3>1 DEF Written
    <3> QED BY <3>3, <3>4
  <2>4. CASE v[p][1] \notin {"list", "tuple", "map"}
    <3>1. u[p] = v[p]
      BY <1>2, <2>4
    <3> QED BY <2>1, <2>4, <3>1 DEF AcceptsNode
  <2> QED BY <2>2, <2>3, <2>4
<1>4. Accepts(u) /\ Tree(u) = Tree(v)
  BY <1>1, <1>3 DEF Accepts, Tree
<1> QED BY <1>4 DEF u

\* Two values that are accepted are written as one text exactly if they have one content.
LEMMA TextIsContent ==
  ASSUME NEW v, IsValue(v), Accepts(v), NEW w, IsValue(w), Accepts(w)
  PROVE  Tree(v) = Tree(w) <=> Content(v) = Content(w)
<1>1. /\ DOMAIN Tree(v) = DOMAIN v /\ DOMAIN Tree(w) = DOMAIN w
      /\ DOMAIN Content(v) = DOMAIN v /\ DOMAIN Content(w) = DOMAIN w
  BY DEF Tree, Content
<1> SUFFICES ASSUME DOMAIN v = DOMAIN w
             PROVE  Tree(v) = Tree(w) <=> Content(v) = Content(w)
  BY <1>1
<1> DEFINE c(node) == CASE node[1] \in {"list", "tuple"} -> <<"list", node[2]>>
                        [] node[1] = "map" -> <<"map", KeysOf(node)>>
                        [] OTHER -> node
<1>2. Tree(v) = Tree(w) <=> \A p \in DOMAIN v : Written(v[p]) = Written(w[p])
  BY <1>1 DEF Tree
<1>3. Content(v) = Content(w) <=> \A p \in DOMAIN v : c(v[p]) = c(w[p])
  BY <1>1 DEF Content
<1>4. ASSUME NEW p \in DOMAIN v
      PROVE  Written(v[p]) = Written(w[p]) <=> c(v[p]) = c(w[p])
  <2>1. AcceptsNode(v, p) /\ AcceptsNode(w, p)
    BY DEF Accepts
  <2>2. v[p][1] \notin {"array", "object"} /\ w[p][1] \notin {"array", "object"}
    BY DEF IsValue
  <2>3. CASE v[p][1] = "map" /\ w[p][1] = "map"
    <3>1. /\ Written(v[p]) = <<"object", Sorted(KeysOf(v[p]))>>
          /\ Written(w[p]) = <<"object", Sorted(KeysOf(w[p]))>>
          /\ KeysOf(Written(v[p])) = KeysOf(v[p]) /\ KeysOf(Written(w[p])) = KeysOf(w[p])
      BY <2>1, <2>3, WrittenKeys
    <3>2. c(v[p]) = <<"map", KeysOf(v[p])>> /\ c(w[p]) = <<"map", KeysOf(w[p])>>
      BY <2>3
    <3> QED BY <3>1, <3>2
  <2>4. CASE ~(v[p][1] = "map" /\ w[p][1] = "map")
    <3> DEFINE a == v[p]
               b == w[p]
    <3>1. /\ a[1] \in {"list", "tuple"} => Written(a) = <<"array", a[2]>> /\ c(a) = <<"list", a[2]>>
          /\ b[1] \in {"list", "tuple"} => Written(b) = <<"array", b[2]>> /\ c(b) = <<"list", b[2]>>
          /\ a[1] = "map" => Written(a)[1] = "object" /\ c(a)[1] = "map"
          /\ b[1] = "map" => Written(b)[1] = "object" /\ c(b)[1] = "map"
          /\ a[1] \notin {"list", "tuple", "map"} => Written(a) = a /\ c(a) = a
          /\ b[1] \notin {"list", "tuple", "map"} => Written(b) = b /\ c(b) = b
      BY DEF Written
    <3> HIDE DEF c
    <3> QED BY <2>2, <2>4, <3>1
  <2> QED BY <2>3, <2>4
<1> QED BY <1>2, <1>3, <1>4

\* A node at the end of a field with a sensitive key is redacted.
LEMMA FieldIsRedacted ==
  ASSUME NEW v, IsValue(v), Accepts(v), NEW q \in DOMAIN v, q # <<>>,
         NEW key \in Sensitive, q[Len(q)] = Field(key)
  PROVE  v[q] = Redacted
<1>1. PICK p \in DOMAIN v : q \in Inside(v, p)
  BY DEF IsValue, IsTree
<1>2. PICK s \in Steps(v[p]) : q = Append(p, s)
  BY <1>1 DEF Inside
<1>3. s = Field(key)
  <2>1. IsSequence(p)
    BY DEF IsValue, IsTree
  <2>2. Len(q) = Len(p) + 1 /\ q[Len(p) + 1] = s
    BY <1>2, <2>1 DEF IsSequence
  <2> QED BY <2>2
<1>4. v[p][1] = "map" /\ key \in KeysOf(v[p])
  <2>1. v[p][1] \notin {"array", "object"}
    BY DEF IsValue
  <2>2. \A i, k : Field(k) # Item(i)
    BY DEF Field, Item
  <2>3. \A k : Field(k) = Field(key) => k = key
    BY DEF Field
  <2> QED BY <1>2, <1>3, <2>1, <2>2, <2>3 DEF Steps
<1>5. AcceptsKey(v, p, key)
  BY <1>4 DEF Accepts, AcceptsNode
<1> QED BY <1>2, <1>3, <1>5 DEF AcceptsKey

-----------------------------------------------------------------------------
(* The payloads that exist *)

\* What is kept of a payload: values that were accepted, under a schema that is valid,
\* and their canonical text.
Made(c) ==
  /\ IsValue(c.values) /\ Accepts(c.values) /\ c.values[<<>>][1] = "map"
  /\ c.payload = NewPayload(c.payload.schema, CanonicalJson(c.values))
  /\ c.payload.schema[1] \in SchemaName /\ c.payload.schema[2] > 0

PayloadInv == \A c \in created : Made(c)

\* The copy of a payload is what a caller could have made it of.
LEMMA CopyOfMade ==
  ASSUME NEW c, Made(c)
  PROVE  LET u == ToMapping(c.payload) IN
         /\ IsValue(u) /\ Accepts(u) /\ u[<<>>][1] = "map"
         /\ CanonicalJson(u) = c.payload.canonical_json
         /\ Constructs(c.payload.schema, c.payload.canonical_json)
<1> DEFINE v == c.values
           u == Parsed(Tree(v))
           text == CanonicalJson(v)
<1>1. IsValue(v) /\ Accepts(v) /\ v[<<>>][1] = "map"
  BY DEF Made
<1>2. c.payload.canonical_json = text /\ text.tree = Tree(v) /\ text.spelling = "canonical"
  BY DEF Made, NewPayload, CanonicalJson
<1>3. ToMapping(c.payload) = u
  BY <1>2 DEF ToMapping
<1>4. IsSyntax(Tree(v)) /\ Parses(Tree(v)) /\ DOMAIN Tree(v) = DOMAIN v
  BY <1>1, WritesSyntax
<1>5. IsValue(u)
  BY <1>4, ParsesValue
<1>6. Accepts(u) /\ Tree(u) = Tree(v)
  BY <1>1, CopyOfCopy
<1>7. <<>> \in DOMAIN v
  BY <1>1 DEF IsValue, IsTree
<1>8. u[<<>>][1] = "map"
  <2>1. u[<<>>] = <<"map", Sorted(KeysOf(v[<<>>]))>>
    BY <1>1, <1>7, CopiedNode
  <2> QED BY <2>1
<1>9. Tree(v)[<<>>][1] = "object"
  BY <1>1, <1>7, WrittenNode
<1>10. CanonicalJson(u) = text
  BY <1>6 DEF CanonicalJson
<1>11. Constructs(c.payload.schema, text)
  BY <1>2, <1>4, <1>6, <1>9, <1>10 DEF Constructs, Made
<1> QED BY <1>2, <1>3, <1>5, <1>6, <1>8, <1>10, <1>11

\* A text that the constructor takes, and what it says.
LEMMA ConstructKeeps ==
  ASSUME PayloadInv, NEW schema \in Schema, NEW text \in Text, Construct(schema, text)
  PROVE  PayloadInv'
<1>1. CASE UNCHANGED created
  BY <1>1 DEF PayloadInv
<1>2. CASE Constructs(schema, text) /\ created' = created \cup
             {[values |-> Parsed(text.tree), payload |-> NewPayload(schema, text)]}
  <2> DEFINE c == [values |-> Parsed(text.tree), payload |-> NewPayload(schema, text)]
  <2>1. IsSyntax(text.tree) /\ Parses(text.tree)
    BY <1>2, PayloadAssumption DEF Constructs
  <2>2. IsValue(Parsed(text.tree)) /\ Accepts(Parsed(text.tree))
    BY <1>2, <2>1, ParsesValue DEF Constructs
  <2>3. Parsed(text.tree)[<<>>][1] = "map"
    <3>1. <<>> \in DOMAIN text.tree
      BY <2>1 DEF IsSyntax, IsTree
    <3> QED BY <1>2, <3>1 DEF Constructs, Parsed
  <2>4. text = CanonicalJson(Parsed(text.tree))
    BY <1>2 DEF Constructs
  <2>5. Made(c)
    BY <1>2, <2>2, <2>3, <2>4 DEF Made, NewPayload, Constructs
  <2> HIDE DEF c
  <2> QED BY <1>2, <2>5 DEF PayloadInv, c
<1> QED BY <1>1, <1>2 DEF Construct, Make

\* Values that from_mapping takes, from a caller or from a copy
LEMMA FromMappingKeeps ==
  ASSUME PayloadInv, NEW schema, NEW values, IsValue(values), FromMapping(schema, values)
  PROVE  PayloadInv'
<1> DEFINE text == CanonicalJson(values)
           c == [values |-> values, payload |-> NewPayload(schema, text)]
<1>1. CASE UNCHANGED created
  BY <1>1 DEF PayloadInv
<1>2. CASE /\ values[<<>>][1] = "map" /\ Accepts(values) /\ Constructs(schema, text)
           /\ created' = created \cup {c}
  <2>1. Made(c)
    BY <1>2 DEF Made, NewPayload, Constructs
  <2> HIDE DEF c
  <2> QED BY <1>2, <2>1 DEF PayloadInv
<1> QED BY <1>1, <1>2 DEF FromMapping, Make

\* Every payload is the canonical text of values that are accepted.
THEOREM PayloadInvariant == PayloadSpec => []PayloadInv
<1>1. PayloadInit => PayloadInv
  BY DEF PayloadInit, PayloadInv
<1>2. PayloadInv /\ [PayloadNext]_payloadVars => PayloadInv'
  <2> SUFFICES ASSUME PayloadInv, [PayloadNext]_payloadVars PROVE PayloadInv'
    OBVIOUS
  <2>1. CASE DoConstruct
    BY <2>1, ConstructKeeps DEF DoConstruct
  <2>2. CASE DoFromMapping
    BY <2>2, FromMappingKeeps, PayloadAssumption DEF DoFromMapping
  <2>3. CASE DoCopy
    <3>1. PICK c \in created : FromMapping(c.payload.schema, ToMapping(c.payload))
      BY <2>3 DEF DoCopy, payloads
    <3>2. IsValue(ToMapping(c.payload))
      BY CopyOfMade DEF PayloadInv
    <3> QED BY <3>1, <3>2, FromMappingKeeps
  <2>4. CASE UNCHANGED payloadVars
    BY <2>4 DEF payloadVars, PayloadInv
  <2> QED BY <2>1, <2>2, <2>3, <2>4 DEF PayloadNext
<1> QED BY <1>1, <1>2, PTL DEF PayloadSpec

\* No payload tells what a sensitive key stands for, at any depth and inside of arrays,
\* whether it was made of values, of a text or of a copy.
THEOREM RedactionTheorem == PayloadSpec => []SecretsAreRedacted
<1>1. PayloadInv => SecretsAreRedacted
  <2> SUFFICES ASSUME PayloadInv, NEW c \in created,
                      NEW q \in DOMAIN ToMapping(c.payload), NEW key \in Sensitive,
                      q # <<>>, q[Len(q)] = Field(key)
               PROVE  ToMapping(c.payload)[q] = Redacted
    BY DEF SecretsAreRedacted, payloads
  <2>1. IsValue(ToMapping(c.payload)) /\ Accepts(ToMapping(c.payload))
    BY CopyOfMade DEF PayloadInv
  <2> QED BY <2>1, FieldIsRedacted
<1> QED BY <1>1, PayloadInvariant, PTL

\* Payloads are equal exactly if their schema and content are: equal evidence has equal
\* texts, and no evidence is lost on the way to its text.
THEOREM OneTextTheorem == PayloadSpec => []OneTextPerContent
<1>1. PayloadInv => OneTextPerContent
  <2> SUFFICES ASSUME PayloadInv, NEW c \in created, NEW d \in created
               PROVE  c.payload = d.payload <=>
                        c.payload.schema = d.payload.schema /\ Content(c.values) = Content(d.values)
    BY DEF OneTextPerContent
  <2>1. Made(c) /\ Made(d)
    BY DEF PayloadInv
  <2>2. Tree(c.values) = Tree(d.values) <=> Content(c.values) = Content(d.values)
    BY <2>1, TextIsContent DEF Made
  <2>3. /\ c.payload = [schema |-> c.payload.schema, canonical_json |-> CanonicalJson(c.values)]
        /\ d.payload = [schema |-> d.payload.schema, canonical_json |-> CanonicalJson(d.values)]
    BY <2>1 DEF Made, NewPayload
  <2>4. CanonicalJson(c.values) = CanonicalJson(d.values) <=> Tree(c.values) = Tree(d.values)
    <3>1. CanonicalJson(c.values).tree = Tree(c.values) /\ CanonicalJson(d.values).tree = Tree(d.values)
      BY DEF CanonicalJson
    <3> QED BY <3>1 DEF CanonicalJson
  <2>5. c.payload = d.payload <=>
          c.payload.schema = d.payload.schema /\ CanonicalJson(c.values) = CanonicalJson(d.values)
    <3>1. c.payload.canonical_json = CanonicalJson(c.values)
      BY <2>3
    <3>2. d.payload.canonical_json = CanonicalJson(d.values)
      BY <2>3
    <3>3. c.payload = d.payload =>
            c.payload.schema = d.payload.schema /\ CanonicalJson(c.values) = CanonicalJson(d.values)
      BY <3>1, <3>2, Zenon
    <3>4. c.payload.schema = d.payload.schema /\ CanonicalJson(c.values) = CanonicalJson(d.values)
            => c.payload = d.payload
      BY <2>3, Zenon
    <3> QED BY <3>3, <3>4
  <2> QED BY <2>2, <2>4, <2>5
<1> QED BY <1>1, PayloadInvariant, PTL

\* What to_mapping gives back is accepted again, and gives the payload it came from.
THEOREM CopyTheorem == PayloadSpec => CopyIsThePayload
<1>1. PayloadInv /\ [PayloadNext]_payloadVars =>
        [\A p \in payloads : FromMapping(p.schema, ToMapping(p))
           => answer' = "ok" /\ payloads' = payloads]_payloadVars
  <2> SUFFICES ASSUME PayloadInv, NEW c \in created,
                      FromMapping(c.payload.schema, ToMapping(c.payload))
               PROVE  answer' = "ok" /\ payloads' = payloads
    BY DEF payloads
  <2> DEFINE p == c.payload
             u == ToMapping(p)
             d == [values |-> u, payload |-> NewPayload(p.schema, CanonicalJson(u))]
  <2>1. Made(c)
    BY DEF PayloadInv
  <2>2. /\ Accepts(u) /\ u[<<>>][1] = "map"
        /\ CanonicalJson(u) = p.canonical_json
        /\ Constructs(p.schema, p.canonical_json)
    BY <2>1, CopyOfMade
  <2>3. answer' = "ok" /\ created' = created \cup {d}
    BY <2>2 DEF FromMapping, Make
  <2>4. d.payload = p
    BY <2>1, <2>2 DEF Made, NewPayload
  <2> HIDE DEF p, u, d
  <2>5. payloads' = payloads \cup {d.payload}
    BY <2>3 DEF payloads
  <2> QED BY <2>3, <2>4, <2>5 DEF payloads, p
<1> QED BY <1>1, PayloadInvariant, PTL DEF PayloadSpec, CopyIsThePayload
=============================================================================
