------------------------ MODULE RegistryAuditProofs ------------------------
(***************************************************************************)
(* Theorems about RegistryAudit, for any callers, strategies, identifiers, *)
(* headers, times and controls.                                            *)
(***************************************************************************)
EXTENDS RegistryAudit, StrategyLifecycleProofs, WellFoundedInduction

-----------------------------------------------------------------------------
(* Finding the transitions of a strategy in a trail.  The library's induction  *)
(* takes a predicate; its least element of a set serves as well.               *)

\* A nonempty set of natural numbers has a least element.
LEMMA LeastNatural ==
  ASSUME NEW S \in SUBSET Nat, S # {}
  PROVE  \E m \in S : \A k \in S : m <= k
<1> DEFINE R == OpToRel(<, Nat)
<1>1. IsWellFoundedOn(R, Nat)
  BY NatLessThanWellFounded
<1>2. R = { ss \in Nat \X Nat : ss[1] < ss[2] }
  BY DEF OpToRel
<1> HIDE DEF R
<1>3. PICK x \in S : \A y \in S : ~ (<<y, x>> \in R)
  <2>1. \E x \in S : \A y \in S : ~ (<<y, x>> \in R)
    BY <1>1, WFMin
  <2> QED BY <2>1
<1>4. \A y \in S : <<y, x>> \in Nat \X Nat /\ <<y, x>>[1] = y /\ <<y, x>>[2] = x
  OBVIOUS
<1>5. \A y \in S : ~(y < x)
  BY <1>2, <1>3, <1>4
<1> QED BY <1>5

\* One turn of the search, from what the turn before found
Turn(events, s, found, n) ==
  IF n = 0 THEN <<>>
  ELSE IF events[n].payload.strategy_id = s
    THEN Append(found[n - 1], events[n].payload)
    ELSE found[n - 1]

\* The search is the function that its definition describes.
LEMMA FoundIsDefined ==
  ASSUME NEW events, Len(events) \in Nat, NEW s
  PROVE  Found(events, s) = [n \in 0..Len(events) |-> Turn(events, s, Found(events, s), n)]
<1> DEFINE N == Len(events)
           Upto(m, f) == f = [n \in 0..m |-> Turn(events, s, f, n)]
           S == { m \in 0..N : ~\E f : Upto(m, f) }
<1>1. S = {}
  <2> SUFFICES ASSUME S # {} PROVE FALSE
    OBVIOUS
  <2>1. S \in SUBSET Nat
    OBVIOUS
  <2>2. PICK m \in S : \A k \in S : m <= k
    <3> HIDE DEF S
    <3> QED BY <2>1, LeastNatural
  <2>3. m # 0
    <3>1. Upto(0, [n \in 0..0 |-> <<>>])
      BY DEF Turn
    <3> QED BY <2>2, <3>1
  <2>4. PICK f : Upto(m - 1, f)
    <3>1. m \in 0..N /\ m - 1 \in 0..N /\ ~(m <= m - 1)
      BY <2>2, <2>3
    <3>2. m - 1 \notin S
      BY <2>2, <3>1
    <3> QED BY <3>1, <3>2
  <2> DEFINE g == [n \in 0..m |-> IF n = m THEN Turn(events, s, f, m) ELSE f[n]]
  <2>5. \A n \in 0..m : Turn(events, s, g, n) = g[n]
    <3> SUFFICES ASSUME NEW n \in 0..m PROVE Turn(events, s, g, n) = g[n]
      OBVIOUS
    <3>1. m \in Nat
      BY <2>2
    <3>2. CASE n = 0
      BY <2>3, <2>4, <3>1, <3>2 DEF Turn
    <3>3. CASE n # 0
      <4>1. n - 1 \in 0..(m - 1) /\ n - 1 \in 0..m /\ n - 1 # m
        BY <3>1, <3>3
      <4>2. g[n - 1] = f[n - 1]
        BY <4>1
      <4>3. Turn(events, s, g, n) = Turn(events, s, f, n)
        BY <3>3, <4>2 DEF Turn
      <4>4. n # m => n \in 0..(m - 1)
        BY <3>1
      <4> QED BY <2>4, <4>3, <4>4
    <3> QED BY <3>2, <3>3
  <2>6. Upto(m, g)
    BY <2>5
  <2> QED BY <2>2, <2>6
<1>2. N \in 0..N
  OBVIOUS
<1>3. \E f : Upto(N, f)
  BY <1>1, <1>2
<1>4. Found(events, s) = CHOOSE f : Upto(N, f)
  BY DEF Found, Turn
<1>5. Upto(N, Found(events, s))
  <2> HIDE DEF Upto
  <2> QED BY <1>3, <1>4
<1> QED BY <1>5

\* A trail in which nothing was recorded has no transitions.
LEMMA NothingFound ==
  ASSUME NEW s
  PROVE  TransitionsIn(<<>>, s) = <<>>
<1>1. Len(<<>>) = 0 /\ 0 \in 0..0
  OBVIOUS
<1>2. Found(<<>>, s)[0] = Turn(<<>>, s, Found(<<>>, s), 0)
  BY <1>1, FoundIsDefined
<1> QED BY <1>1, <1>2 DEF TransitionsIn, Turn

\* A new event adds its transition at the end of its strategy's, and to no other's.
LEMMA FoundOneMore ==
  ASSUME NEW S, NEW events \in Seq(S), NEW e \in S, NEW s
  PROVE  TransitionsIn(Append(events, e), s) =
           IF e.payload.strategy_id = s
             THEN Append(TransitionsIn(events, s), e.payload)
             ELSE TransitionsIn(events, s)
<1> DEFINE N == Len(events)
           more == Append(events, e)
           f == Found(events, s)
           g == Found(more, s)
           T == { n \in 0..N : f[n] # g[n] }
<1>1. /\ N \in Nat /\ Len(more) = N + 1 /\ more[N + 1] = e
      /\ \A n \in 1..N : more[n] = events[n]
  OBVIOUS
<1>2. \A n \in 0..N : f[n] = Turn(events, s, f, n)
  BY <1>1, FoundIsDefined
<1>3. \A n \in 0..(N + 1) : g[n] = Turn(more, s, g, n)
  <2> HIDE DEF more
  <2>1. Len(more) \in Nat
    BY <1>1
  <2>2. g = [n \in 0..Len(more) |-> Turn(more, s, g, n)]
    BY <2>1, FoundIsDefined
  <2> HIDE DEF g
  <2> QED BY <1>1, <2>2
<1> HIDE DEF f, g
<1>4. T = {}
  <2> SUFFICES ASSUME T # {} PROVE FALSE
    OBVIOUS
  <2>1. T \in SUBSET Nat
    BY <1>1
  <2>2. PICK n \in T : \A k \in T : n <= k
    <3> HIDE DEF T
    <3> QED BY <2>1, LeastNatural
  <2>3. CASE n = 0
    BY <1>1, <1>2, <1>3, <2>2, <2>3 DEF Turn
  <2>4. CASE n # 0
    <3>1. n \in 1..N /\ n \in 0..(N + 1) /\ n - 1 \in 0..N /\ ~(n <= n - 1)
      BY <1>1, <2>2, <2>4
    <3>2. f[n - 1] = g[n - 1]
      BY <2>2, <3>1
    <3>3. more[n] = events[n]
      BY <1>1, <3>1
    <3>4. Turn(events, s, f, n) = Turn(more, s, g, n)
      BY <3>2, <3>3 DEF Turn
    <3> QED BY <1>2, <1>3, <2>2, <3>1, <3>4
  <2> QED BY <2>3, <2>4
<1>5. f[N] = g[N]
  BY <1>1, <1>4
<1>6. g[N + 1] = Turn(more, s, g, N + 1) /\ (N + 1) - 1 = N /\ N + 1 # 0
  BY <1>1, <1>3
<1>7. g[N + 1] = IF e.payload.strategy_id = s THEN Append(f[N], e.payload) ELSE f[N]
  BY <1>1, <1>5, <1>6 DEF Turn
<1> QED BY <1>1, <1>7 DEF TransitionsIn, f, g

\* What is found consists of the strategy's transitions in the trail, and of all of them.
LEMMA FoundContent ==
  ASSUME NEW events \in Seq(Trail!Event), NEW s
  PROVE  /\ TransitionsIn(events, s) \in Seq(Transition)
         /\ { TransitionsIn(events, s)[i] : i \in DOMAIN TransitionsIn(events, s) } =
              { events[i].payload : i \in
                  { j \in DOMAIN events : events[j].payload.strategy_id = s } }
<1> DEFINE N == Len(events)
           f == Found(events, s)
           Own(n) == { events[i].payload : i \in
                         { j \in 1..n : events[j].payload.strategy_id = s } }
           Good(n) == f[n] \in Seq(Transition) /\ { f[n][i] : i \in DOMAIN f[n] } = Own(n)
           T == { n \in 0..N : ~Good(n) }
<1>1. N \in Nat /\ DOMAIN events = 1..N
  OBVIOUS
<1>2. \A n \in 0..N : f[n] = Turn(events, s, f, n)
  BY <1>1, FoundIsDefined
<1>3. \A n \in 1..N : events[n].payload \in Transition
  <2>1. \A n \in 1..N : events[n] \in Trail!Event
    BY <1>1
  <2> QED BY <2>1 DEF Trail!Event
<1> HIDE DEF f
<1>4. T = {}
  <2> SUFFICES ASSUME T # {} PROVE FALSE
    OBVIOUS
  <2>1. T \in SUBSET Nat
    BY <1>1
  <2>2. PICK n \in T : \A k \in T : n <= k
    <3> HIDE DEF T
    <3> QED BY <2>1, LeastNatural
  <2>3. CASE n = 0
    <3>1. f[0] = <<>>
      BY <1>1, <1>2 DEF Turn
    <3>2. Good(0)
      BY <3>1
    <3> QED BY <2>2, <2>3, <3>2
  <2>4. CASE n # 0
    <3>1. n \in 1..N /\ n - 1 \in 0..N /\ ~(n <= n - 1) /\ n \in 0..N
      BY <1>1, <2>2, <2>4
    <3>2. Good(n - 1)
      BY <2>2, <3>1
    <3>3. \A j : j \in 1..n <=> j \in 1..(n - 1) \/ j = n
      BY <3>1
    <3>4. CASE events[n].payload.strategy_id = s
      <4>1. f[n] = Append(f[n - 1], events[n].payload)
        BY <1>2, <2>4, <3>1, <3>4 DEF Turn
      <4>2. f[n] \in Seq(Transition)
        BY <1>3, <3>1, <3>2, <4>1
      <4>3. { f[n][i] : i \in DOMAIN f[n] }
              = { f[n - 1][i] : i \in DOMAIN f[n - 1] } \cup {events[n].payload}
        <5> DEFINE m == Len(f[n - 1])
        <5>1. m \in Nat /\ DOMAIN f[n - 1] = 1..m /\ DOMAIN f[n] = 1..(m + 1)
          BY <3>2, <4>1
        <5>2. f[n][m + 1] = events[n].payload /\ \A i \in 1..m : f[n][i] = f[n - 1][i]
          BY <3>2, <4>1
        <5>3. \A i : i \in 1..(m + 1) <=> i \in 1..m \/ i = m + 1
          BY <5>1
        <5> HIDE DEF m
        <5> QED BY <5>1, <5>2, <5>3
      <4>4. Own(n) = Own(n - 1) \cup {events[n].payload}
        BY <3>3, <3>4
      <4>5. Good(n)
        BY <3>2, <4>2, <4>3, <4>4
      <4> QED BY <2>2, <4>5
    <3>5. CASE events[n].payload.strategy_id # s
      <4>1. f[n] = f[n - 1]
        BY <1>2, <2>4, <3>1, <3>5 DEF Turn
      <4>2. Own(n) = Own(n - 1)
        BY <3>3, <3>5
      <4>3. Good(n)
        BY <3>2, <4>1, <4>2
      <4> QED BY <2>2, <4>3
    <3> QED BY <3>4, <3>5
  <2> QED BY <2>3, <2>4
<1>5. Good(N)
  <2>1. N \in 0..N
    BY <1>1
  <2> HIDE DEF Good, N
  <2> QED BY <1>4, <2>1
<1> QED BY <1>1, <1>5 DEF TransitionsIn, f

\* Every transition of a strategy in a trail is found.
LEMMA Finds ==
  ASSUME NEW events \in Seq(Trail!Event), NEW i \in DOMAIN events
  PROVE  LET ts == TransitionsIn(events, events[i].payload.strategy_id)
         IN  \E j \in DOMAIN ts : ts[j] = events[i].payload
<1> DEFINE s == events[i].payload.strategy_id
<1>1. events[i].payload \in
        { events[k].payload : k \in { j \in DOMAIN events : events[j].payload.strategy_id = s } }
  OBVIOUS
<1> HIDE DEF s
<1>2. events[i].payload \in { TransitionsIn(events, s)[k] : k \in DOMAIN TransitionsIn(events, s) }
  BY <1>1, FoundContent
<1> QED BY <1>2 DEF s

\* What is found is in the trail.
LEMMA FoundIsThere ==
  ASSUME NEW events \in Seq(Trail!Event), NEW s, NEW j \in DOMAIN TransitionsIn(events, s)
  PROVE  \E i \in DOMAIN events : /\ events[i].payload = TransitionsIn(events, s)[j]
                                  /\ events[i].payload.strategy_id = s
<1>1. TransitionsIn(events, s)[j] \in
        { events[k].payload : k \in { i \in DOMAIN events : events[i].payload.strategy_id = s } }
  <2>1. TransitionsIn(events, s)[j]
          \in { TransitionsIn(events, s)[k] : k \in DOMAIN TransitionsIn(events, s) }
    OBVIOUS
  <2> QED BY <2>1, FoundContent
<1> QED BY <1>1

-----------------------------------------------------------------------------
(* Histories and logs *)

\* What is left of a legal history when its end is cut off is a legal history.
LEMMA HistoryPrefix ==
  ASSUME NEW S, NEW ts \in Seq(S), NEW s, HistoryOk(s, ts), NEW k \in 0..Len(ts)
  PROVE  HistoryOk(s, SubSeq(ts, 1, k))
<1> DEFINE us == SubSeq(ts, 1, k)
<1>1. Len(ts) \in Nat /\ DOMAIN ts = 1..Len(ts)
  OBVIOUS
<1>2. DOMAIN us = 1..k /\ \A i \in 1..k : us[i] = ts[i] /\ i \in 1..Len(ts)
  BY <1>1
<1> HIDE DEF us
<1>3. \A i \in 1..k : i # 1 => i - 1 \in 1..k /\ i > 1
  OBVIOUS
<1>4. UniqueIds(us) /\ OwnedBy(s, us) /\ Sequenced(us)
  BY <1>1, <1>2 DEF HistoryOk, UniqueIds, OwnedBy, Sequenced
<1>5. Chained(us)
  BY <1>1, <1>2, <1>3 DEF HistoryOk, Chained
<1>6. Chronological(us)
  <2> SUFFICES ASSUME NEW i \in DOMAIN us, i > 1
               PROVE  us[i - 1].decided_at <= us[i].decided_at
    BY DEF Chronological
  <2>1. i \in 1..k /\ i - 1 \in 1..k
    BY <1>2
  <2>2. ts[i - 1].decided_at <= ts[i].decided_at
    BY <1>1, <1>2, <2>1 DEF HistoryOk, Chronological
  <2> QED BY <1>2, <2>1, <2>2
<1> QED BY <1>4, <1>5, <1>6 DEF HistoryOk, us

\* What append() does to a consistent log: it repeats an event that is there already,
\* or adds one whose identifier is new.
LEMMA AppendIndexed ==
  ASSUME NEW l, l.events \in Seq(Trail!Event), Trail!Indexed(l),
         NEW e \in Trail!Event, Trail!Accepts(l, e)
  PROVE  LET m == Trail!AfterAppend(l, e)
         IN  /\ Trail!Indexed(m)
             /\ \/ m = l /\ \E i \in DOMAIN l.events : l.events[i] = e
                \/ /\ m.events = Append(l.events, e)
                   /\ \A i \in DOMAIN l.events : l.events[i].event_id # e.event_id
<1> DEFINE m == Trail!AfterAppend(l, e)
           n == Len(l.events)
<1>0. n \in Nat /\ DOMAIN l.events = 1..n
  OBVIOUS
<1>1. CASE ~Trail!IsNew(l, e)
  <2>1. m = l
    BY <1>1 DEF Trail!AfterAppend
  <2>2. e.event_id \in DOMAIN l.by_id /\ l.by_id[e.event_id] = e
    BY <1>1 DEF Trail!IsNew, Trail!Accepts
  <2>3. PICK i \in DOMAIN l.events : l.events[i].event_id = e.event_id
    BY <2>2 DEF Trail!Indexed, Trail!EventsOf
  <2>4. l.events[i] = e
    BY <2>2, <2>3 DEF Trail!Indexed
  <2> QED BY <2>1, <2>4
<1>2. CASE Trail!IsNew(l, e)
  <2>1. /\ m.events = Append(l.events, e)
        /\ m.by_id = [ id \in DOMAIN l.by_id \cup {e.event_id} |->
                         IF id = e.event_id THEN e ELSE l.by_id[id] ]
    BY <1>2 DEF Trail!AfterAppend, Trail!WithEvent
  <2>2. /\ DOMAIN m.events = 1..(n + 1) /\ m.events[n + 1] = e
        /\ \A i \in 1..n : m.events[i] = l.events[i]
        /\ \A i : i \in 1..(n + 1) <=> i \in 1..n \/ i = n + 1
    BY <1>0, <2>1
  <2>3. \A i \in 1..n : l.events[i].event_id \in DOMAIN l.by_id
    BY <1>0 DEF Trail!Indexed, Trail!EventsOf
  <2>4. \A i \in 1..n : l.events[i].event_id # e.event_id
    BY <1>2, <2>3 DEF Trail!IsNew
  <2> HIDE DEF m, n
  <2>5. DOMAIN m.by_id = { f.event_id : f \in Trail!EventsOf(m) }
    <3>1. Trail!EventsOf(m) = Trail!EventsOf(l) \cup {e}
      BY <1>0, <2>2 DEF Trail!EventsOf
    <3>2. DOMAIN l.by_id = { f.event_id : f \in Trail!EventsOf(l) }
      BY DEF Trail!Indexed
    <3>3. DOMAIN m.by_id = DOMAIN l.by_id \cup {e.event_id}
      BY <2>1
    <3> QED BY <3>1, <3>2, <3>3
  <2>6. \A i \in DOMAIN m.events : m.by_id[m.events[i].event_id] = m.events[i]
    <3>1. \A i \in 1..n : l.by_id[l.events[i].event_id] = l.events[i]
      BY <1>0 DEF Trail!Indexed
    <3> QED BY <2>1, <2>2, <2>3, <2>4, <3>1
  <2>7. \A i, j \in DOMAIN m.events : m.events[i].event_id = m.events[j].event_id => i = j
    <3>1. \A i, j \in 1..n : l.events[i].event_id = l.events[j].event_id => i = j
      BY <1>0 DEF Trail!Indexed
    <3> QED BY <2>2, <2>4, <3>1
  <2>8. Trail!Indexed(m)
    BY <2>5, <2>6, <2>7 DEF Trail!Indexed
  <2> QED BY <1>0, <2>1, <2>4, <2>8 DEF m
<1> QED BY <1>1, <1>2

\* The log that is replayed from events with different identifiers is consistent.
LEMMA LogOfIndexed ==
  ASSUME NEW events \in Seq(Trail!Event),
         \A i, j \in DOMAIN events : events[i].event_id = events[j].event_id => i = j
  PROVE  LogOf(events).events = events /\ Trail!Indexed(LogOf(events))
<1> DEFINE l == LogOf(events)
           E == { events[i] : i \in DOMAIN events }
<1>1. /\ l.events = events
      /\ l.by_id = [ id \in { events[i].event_id : i \in DOMAIN events } |->
                       CHOOSE e \in E : e.event_id = id ]
  BY DEF LogOf
<1>2. \A i \in DOMAIN events : (CHOOSE e \in E : e.event_id = events[i].event_id) = events[i]
  <2> SUFFICES ASSUME NEW i \in DOMAIN events
               PROVE  (CHOOSE e \in E : e.event_id = events[i].event_id) = events[i]
    OBVIOUS
  <2> DEFINE c == CHOOSE e \in E : e.event_id = events[i].event_id
  <2>1. c \in E /\ c.event_id = events[i].event_id
    <3>1. events[i] \in E
      OBVIOUS
    <3> QED BY <3>1
  <2>2. PICK j \in DOMAIN events : events[j] = c
    BY <2>1
  <2> QED BY <2>1, <2>2
<1>3. Trail!EventsOf(l) = E
  BY <1>1 DEF Trail!EventsOf
<1>4. DOMAIN l.by_id = { e.event_id : e \in Trail!EventsOf(l) }
  BY <1>1, <1>3
<1>5. \A i \in DOMAIN l.events : l.by_id[l.events[i].event_id] = l.events[i]
  BY <1>1, <1>2
<1> QED BY <1>1, <1>4, <1>5 DEF Trail!Indexed

-----------------------------------------------------------------------------
(* The inductive invariant *)

\* An event of the trail carries a sound transition, under the transition's own
\* identifier, of a strategy that some caller works on.
EventOk(e) ==
  /\ e \in Trail!Event
  /\ e.event_id = e.payload.transition_id
  /\ TransitionOk(e.payload)
  /\ \E h \in Holder : held[h].strategy_id = e.payload.strategy_id

\* The trail is a log whose index agrees with its events; what was saved can be one.
TrailOk ==
  /\ log.events \in Seq(Trail!Event)
  /\ \A i \in DOMAIN log.events : EventOk(log.events[i])
  /\ Trail!Indexed(log)
  /\ saved \in Seq(Trail!Event)
  /\ \A i \in DOMAIN saved : EventOk(saved[i])
  /\ \A i, j \in DOMAIN saved : saved[i].event_id = saved[j].event_id => i = j

\* What a caller has recorded is in the trail.
RecordedOk ==
  \A h \in Holder :
    /\ recorded[h] \in 0..Len(held[h].transitions)
    /\ \A i \in 1..recorded[h] : \E j \in DOMAIN log.events :
         log.events[j].payload = held[h].transitions[i]

\* The trail of a strategy with one writer is what the writer recorded.
SoleWriter ==
  \A s \in Strategy : \A h \in WritersOf(s) :
    WritersOf(s) = {h} =>
      TransitionsIn(log.events, s) = SubSeq(held[h].transitions, 1, recorded[h])

\* What was saved of it is a legal history.
SavedIsLegal ==
  \A s \in Strategy : \A h \in WritersOf(s) :
    WritersOf(s) = {h} => HistoryOk(s, TransitionsIn(saved, s))

\* A legal trail is one branch, whether the process runs or not.
OneBranch ==
  \A s \in Strategy :
    LET ts == TransitionsIn(log.events, s)
    IN  ts # <<>> /\ HistoryOk(s, ts) => \E h \in WritersOf(s) : Starts(ts, held[h].transitions)

AuditInv ==
  /\ IInv
  /\ recorded \in [Holder -> Nat]
  /\ running \in BOOLEAN
  /\ TrailOk /\ RecordedOk /\ SoleWriter /\ SavedIsLegal /\ OneBranch

-----------------------------------------------------------------------------
(* What the parts of a step do *)

\* What is known of the value that a caller holds.
LEMMA HeldValue ==
  ASSUME IInv, NEW h \in Holder
  PROVE  /\ held[h].strategy_id \in Strategy
         /\ held[h].transitions \in Seq(Transition)
         /\ HistoryOk(held[h].strategy_id, held[h].transitions)
         /\ \A i \in DOMAIN held[h].transitions :
              /\ held[h].transitions[i] \in Transition
              /\ TransitionOk(held[h].transitions[i])
              /\ held[h].transitions[i].strategy_id = held[h].strategy_id
              /\ held[h].transitions[i].sequence = i
<1>1. held[h] \in Lifecycle
  BY DEF IInv, TypeOK
<1>2. held[h].strategy_id \in Strategy /\ held[h].transitions \in Seq(Transition)
  BY <1>1 DEF Lifecycle
<1>3. HistoryOk(held[h].strategy_id, held[h].transitions)
  BY DEF IInv, HeldSound, LifecycleOk
<1>4. \A i \in DOMAIN held[h].transitions :
        held[h].transitions[i] \in Transition /\ TransitionOk(held[h].transitions[i])
  BY <1>2 DEF IInv, HeldSound
<1> QED BY <1>2, <1>3, <1>4 DEF HistoryOk, OwnedBy, Sequenced

\* A history starts with itself, and goes on starting with what it started with.
LEMMA StartsFacts ==
  ASSUME NEW S, NEW ts \in Seq(S), NEW us \in Seq(S), NEW x \in S
  PROVE  /\ Starts(us, us)
         /\ Starts(us, Append(us, x))
         /\ Starts(ts, us) => Starts(ts, Append(us, x))
         /\ \A k \in 0..Len(us) : SubSeq(Append(us, x), 1, k) = SubSeq(us, 1, k)
<1>1. \A k \in 0..Len(us) : SubSeq(Append(us, x), 1, k) = SubSeq(us, 1, k)
  <2> SUFFICES ASSUME NEW k \in 0..Len(us)
               PROVE  SubSeq(Append(us, x), 1, k) = SubSeq(us, 1, k)
    OBVIOUS
  <2>1. \A i \in 1..k : Append(us, x)[i] = us[i]
    OBVIOUS
  <2> QED BY <2>1
<1>2. SubSeq(us, 1, Len(us)) = us
  OBVIOUS
<1>3. Len(us) \in 0..Len(us) /\ Len(Append(us, x)) = Len(us) + 1 /\ Len(us) \in Nat
      /\ Len(ts) \in Nat
  OBVIOUS
<1> QED BY <1>1, <1>2, <1>3 DEF Starts

\* A decision extends one caller's history, or leaves all as they are.
LEMMA DecisionExtends ==
  ASSUME IInv, DoTransitionTo
  PROVE  \A h \in Holder :
           /\ held'[h].strategy_id = held[h].strategy_id
           /\ \/ held'[h].transitions = held[h].transitions
              \/ \E t \in Transition : held'[h].transitions = Append(held[h].transitions, t)
<1>1. PICK g \in Holder, id \in OfferedIds(UsedIds), to \in States, at \in Time, c \in Controls :
        TransitionTo(g, [transition_id |-> id, to_state |-> to, decided_at |-> at,
                         controls |-> c])
  BY DEF DoTransitionTo
<1> DEFINE t == NextTransition(held[g], [transition_id |-> id, to_state |-> to,
                                         decided_at |-> at, controls |-> c])
<1>2. id \in TransitionId
  <2>1. Recorded \subseteq Transition
    BY HeldValue DEF Recorded, TransitionsOf
  <2>2. UsedIds \in SUBSET TransitionId
    BY <2>1 DEF UsedIds, Transition
  <2> QED BY <2>2, LifecycleAssumption
<1>3. t \in Transition
  BY <1>2, NextTransitionType DEF IInv, TypeOK
<1> HIDE DEF t
<1>4. held' = held \/ held' = [held EXCEPT ![g] = Appended(held[g], t)]
  BY <1>1 DEF TransitionTo, Construct, Reject, t
<1>5. /\ Appended(held[g], t).strategy_id = held[g].strategy_id
      /\ Appended(held[g], t).transitions = Append(held[g].transitions, t)
  BY DEF Appended, Rebuilt
<1>6. held \in [Holder -> Lifecycle]
  BY DEF IInv, TypeOK
<1> QED BY <1>3, <1>4, <1>5, <1>6

\* Which callers work on a strategy does not change as long as each keeps its own.
LEMMA SameWriters ==
  ASSUME \A h \in Holder : held'[h].strategy_id = held[h].strategy_id
  PROVE  /\ \A s : WritersOf(s)' = WritersOf(s)
         /\ \A e : EventOk(e) => EventOk(e)'
BY DEF WritersOf, EventOk

-----------------------------------------------------------------------------
(* Every step keeps the invariant *)

\* A new process: no history and an empty trail.
LEMMA AuditInitOk == AuditInit => AuditInv
<1> SUFFICES ASSUME AuditInit PROVE AuditInv
  OBVIOUS
<1>1. IInv
  BY InitSound DEF AuditInit
<1>2. \A h \in Holder : held[h].transitions = <<>> /\ recorded[h] = 0
  <2>1. \A h \in Holder : \E s \in Strategy : held[h] = New(s)
    BY DEF AuditInit, Init
  <2>2. \A s \in Strategy : New(s).transitions = <<>>
    BY DEF New
  <2> QED BY <2>1, <2>2 DEF AuditInit
<1>3. log.events = <<>> /\ log.by_id = [id \in {} |-> id] /\ saved = <<>>
  BY DEF AuditInit, Trail!EmptyLog
<1>4. recorded \in [Holder -> Nat] /\ running \in BOOLEAN
  BY DEF AuditInit
<1>5. TrailOk
  <2>1. Trail!Indexed(log)
    BY <1>3 DEF Trail!Indexed, Trail!EventsOf
  <2> QED BY <1>3, <2>1 DEF TrailOk
<1>6. RecordedOk
  BY <1>2 DEF RecordedOk
<1>7. \A s : TransitionsIn(log.events, s) = <<>> /\ TransitionsIn(saved, s) = <<>>
  BY <1>3, NothingFound
<1>8. SoleWriter
  <2>1. SubSeq(<<>>, 1, 0) = <<>>
    OBVIOUS
  <2> QED BY <1>2, <1>7, <2>1 DEF SoleWriter, WritersOf
<1>9. SavedIsLegal
  BY <1>7 DEF SavedIsLegal, HistoryOk, UniqueIds, OwnedBy, Sequenced, Chained, Chronological
<1>10. OneBranch
  BY <1>7 DEF OneBranch
<1> QED BY <1>1, <1>4, <1>5, <1>6, <1>8, <1>9, <1>10 DEF AuditInv

\* transition_to() may extend a history; nothing that was recorded changes in it.
LEMMA DecideKeeps ==
  ASSUME AuditInv, Decide
  PROVE  AuditInv'
<1>1. DoTransitionTo /\ UNCHANGED <<log, recorded, saved, running>>
  BY DEF Decide
<1>2. IInv
  BY DEF AuditInv
<1>3. IInv'
  BY <1>1, <1>2, NextKeepsSound DEF Next
<1>4. \A h \in Holder : held'[h].strategy_id = held[h].strategy_id
  BY <1>1, <1>2, DecisionExtends
<1>5. ASSUME NEW h \in Holder
      PROVE  /\ Len(held[h].transitions) \in Nat /\ Len(held'[h].transitions) \in Nat
             /\ Len(held[h].transitions) <= Len(held'[h].transitions)
             /\ \A k \in 0..Len(held[h].transitions) :
                  SubSeq(held'[h].transitions, 1, k) = SubSeq(held[h].transitions, 1, k)
             /\ \A i \in 1..Len(held[h].transitions) :
                  held'[h].transitions[i] = held[h].transitions[i]
             /\ \A ts \in Seq(Transition) :
                  Starts(ts, held[h].transitions) => Starts(ts, held'[h].transitions)
  <2> DEFINE us == held[h].transitions
             vs == held'[h].transitions
  <2>1. us \in Seq(Transition)
    BY <1>2, HeldValue
  <2>2. CASE vs = us
    BY <2>1, <2>2
  <2>3. ASSUME NEW t \in Transition, vs = Append(us, t)
        PROVE  /\ Len(us) \in Nat /\ Len(vs) = Len(us) + 1
               /\ \A k \in 0..Len(us) : SubSeq(vs, 1, k) = SubSeq(us, 1, k)
               /\ \A i \in 1..Len(us) : vs[i] = us[i]
               /\ \A ts \in Seq(Transition) : Starts(ts, us) => Starts(ts, vs)
    <3> HIDE DEF us, vs
    <3>1. Len(us) \in Nat /\ Len(vs) = Len(us) + 1 /\ \A i \in 1..Len(us) : vs[i] = us[i]
      BY <2>1, <2>3
    <3>2. \A k \in 0..Len(us) : SubSeq(vs, 1, k) = SubSeq(us, 1, k)
      BY <2>1, <2>3, StartsFacts
    <3>3. \A ts \in Seq(Transition) : Starts(ts, us) => Starts(ts, vs)
      BY <2>1, <2>3, StartsFacts
    <3> QED BY <3>1, <3>2, <3>3
  <2>4. vs = us \/ \E t \in Transition : vs = Append(us, t)
    BY <1>1, <1>2, DecisionExtends
  <2> HIDE DEF us, vs
  <2>5. CASE \E t \in Transition : vs = Append(us, t)
    BY <2>3, <2>5 DEF us, vs
  <2> QED BY <2>2, <2>4, <2>5 DEF us, vs
<1>6. TrailOk'
  BY <1>1, <1>4, SameWriters DEF AuditInv, TrailOk
<1>7. RecordedOk'
  <2> SUFFICES ASSUME NEW h \in Holder
               PROVE  /\ recorded'[h] \in 0..Len(held'[h].transitions)
                      /\ \A i \in 1..recorded'[h] : \E j \in DOMAIN log'.events :
                           log'.events[j].payload = held'[h].transitions[i]
    BY DEF RecordedOk
  <2>1. /\ recorded[h] \in 0..Len(held[h].transitions)
        /\ \A i \in 1..recorded[h] : \E j \in DOMAIN log.events :
             log.events[j].payload = held[h].transitions[i]
    BY DEF AuditInv, RecordedOk
  <2> QED BY <1>1, <1>5, <2>1
<1>8. SoleWriter'
  <2> SUFFICES ASSUME NEW s \in Strategy, NEW h \in WritersOf(s), WritersOf(s) = {h}
               PROVE  TransitionsIn(log.events, s) = SubSeq(held'[h].transitions, 1, recorded[h])
    BY <1>1, <1>4, SameWriters DEF SoleWriter
  <2>1. h \in Holder
    BY DEF WritersOf
  <2>2. TransitionsIn(log.events, s) = SubSeq(held[h].transitions, 1, recorded[h])
    BY DEF AuditInv, SoleWriter
  <2> QED BY <1>5, <2>1, <2>2 DEF AuditInv, RecordedOk
<1>9. SavedIsLegal'
  BY <1>1, <1>4, SameWriters DEF AuditInv, SavedIsLegal
<1>10. OneBranch'
  <2> SUFFICES ASSUME NEW s \in Strategy, TransitionsIn(log.events, s) # <<>>,
                      HistoryOk(s, TransitionsIn(log.events, s))
               PROVE  \E h \in WritersOf(s) :
                        Starts(TransitionsIn(log.events, s), held'[h].transitions)
    BY <1>1, <1>4, SameWriters DEF OneBranch
  <2>1. PICK h \in WritersOf(s) : Starts(TransitionsIn(log.events, s), held[h].transitions)
    BY DEF AuditInv, OneBranch
  <2>2. h \in Holder
    BY DEF WritersOf
  <2>3. TransitionsIn(log.events, s) \in Seq(Transition)
    BY FoundContent DEF AuditInv, TrailOk
  <2> QED BY <1>5, <2>1, <2>2, <2>3
<1> QED BY <1>1, <1>3, <1>6, <1>7, <1>8, <1>9, <1>10 DEF AuditInv

\* A recorded transition stands in a trail in sequence where it stands in its history.
LEMMA RecordedPlace ==
  ASSUME AuditInv, NEW h \in Holder, NEW i \in DOMAIN held[h].transitions,
         NEW j \in DOMAIN log.events, log.events[j].payload = held[h].transitions[i],
         Sequenced(TransitionsIn(log.events, held[h].strategy_id))
  PROVE  LET ts == TransitionsIn(log.events, held[h].strategy_id)
         IN  i \in DOMAIN ts /\ ts[i] = held[h].transitions[i]
<1> DEFINE ts == TransitionsIn(log.events, held[h].strategy_id)
<1>1. held[h].transitions[i].strategy_id = held[h].strategy_id
      /\ held[h].transitions[i].sequence = i
  BY HeldValue DEF AuditInv
<1>2. \E n \in DOMAIN ts : ts[n] = held[h].transitions[i]
  BY <1>1, Finds DEF AuditInv, TrailOk
<1> QED BY <1>1, <1>2 DEF Sequenced

\* Recording is refused, repeats what the trail has, or adds a transition to the end of
\* its strategy's.
LEMMA RecordEffect ==
  ASSUME AuditInv, NEW h \in Holder, NEW header \in Header, NEW k \in 1..(recorded[h] + 1),
         Record(h, k, header)
  PROVE  LET t == held[h].transitions[k]
             s == held[h].strategy_id
             more == recorded' = [recorded EXCEPT ![h] = IF k > @ THEN k ELSE @]
         IN  /\ k \in DOMAIN held[h].transitions
             /\ UNCHANGED <<held, saved, running>>
             /\ outcome' \in {"ok", "validation", "integrity"}
             /\ TrailOk'
             /\ \/ UNCHANGED <<log, recorded>>
                \/ /\ more
                   /\ log' = log
                   /\ \E i \in DOMAIN log.events : log.events[i].payload = t
                \/ /\ more
                   /\ \A i \in DOMAIN log.events :
                        log.events[i].payload.transition_id # t.transition_id
                   /\ \A i \in DOMAIN log.events :
                        i \in DOMAIN log'.events /\ log'.events[i] = log.events[i]
                   /\ \E i \in DOMAIN log'.events : log'.events[i].payload = t
                   /\ \A x : TransitionsIn(log'.events, x) =
                        IF x = s THEN Append(TransitionsIn(log.events, s), t)
                        ELSE TransitionsIn(log.events, x)
<1> DEFINE us == held[h].transitions
           t == us[k]
           e == ToAuditEvent(t, header)
<1>1. k \in DOMAIN us
  <2>1. us \in Seq(Transition) /\ k <= Len(us)
    BY HeldValue DEF AuditInv, Record
  <2>2. recorded[h] \in Nat
    BY DEF AuditInv
  <2> QED BY <2>1, <2>2
<1>2. t \in Transition /\ TransitionOk(t) /\ t.strategy_id = held[h].strategy_id
  BY <1>1, HeldValue DEF AuditInv
<1>3. EventOk(e) /\ e.payload = t /\ e.event_id = t.transition_id
  BY <1>2 DEF EventOk, ToAuditEvent, Trail!Event, Transition
<1>4. UNCHANGED <<held, saved, running>>
  BY DEF Record
<1>5. \A f : EventOk(f) => EventOk(f)'
  BY <1>4 DEF EventOk
<1>6. TrailOk
  BY DEF AuditInv
<1>7. CASE RenderOk(t) /\ Trail!Accepts(log, e)
  <2>1. /\ outcome' = "ok"
        /\ log' = Trail!AfterAppend(log, e)
        /\ recorded' = [recorded EXCEPT ![h] = IF k > @ THEN k ELSE @]
    BY <1>7 DEF Record
  <2>2. /\ Trail!Indexed(log')
        /\ \/ log' = log /\ \E i \in DOMAIN log.events : log.events[i] = e
           \/ /\ log'.events = Append(log.events, e)
              /\ \A i \in DOMAIN log.events : log.events[i].event_id # e.event_id
    <3>1. e \in Trail!Event
      BY <1>3 DEF EventOk
    <3> HIDE DEF e
    <3> QED BY <1>6, <1>7, <2>1, <3>1, AppendIndexed DEF TrailOk
  <2> HIDE DEF e, t
  <2>3. CASE log' = log /\ \E i \in DOMAIN log.events : log.events[i] = e
    <3>1. TrailOk'
      BY <1>4, <1>5, <1>6, <2>3 DEF TrailOk
    <3>2. \E i \in DOMAIN log.events : log.events[i].payload = t
      BY <1>3, <2>3
    <3> QED BY <1>1, <1>4, <2>1, <2>3, <3>1, <3>2 DEF t
  <2>4. CASE /\ log'.events = Append(log.events, e)
             /\ \A i \in DOMAIN log.events : log.events[i].event_id # e.event_id
    <3>0. e \in Trail!Event /\ log.events \in Seq(Trail!Event)
      BY <1>3, <1>6 DEF EventOk, TrailOk
    <3>1. /\ log'.events \in Seq(Trail!Event)
          /\ \A i \in DOMAIN log.events :
               i \in DOMAIN log'.events /\ log'.events[i] = log.events[i]
          /\ \A i \in DOMAIN log'.events : i \in DOMAIN log.events \/ log'.events[i] = e
          /\ \E i \in DOMAIN log'.events : log'.events[i] = e
      <4>1. /\ log'.events \in Seq(Trail!Event) /\ Len(log.events) + 1 \in DOMAIN log'.events
            /\ log'.events[Len(log.events) + 1] = e
        BY <2>4, <3>0
      <4>2. \A i \in DOMAIN log.events :
              i \in DOMAIN log'.events /\ log'.events[i] = log.events[i]
        BY <2>4, <3>0
      <4>3. \A i \in DOMAIN log'.events : i \in DOMAIN log.events \/ log'.events[i] = e
        BY <2>4, <3>0
      <4> QED BY <4>1, <4>2, <4>3
    <3>2. TrailOk'
      <4>1. (\A i \in DOMAIN log.events : EventOk(log.events[i]))'
        <5>1. \A i \in DOMAIN log'.events : EventOk(log'.events[i])
          BY <1>3, <1>6, <3>1 DEF TrailOk
        <5> QED BY <1>4, <5>1 DEF EventOk
      <4>2. (\A i \in DOMAIN saved : EventOk(saved[i]))'
        BY <1>4, <1>6 DEF TrailOk, EventOk
      <4> QED BY <1>4, <1>6, <2>2, <3>1, <4>1, <4>2 DEF TrailOk
    <3>3. \A i \in DOMAIN log.events : log.events[i].payload.transition_id # t.transition_id
      BY <1>3, <1>6, <2>4 DEF TrailOk, EventOk
    <3>4. \A x : TransitionsIn(log'.events, x) =
                   IF x = held[h].strategy_id
                     THEN Append(TransitionsIn(log.events, held[h].strategy_id), t)
                     ELSE TransitionsIn(log.events, x)
      <4>1. \A x : TransitionsIn(Append(log.events, e), x) =
                     IF e.payload.strategy_id = x
                       THEN Append(TransitionsIn(log.events, x), e.payload)
                       ELSE TransitionsIn(log.events, x)
        BY <3>0, FoundOneMore
      <4> QED BY <1>2, <1>3, <2>4, <4>1
    <3>5. \E i \in DOMAIN log'.events : log'.events[i].payload = t
      BY <1>3, <3>1
    <3> QED BY <1>1, <1>4, <2>1, <3>1, <3>2, <3>3, <3>4, <3>5 DEF t
  <2> QED BY <2>2, <2>3, <2>4
<1>8. CASE ~(RenderOk(t) /\ Trail!Accepts(log, e))
  <2>1. UNCHANGED <<log, recorded>> /\ outcome' \in {"ok", "validation", "integrity"}
    BY <1>8 DEF Record
  <2>2. TrailOk'
    BY <1>4, <1>5, <1>6, <2>1 DEF TrailOk
  <2> QED BY <1>1, <1>4, <2>1, <2>2
<1> QED BY <1>7, <1>8

\* Recording in order adds to the trail of a strategy with one writer the next
\* transition of the writer's history, and to no legal trail a second branch.
LEMMA RecordKeeps ==
  ASSUME AuditInv, NEW h \in Holder, NEW header \in Header, NEW k \in 1..(recorded[h] + 1),
         Record(h, k, header)
  PROVE  AuditInv'
<1> DEFINE us == held[h].transitions
           t == us[k]
           s == held[h].strategy_id
           ts == TransitionsIn(log.events, s)
           more == recorded' = [recorded EXCEPT ![h] = IF k > @ THEN k ELSE @]
           repeated == /\ more
                       /\ log' = log
                       /\ \E i \in DOMAIN log.events : log.events[i].payload = t
           added == /\ more
                    /\ \A i \in DOMAIN log.events :
                         log.events[i].payload.transition_id # t.transition_id
                    /\ \A i \in DOMAIN log.events :
                         i \in DOMAIN log'.events /\ log'.events[i] = log.events[i]
                    /\ \E i \in DOMAIN log'.events : log'.events[i].payload = t
                    /\ \A x : TransitionsIn(log'.events, x) =
                         IF x = s THEN Append(ts, t) ELSE TransitionsIn(log.events, x)
<1>1. /\ k \in DOMAIN us
      /\ UNCHANGED <<held, saved, running>>
      /\ outcome' \in {"ok", "validation", "integrity"}
      /\ TrailOk'
      /\ UNCHANGED <<log, recorded>> \/ repeated \/ added
  BY RecordEffect
<1>2. IInv /\ TrailOk /\ RecordedOk /\ SoleWriter /\ SavedIsLegal /\ OneBranch
      /\ recorded \in [Holder -> Nat] /\ running \in BOOLEAN
  BY DEF AuditInv
<1>3. us \in Seq(Transition) /\ s \in Strategy /\ HistoryOk(s, us) /\ t.sequence = k
      /\ DOMAIN us = 1..Len(us) /\ Len(us) \in Nat /\ t \in Transition
  <2>1. us \in Seq(Transition) /\ s \in Strategy /\ HistoryOk(s, us) /\ t.sequence = k
        /\ t \in Transition
    BY <1>1, <1>2, HeldValue
  <2> QED BY <2>1
<1>4. ts \in Seq(Transition) /\ Len(ts) \in Nat /\ DOMAIN ts = 1..Len(ts)
  <2>1. ts \in Seq(Transition)
    BY <1>2, FoundContent DEF TrailOk
  <2> QED BY <2>1
<1>5. \A x : WritersOf(x)' = WritersOf(x)
  BY <1>1, SameWriters
<1>6. IInv'
  BY <1>1, <1>2 DEF IInv, TypeOK, HeldSound
<1>7. SavedIsLegal'
  BY <1>1, <1>2, <1>5 DEF SavedIsLegal
<1>8. recorded[h] \in 0..Len(us) /\ k <= recorded[h] + 1 /\ k >= 1 /\ k \in Nat
      /\ \A i \in 1..recorded[h] : \E j \in DOMAIN log.events : log.events[j].payload = us[i]
  BY <1>2, <1>3 DEF RecordedOk
<1>9. more => /\ recorded' \in [Holder -> Nat]
              /\ \A g \in Holder : g # h => recorded'[g] = recorded[g]
              /\ recorded'[h] = IF k > recorded[h] THEN k ELSE recorded[h]
  BY <1>2, <1>8
<1>10. ASSUME more,
              \A i \in DOMAIN log.events : \E j \in DOMAIN log'.events :
                log'.events[j].payload = log.events[i].payload,
              \E i \in DOMAIN log'.events : log'.events[i].payload = t
       PROVE  RecordedOk'
  <2> SUFFICES ASSUME NEW g \in Holder
               PROVE  /\ recorded'[g] \in 0..Len(held[g].transitions)
                      /\ \A i \in 1..recorded'[g] : \E j \in DOMAIN log'.events :
                           log'.events[j].payload = held[g].transitions[i]
    BY <1>1 DEF RecordedOk
  <2>1. /\ recorded[g] \in 0..Len(held[g].transitions)
        /\ \A i \in 1..recorded[g] : \E j \in DOMAIN log'.events :
             log'.events[j].payload = held[g].transitions[i]
    <3>1. /\ recorded[g] \in 0..Len(held[g].transitions)
          /\ \A i \in 1..recorded[g] : \E j \in DOMAIN log.events :
               log.events[j].payload = held[g].transitions[i]
      BY <1>2 DEF RecordedOk
    <3> QED BY <1>10, <3>1
  <2>2. CASE g # h
    BY <1>9, <1>10, <2>1, <2>2
  <2>3. CASE g = h
    <3>1. recorded'[h] \in 0..Len(us)
      BY <1>1, <1>3, <1>8, <1>9, <1>10
    <3>2. \A i \in 1..recorded'[h] : i \in 1..recorded[h] \/ i = k
      BY <1>8, <1>9, <1>10
    <3> QED BY <1>10, <2>1, <2>3, <3>1, <3>2
  <2> QED BY <2>2, <2>3
<1> HIDE DEF us, s, ts, t
<1>11. CASE UNCHANGED <<log, recorded>>
  <2>1. RecordedOk' /\ SoleWriter' /\ OneBranch'
    BY <1>1, <1>2, <1>5, <1>11 DEF RecordedOk, SoleWriter, OneBranch
  <2> QED BY <1>1, <1>2, <1>6, <1>7, <1>11, <2>1 DEF AuditInv
<1>12. CASE repeated
  <2>1. RecordedOk'
    BY <1>10, <1>12
  <2>2. WritersOf(s) = {h} => recorded'[h] = recorded[h]
    <3> SUFFICES ASSUME WritersOf(s) = {h} PROVE k <= recorded[h]
      BY <1>8, <1>9, <1>12
    <3>1. h \in WritersOf(s)
      BY DEF WritersOf, s
    <3>2. ts = SubSeq(us, 1, recorded[h])
      BY <1>2, <1>3, <3>1 DEF SoleWriter, ts, us
    <3>3. Sequenced(ts) /\ Len(ts) = recorded[h]
      <4>1. HistoryOk(s, ts)
        BY <1>3, <1>8, <3>2, HistoryPrefix
      <4>2. Len(ts) = recorded[h]
        BY <1>3, <1>8, <3>2
      <4> QED BY <4>1, <4>2 DEF HistoryOk
    <3>4. k \in DOMAIN ts
      BY <1>1, <1>12, <3>3, RecordedPlace DEF ts, us, t, s
    <3> QED BY <1>4, <3>3, <3>4
  <2>3. SoleWriter'
    <3> SUFFICES ASSUME NEW x \in Strategy, NEW g \in WritersOf(x), WritersOf(x) = {g}
                 PROVE  TransitionsIn(log.events, x)
                          = SubSeq(held[g].transitions, 1, recorded'[g])
      BY <1>1, <1>5, <1>12 DEF SoleWriter
    <3>1. TransitionsIn(log.events, x) = SubSeq(held[g].transitions, 1, recorded[g])
      BY <1>2 DEF SoleWriter
    <3>2. g \in Holder /\ (g = h => x = s)
      BY DEF WritersOf, s
    <3>3. recorded'[g] = recorded[g]
      BY <1>9, <1>12, <2>2, <3>2
    <3> QED BY <3>1, <3>3
  <2>4. OneBranch'
    BY <1>1, <1>2, <1>5, <1>12 DEF OneBranch
  <2> QED BY <1>1, <1>2, <1>6, <1>7, <1>9, <1>12, <2>1, <2>3, <2>4 DEF AuditInv
<1>13. CASE added
  <2>1. RecordedOk'
    BY <1>10, <1>13
  <2>2. SoleWriter'
    <3> SUFFICES ASSUME NEW x \in Strategy, NEW g \in WritersOf(x), WritersOf(x) = {g}
                 PROVE  TransitionsIn(log'.events, x)
                          = SubSeq(held[g].transitions, 1, recorded'[g])
      BY <1>1, <1>5 DEF SoleWriter
    <3>1. TransitionsIn(log.events, x) = SubSeq(held[g].transitions, 1, recorded[g])
      BY <1>2 DEF SoleWriter
    <3>2. g \in Holder /\ x = held[g].strategy_id
      BY DEF WritersOf
    <3>3. CASE x # s
      <4>1. g # h
        BY <3>2, <3>3 DEF s
      <4>2. recorded'[g] = recorded[g]
        BY <1>9, <1>13, <3>2, <4>1
      <4> QED BY <1>13, <3>1, <3>3, <4>2
    <3>4. CASE x = s
      <4>1. g = h
        BY <3>4 DEF WritersOf, s
      <4>2. k = recorded[h] + 1
        <5>1. k \notin 1..recorded[h]
          BY <1>8, <1>13 DEF t
        <5> QED BY <1>8, <5>1
      <4>3. recorded'[h] = k
        BY <1>8, <1>9, <1>13, <4>2
      <4>4. Append(SubSeq(us, 1, k - 1), us[k]) = SubSeq(us, 1, k)
        BY <1>1, <1>3, <1>8
      <4>5. k - 1 = recorded[h]
        BY <1>8, <4>2
      <4> QED BY <1>13, <3>1, <3>4, <4>1, <4>3, <4>4, <4>5 DEF t, us, ts
    <3> QED BY <3>3, <3>4
  <2>3. OneBranch'
    <3> SUFFICES ASSUME NEW x \in Strategy, TransitionsIn(log'.events, x) # <<>>,
                        HistoryOk(x, TransitionsIn(log'.events, x))
                 PROVE  \E g \in WritersOf(x) :
                          Starts(TransitionsIn(log'.events, x), held[g].transitions)
      BY <1>1, <1>5 DEF OneBranch
    <3>1. CASE x # s
      BY <1>2, <1>13, <3>1 DEF OneBranch
    <3>2. CASE x = s
      <4>1. HistoryOk(s, Append(ts, t))
        BY <1>13, <3>2
      <4>2. k = Len(ts) + 1
        <5>1. Len(ts) + 1 \in DOMAIN Append(ts, t) /\ Append(ts, t)[Len(ts) + 1] = t
          BY <1>3, <1>4
        <5> QED BY <1>3, <4>1, <5>1 DEF HistoryOk, Sequenced
      <4>3. Sequenced(ts)
        <5>1. \A i \in 1..Len(ts) : i \in DOMAIN Append(ts, t) /\ Append(ts, t)[i] = ts[i]
          BY <1>3, <1>4
        <5> QED BY <1>4, <4>1, <5>1 DEF HistoryOk, Sequenced
      <4>4. \A i \in 1..Len(ts) : ts[i] = us[i]
        <5> SUFFICES ASSUME NEW i \in 1..Len(ts) PROVE ts[i] = us[i]
          OBVIOUS
        <5>1. i \in 1..recorded[h] /\ i \in DOMAIN us
          BY <1>3, <1>4, <1>8, <4>2
        <5>2. PICK j \in DOMAIN log.events : log.events[j].payload = us[i]
          BY <1>8, <5>1
        <5> QED BY <4>3, <5>1, <5>2, RecordedPlace DEF ts, us, s
      <4>5. Append(ts, t) = SubSeq(us, 1, k) /\ Len(Append(ts, t)) = k
        <5>1. Len(Append(ts, t)) = k /\ Append(ts, t) \in Seq(Transition)
              /\ \A i \in 1..Len(ts) : Append(ts, t)[i] = ts[i]
              /\ Append(ts, t)[k] = t
          BY <1>3, <1>4, <4>2
        <5>2. Len(SubSeq(us, 1, k)) = k /\ SubSeq(us, 1, k) \in Seq(Transition)
              /\ \A i \in 1..k : SubSeq(us, 1, k)[i] = us[i]
          BY <1>1, <1>3, <1>8
        <5>3. \A i \in 1..k : i \in 1..Len(ts) \/ i = k
          BY <1>4, <1>8, <4>2
        <5>4. \A i \in 1..k : Append(ts, t)[i] = SubSeq(us, 1, k)[i]
          BY <4>4, <5>1, <5>2, <5>3 DEF t
        <5>5. \A q \in Seq(Transition) : q = [i \in 1..Len(q) |-> q[i]]
          OBVIOUS
        <5> HIDE DEF added, more
        <5> QED BY <5>1, <5>2, <5>4, <5>5
      <4>6. Starts(Append(ts, t), us)
        BY <1>1, <1>3, <4>5 DEF Starts
      <4>7. h \in WritersOf(x)
        BY <3>2 DEF WritersOf, s
      <4> QED BY <1>13, <3>2, <4>6, <4>7 DEF us
    <3> QED BY <3>1, <3>2
  <2> QED BY <1>1, <1>2, <1>6, <1>7, <1>9, <1>13, <2>1, <2>2, <2>3 DEF AuditInv
<1> QED BY <1>1, <1>11, <1>12, <1>13

\* What is saved is the trail of the moment.
LEMMA SaveKeeps ==
  ASSUME AuditInv, SaveTrail
  PROVE  AuditInv'
<1>1. saved' = log.events /\ outcome' = "ok" /\ UNCHANGED <<held, log, recorded, running>>
  BY DEF SaveTrail
<1>2. IInv /\ TrailOk /\ RecordedOk /\ SoleWriter /\ OneBranch
      /\ recorded \in [Holder -> Nat] /\ running \in BOOLEAN
  BY DEF AuditInv
<1>3. IInv'
  BY <1>1, <1>2 DEF IInv, TypeOK, HeldSound
<1>4. \A x : WritersOf(x)' = WritersOf(x)
  BY <1>1, SameWriters
<1>5. TrailOk'
  BY <1>1, <1>2 DEF TrailOk, EventOk, Trail!Indexed
<1>6. RecordedOk' /\ SoleWriter' /\ OneBranch'
  BY <1>1, <1>2, <1>4 DEF RecordedOk, SoleWriter, OneBranch
<1>7. SavedIsLegal'
  <2> SUFFICES ASSUME NEW s \in Strategy, NEW h \in WritersOf(s), WritersOf(s) = {h}
               PROVE  HistoryOk(s, TransitionsIn(log.events, s))
    BY <1>1, <1>4 DEF SavedIsLegal
  <2>1. h \in Holder /\ held[h].strategy_id = s
    BY DEF WritersOf
  <2>2. TransitionsIn(log.events, s) = SubSeq(held[h].transitions, 1, recorded[h])
    BY <1>2 DEF SoleWriter
  <2>3. held[h].transitions \in Seq(Transition) /\ HistoryOk(s, held[h].transitions)
    BY <1>2, <2>1, HeldValue
  <2> QED BY <1>2, <2>1, <2>2, <2>3, HistoryPrefix DEF RecordedOk
<1> QED BY <1>1, <1>2, <1>3, <1>5, <1>6, <1>7 DEF AuditInv

\* A crash leaves the saved trail and which caller works on which strategy.
LEMMA CrashKeeps ==
  ASSUME AuditInv, CrashProcess
  PROVE  AuditInv'
<1>1. /\ running' = FALSE /\ outcome' = "ok" /\ saved' = saved
      /\ held' = [h \in Holder |-> New(held[h].strategy_id)]
      /\ log' = Trail!EmptyLog
      /\ recorded' = [h \in Holder |-> 0]
  BY DEF CrashProcess
<1>2. IInv /\ TrailOk /\ SavedIsLegal
  BY DEF AuditInv
<1>3. \A h \in Holder : /\ held'[h] \in Lifecycle /\ LifecycleOk(held'[h])
                        /\ held'[h].transitions = <<>>
                        /\ held'[h].strategy_id = held[h].strategy_id
                        /\ recorded'[h] = 0
  <2> SUFFICES ASSUME NEW h \in Holder
               PROVE  /\ held'[h] \in Lifecycle /\ LifecycleOk(held'[h])
                      /\ held'[h].transitions = <<>>
                      /\ held'[h].strategy_id = held[h].strategy_id
                      /\ recorded'[h] = 0
    OBVIOUS
  <2>1. held[h].strategy_id \in Strategy
    BY <1>2, HeldValue
  <2>2. held'[h] = New(held[h].strategy_id) /\ recorded'[h] = 0
    BY <1>1
  <2>3. New(held[h].strategy_id) \in Lifecycle /\ LifecycleOk(New(held[h].strategy_id))
    BY <2>1, NewType, NewSound
  <2>4. /\ New(held[h].strategy_id).transitions = <<>>
        /\ New(held[h].strategy_id).strategy_id = held[h].strategy_id
    BY DEF New
  <2> QED BY <2>2, <2>3, <2>4
<1>4. IInv'
  <2>1. held' \in [Holder -> Lifecycle]
    BY <1>1, <1>3
  <2> QED BY <1>1, <1>3, <2>1 DEF IInv, TypeOK, HeldSound
<1>5. /\ \A x : WritersOf(x)' = WritersOf(x)
      /\ \A e : EventOk(e) => EventOk(e)'
  BY <1>3, SameWriters
<1>6. log'.events = <<>> /\ log'.by_id = [id \in {} |-> id]
  BY <1>1 DEF Trail!EmptyLog
<1>7. TrailOk'
  <2>1. Trail!Indexed(log')
    BY <1>6 DEF Trail!Indexed, Trail!EventsOf
  <2> QED BY <1>1, <1>2, <1>3, <1>6, <2>1 DEF TrailOk, EventOk
<1>8. RecordedOk'
  BY <1>3 DEF RecordedOk
<1>9. \A x : TransitionsIn(log'.events, x) = <<>>
  BY <1>6, NothingFound
<1>10. SoleWriter'
  <2>1. SubSeq(<<>>, 1, 0) = <<>>
    OBVIOUS
  <2> QED BY <1>3, <1>5, <1>9, <2>1 DEF SoleWriter, WritersOf
<1>11. SavedIsLegal' /\ OneBranch'
  BY <1>1, <1>2, <1>5, <1>9 DEF SavedIsLegal, OneBranch
<1>12. recorded' \in [Holder -> Nat] /\ running' \in BOOLEAN
  BY <1>1
<1> QED BY <1>4, <1>7, <1>8, <1>10, <1>11, <1>12 DEF AuditInv

\* What a recovery that is not refused gives: the saved trail, and from it a sound value
\* for every caller.
LEMMA RecoveredValues ==
  ASSUME AuditInv, Recover, running'
  PROVE  /\ log' = LogOf(saved) /\ saved' = saved /\ outcome' = "ok" /\ running' = TRUE
         /\ log'.events = saved /\ Trail!Indexed(log')
         /\ \A h \in Holder :
              /\ held'[h].strategy_id = held[h].strategy_id
              /\ held'[h].transitions = TransitionsIn(saved, held[h].strategy_id)
              /\ recorded'[h] = Len(held'[h].transitions)
         /\ recorded' \in [Holder -> Nat]
         /\ IInv'
<1> DEFINE rebuilt == [ h \in Holder |->
                          Rebuilt(held[h].strategy_id,
                                  TransitionsIn(saved, held[h].strategy_id)) ]
<1>1. /\ \A h \in Holder : LifecycleOk(rebuilt[h])
      /\ held' = rebuilt
      /\ log' = LogOf(saved)
      /\ recorded' = [h \in Holder |-> Len(rebuilt[h].transitions)]
      /\ running' = TRUE
      /\ outcome' = "ok"
      /\ saved' = saved
  BY DEF Recover
<1>2. IInv /\ TrailOk
  BY DEF AuditInv
<1>3. log'.events = saved /\ Trail!Indexed(log')
  BY <1>1, <1>2, LogOfIndexed DEF TrailOk
<1>4. \A h \in Holder : /\ rebuilt[h].strategy_id = held[h].strategy_id
                        /\ rebuilt[h].transitions = TransitionsIn(saved, held[h].strategy_id)
  BY DEF Rebuilt
<1>5. \A s : TransitionsIn(saved, s) \in Seq(Transition)
  BY <1>2, FoundContent DEF TrailOk
<1>6. \A h \in Holder : rebuilt[h] \in Lifecycle
  BY <1>2, <1>5, HeldValue, RebuiltType
<1>7. \A h \in Holder : \A i \in DOMAIN rebuilt[h].transitions :
        TransitionOk(rebuilt[h].transitions[i])
  <2> SUFFICES ASSUME NEW h \in Holder,
                      NEW i \in DOMAIN TransitionsIn(saved, held[h].strategy_id)
               PROVE  TransitionOk(TransitionsIn(saved, held[h].strategy_id)[i])
    BY <1>4
  <2> QED BY <1>2, FoundIsThere DEF TrailOk, EventOk
<1> HIDE DEF rebuilt
<1>8. held' \in [Holder -> Lifecycle]
  <2>1. rebuilt = [h \in Holder |-> rebuilt[h]]
    BY DEF rebuilt
  <2> QED BY <1>1, <1>6, <2>1
<1>9. IInv'
  BY <1>1, <1>7, <1>8 DEF IInv, TypeOK, HeldSound
<1>10. recorded' \in [Holder -> Nat]
  BY <1>1, <1>4, <1>5
<1> QED BY <1>1, <1>3, <1>4, <1>9, <1>10

\* Recovery gives each caller what the saved trail has of its strategy, or nobody
\* anything.
LEMMA RecoverKeeps ==
  ASSUME AuditInv, Recover
  PROVE  AuditInv'
<1>1. CASE ~running'
  <2>1. outcome' = "integrity" /\ UNCHANGED <<held, log, recorded, running, saved>>
    BY <1>1 DEF Recover
  <2>2. IInv'
    BY <2>1 DEF AuditInv, IInv, TypeOK, HeldSound
  <2>3. TrailOk' /\ RecordedOk'
    BY <2>1 DEF AuditInv, TrailOk, EventOk, RecordedOk
  <2>4. SoleWriter' /\ SavedIsLegal' /\ OneBranch'
    BY <2>1 DEF AuditInv, SoleWriter, SavedIsLegal, OneBranch, WritersOf
  <2> QED BY <2>1, <2>2, <2>3, <2>4 DEF AuditInv
<1>2. CASE running'
  <2>1. /\ saved' = saved /\ running' = TRUE
        /\ log'.events = saved /\ Trail!Indexed(log')
        /\ \A h \in Holder :
             /\ held'[h].strategy_id = held[h].strategy_id
             /\ held'[h].transitions = TransitionsIn(saved, held[h].strategy_id)
             /\ recorded'[h] = Len(held'[h].transitions)
        /\ recorded' \in [Holder -> Nat]
        /\ IInv'
    BY <1>2, RecoveredValues
  <2>2. TrailOk /\ SavedIsLegal
    BY DEF AuditInv
  <2>3. \A x : WritersOf(x)' = WritersOf(x)
    BY <2>1, SameWriters
  <2>4. TrailOk'
    BY <2>1, <2>2 DEF TrailOk, EventOk
  <2>5. \A x : TransitionsIn(saved, x) \in Seq(Transition)
    BY <2>2, FoundContent DEF TrailOk
  <2>6. RecordedOk'
    <3> SUFFICES ASSUME NEW h \in Holder
                 PROVE  /\ recorded'[h] \in 0..Len(held'[h].transitions)
                        /\ \A i \in 1..recorded'[h] : \E j \in DOMAIN saved :
                             saved[j].payload = held'[h].transitions[i]
      BY <2>1 DEF RecordedOk
    <3> DEFINE ts == TransitionsIn(saved, held[h].strategy_id)
    <3>1. held'[h].transitions = ts /\ recorded'[h] = Len(ts)
      BY <2>1
    <3>2. Len(ts) \in 0..Len(ts) /\ DOMAIN ts = 1..Len(ts)
      BY <2>5
    <3>3. \A i \in DOMAIN ts : \E j \in DOMAIN saved : saved[j].payload = ts[i]
      BY <2>2, FoundIsThere DEF TrailOk
    <3> QED BY <3>1, <3>2, <3>3
  <2>7. SoleWriter'
    <3>1. \A ts \in Seq(Transition) : SubSeq(ts, 1, Len(ts)) = ts
      OBVIOUS
    <3> QED BY <2>1, <2>3, <2>5, <3>1 DEF SoleWriter, WritersOf
  <2>8. SavedIsLegal'
    BY <2>1, <2>2, <2>3 DEF SavedIsLegal
  <2>9. OneBranch'
    <3> SUFFICES ASSUME NEW s \in Strategy, TransitionsIn(saved, s) # <<>>
                 PROVE  \E h \in WritersOf(s) :
                          Starts(TransitionsIn(saved, s), held'[h].transitions)
      BY <2>1, <2>3 DEF OneBranch
    <3> DEFINE ts == TransitionsIn(saved, s)
    <3>1. ts \in Seq(Transition) /\ 1 \in DOMAIN ts
      BY <2>5
    <3>2. PICK i \in DOMAIN saved : saved[i].payload.strategy_id = s
      <4>1. saved \in Seq(Trail!Event)
        BY <2>2 DEF TrailOk
      <4> QED BY <3>1, <4>1, FoundIsThere
    <3>3. PICK h \in Holder : held[h].strategy_id = s
      BY <2>2, <3>2 DEF TrailOk, EventOk
    <3>4. held'[h].transitions = ts
      BY <2>1, <3>3
    <3>5. SubSeq(ts, 1, Len(ts)) = ts /\ Len(ts) <= Len(ts)
      BY <3>1
    <3> QED BY <3>3, <3>4, <3>5 DEF Starts, WritersOf
  <2> QED BY <2>1, <2>4, <2>6, <2>7, <2>8, <2>9 DEF AuditInv
<1> QED BY <1>1, <1>2

-----------------------------------------------------------------------------
(* Theorems *)

\* Every step of the callers and of their process keeps the invariant.
THEOREM AuditNextKeeps == AuditInv /\ [AuditNext]_auditVars => AuditInv'
<1> SUFFICES ASSUME AuditInv, [AuditNext]_auditVars PROVE AuditInv'
  OBVIOUS
<1>1. CASE Decide
  BY <1>1, DecideKeeps
<1>2. CASE DoRecord
  BY <1>2, RecordKeeps DEF DoRecord
<1>3. CASE SaveTrail
  BY <1>3, SaveKeeps
<1>4. CASE CrashProcess
  BY <1>4, CrashKeeps
<1>5. CASE Recover
  BY <1>5, RecoverKeeps
<1>6. CASE UNCHANGED auditVars
  <2>1. UNCHANGED <<held, outcome, log, recorded, saved, running>>
    BY <1>6 DEF auditVars
  <2>2. IInv'
    BY <2>1 DEF AuditInv, IInv, TypeOK, HeldSound
  <2>3. TrailOk' /\ RecordedOk'
    BY <2>1 DEF AuditInv, TrailOk, EventOk, RecordedOk
  <2>4. SoleWriter' /\ SavedIsLegal' /\ OneBranch'
    BY <2>1 DEF AuditInv, SoleWriter, SavedIsLegal, OneBranch, WritersOf
  <2> QED BY <2>1, <2>2, <2>3, <2>4 DEF AuditInv
<1> QED BY <1>1, <1>2, <1>3, <1>4, <1>5, <1>6 DEF AuditNext

\* The registry's and the trail's invariant hold together in every state.
THEOREM AuditSoundness == AuditSpec => []AuditInv
BY AuditInitOk, AuditNextKeeps, PTL DEF AuditSpec

\* The registry keeps its promises while callers record, crash and recover: no rung
\* skipped, nothing in PAPER that was not validated, the owner's controls over all of
\* LIMITED_LIVE - for the values that a recovery rebuilds from a trail, too.
THEOREM ComposedRegistry ==
  AuditSpec => [](LadderClimbed /\ NoPaperWithoutValidation /\ ControlsCoverHistory)
<1>1. AuditInv => LadderClimbed /\ NoPaperWithoutValidation /\ ControlsCoverHistory
  BY SoundIsClimbed, SoundIsValidated, SoundIsControlled DEF AuditInv
<1> QED BY <1>1, AuditSoundness, PTL

\* The trail of a strategy with one writer is the legal lifecycle that the writer
\* recorded, whatever was lost, retried or rebuilt on the way.
THEOREM TrailTheorem == AuditSpec => []TrailReplays
<1>1. ASSUME AuditInv PROVE TrailReplays
  <2> SUFFICES ASSUME NEW s \in Strategy, NEW h \in WritersOf(s), WritersOf(s) = {h}
               PROVE  LET ts == TransitionsIn(log.events, s)
                      IN  /\ HistoryOk(s, ts)
                          /\ ts = SubSeq(held[h].transitions, 1, recorded[h])
    BY DEF TrailReplays
  <2>1. h \in Holder /\ held[h].strategy_id = s
    BY DEF WritersOf
  <2>2. TransitionsIn(log.events, s) = SubSeq(held[h].transitions, 1, recorded[h])
    BY <1>1 DEF AuditInv, SoleWriter
  <2>3. held[h].transitions \in Seq(Transition) /\ HistoryOk(s, held[h].transitions)
    BY <1>1, <2>1, HeldValue DEF AuditInv
  <2>4. recorded[h] \in 0..Len(held[h].transitions)
    BY <1>1, <2>1 DEF AuditInv, RecordedOk
  <2> QED BY <2>2, <2>3, <2>4, HistoryPrefix
<1> QED BY <1>1, AuditSoundness, PTL

\* A trail that replays is one caller's history, never a splice of two.
THEOREM BranchTheorem == AuditSpec => []LegalTrailIsABranch
<1>1. AuditInv => LegalTrailIsABranch
  BY DEF AuditInv, OneBranch, LegalTrailIsABranch
<1> QED BY <1>1, AuditSoundness, PTL

\* Only two callers on one strategy make a recovery fail.
THEOREM RecoveryTheorem == AuditSpec => RecoveryAccepted
<1> DEFINE A == Recover =>
       \/ running' /\ \A h \in Holder :
                       held'[h].transitions = TransitionsIn(saved, held[h].strategy_id)
       \/ ~running' /\ \E s \in Strategy : \E g, h \in WritersOf(s) : g # h
<1>1. ASSUME AuditInv PROVE A
  <2> SUFFICES ASSUME Recover PROVE A
    OBVIOUS
  <2>1. CASE running'
    BY <1>1, <2>1, RecoveredValues
  <2>2. CASE ~running'
    <3> DEFINE rebuilt == [ h \in Holder |->
                              Rebuilt(held[h].strategy_id,
                                      TransitionsIn(saved, held[h].strategy_id)) ]
    <3>1. PICK h \in Holder : ~LifecycleOk(rebuilt[h])
      BY <2>2 DEF Recover
    <3>2. ~HistoryOk(held[h].strategy_id, TransitionsIn(saved, held[h].strategy_id))
      BY <3>1 DEF Rebuilt, LifecycleOk
    <3>3. held[h].strategy_id \in Strategy /\ h \in WritersOf(held[h].strategy_id)
      BY <1>1, HeldValue DEF AuditInv, WritersOf
    <3>4. WritersOf(held[h].strategy_id) # {h}
      BY <1>1, <3>2, <3>3 DEF AuditInv, SavedIsLegal
    <3> QED BY <2>2, <3>3, <3>4
  <2> QED BY <2>1, <2>2
<1>2. RecoveryAccepted <=> [][A]_auditVars
  BY DEF RecoveryAccepted
<1> QED BY <1>1, <1>2, AuditSoundness, PTL

\* As long as callers extend the trail or repeat what it has, it replays.
THEOREM ForkTheorem == AuditSpec => OnlyForksSpoil
<1> DEFINE A == \A s \in Strategy :
                  LET ts == TransitionsIn(log.events, s)
                  IN  HistoryOk(s, ts) /\ ~HistoryOk(s, TransitionsIn(log'.events, s)) =>
                        \E h \in WritersOf(s) : ~Starts(ts, held[h].transitions)
<1>1. ASSUME AuditInv, [AuditNext]_auditVars PROVE A
  <2> SUFFICES ASSUME NEW s \in Strategy,
                      HistoryOk(s, TransitionsIn(log.events, s)),
                      ~HistoryOk(s, TransitionsIn(log'.events, s)),
                      \A h \in WritersOf(s) :
                        Starts(TransitionsIn(log.events, s), held[h].transitions)
               PROVE  FALSE
    OBVIOUS
  <2> DEFINE ts == TransitionsIn(log.events, s)
  <2>0. log' # log /\ HistoryOk(s, <<>>) /\ IInv /\ TrailOk
    BY <1>1 DEF AuditInv, HistoryOk, UniqueIds, OwnedBy, Sequenced, Chained, Chronological
  <2>1. CASE DoRecord
    <3>1. PICK h \in Holder, header \in Header : \E k \in 1..(recorded[h] + 1) :
                                                   Record(h, k, header)
      BY <2>1 DEF DoRecord
    <3>2. PICK k \in 1..(recorded[h] + 1) : Record(h, k, header)
      BY <3>1
    <3> DEFINE us == held[h].transitions
               n == Len(ts)
    <3>3. /\ k \in DOMAIN us /\ s = held[h].strategy_id
          /\ \A i \in DOMAIN log.events :
               log.events[i].payload.transition_id # us[k].transition_id
          /\ TransitionsIn(log'.events, s) = Append(ts, us[k])
      <4> DEFINE t == us[k]
                 own == TransitionsIn(log.events, held[h].strategy_id)
      <4>1. /\ k \in DOMAIN us
            /\ \/ log' = log
               \/ /\ \A i \in DOMAIN log.events :
                       log.events[i].payload.transition_id # t.transition_id
                  /\ \A x : TransitionsIn(log'.events, x) =
                       IF x = held[h].strategy_id THEN Append(own, t)
                       ELSE TransitionsIn(log.events, x)
        BY <1>1, <3>2, RecordEffect
      <4> QED BY <2>0, <4>1
    <3>4. /\ ts \in Seq(Transition) /\ n \in Nat /\ DOMAIN ts = 1..n
          /\ us \in Seq(Transition) /\ Len(us) \in Nat /\ DOMAIN us = 1..Len(us)
          /\ HistoryOk(s, us)
      <4>1. ts \in Seq(Transition)
        BY <2>0, FoundContent DEF TrailOk
      <4>2. us \in Seq(Transition) /\ HistoryOk(s, us)
        BY <2>0, <3>3, HeldValue
      <4> QED BY <4>1, <4>2
    <3>5. n <= Len(us) /\ SubSeq(us, 1, n) = ts
      BY <3>3 DEF Starts, WritersOf
    <3>6. k \notin 1..n
      <4> SUFFICES ASSUME k \in 1..n PROVE FALSE
        OBVIOUS
      <4>1. ts[k] = us[k]
        BY <3>4, <3>5
      <4>2. \E i \in DOMAIN log.events : log.events[i].payload = ts[k]
        <5>1. log.events \in Seq(Trail!Event) /\ k \in DOMAIN TransitionsIn(log.events, s)
          BY <2>0, <3>4 DEF TrailOk
        <5> QED BY <5>1, FoundIsThere
      <4> QED BY <3>3, <4>1, <4>2
    <3>7. recorded[h] <= n
      <4> SUFFICES ASSUME ~(recorded[h] <= n) PROVE FALSE
        OBVIOUS
      <4>1. recorded[h] \in Nat /\ recorded[h] <= Len(us)
        BY <1>1, <3>4 DEF AuditInv, RecordedOk
      <4>2. n + 1 \in 1..recorded[h] /\ n + 1 \in DOMAIN us
        BY <3>4, <4>1
      <4>3. PICK j \in DOMAIN log.events : log.events[j].payload = us[n + 1]
        BY <1>1, <4>2 DEF AuditInv, RecordedOk
      <4>4. Sequenced(TransitionsIn(log.events, held[h].strategy_id))
        BY <3>3 DEF HistoryOk
      <4>5. n + 1 \in DOMAIN ts
        BY <1>1, <3>3, <4>2, <4>3, <4>4, RecordedPlace
      <4> QED BY <3>4, <4>5
    <3>8. k = n + 1
      BY <1>1, <3>4, <3>6, <3>7 DEF AuditInv
    <3>9. Append(ts, us[k]) = SubSeq(us, 1, k)
      BY <3>3, <3>4, <3>5, <3>8
    <3>10. k \in 0..Len(us)
      BY <3>3, <3>4
    <3> QED BY <3>3, <3>4, <3>9, <3>10, HistoryPrefix
  <2>2. CASE CrashProcess
    <3>1. log'.events = <<>>
      BY <2>2 DEF CrashProcess, Trail!EmptyLog
    <3> QED BY <2>0, <3>1, NothingFound
  <2>3. CASE Recover
    <3>1. running'
      BY <2>0, <2>3 DEF Recover
    <3>2. /\ log'.events = saved /\ IInv'
          /\ \A h \in Holder :
               /\ held'[h].strategy_id = held[h].strategy_id
               /\ held'[h].transitions = TransitionsIn(saved, held[h].strategy_id)
      BY <1>1, <2>3, <3>1, RecoveredValues
    <3>3. TransitionsIn(saved, s) \in Seq(Transition) /\ TransitionsIn(saved, s) # <<>>
      BY <2>0, <3>2, FoundContent DEF TrailOk
    <3>4. 1 \in DOMAIN TransitionsIn(saved, s)
      BY <3>3
    <3>5. PICK i \in DOMAIN saved : saved[i].payload.strategy_id = s
      BY <2>0, <3>4, FoundIsThere DEF TrailOk
    <3>6. PICK h \in Holder : held[h].strategy_id = s
      BY <2>0, <3>5 DEF TrailOk, EventOk
    <3>7. LifecycleOk(held'[h])
      BY <3>2, <3>6 DEF IInv, HeldSound
    <3> QED BY <3>2, <3>6, <3>7 DEF LifecycleOk
  <2>4. CASE Decide \/ SaveTrail \/ UNCHANGED auditVars
    BY <2>0, <2>4 DEF Decide, SaveTrail, auditVars
  <2> QED BY <1>1, <2>1, <2>2, <2>3, <2>4 DEF AuditNext
<1>2. OnlyForksSpoil <=> [][A]_auditVars
  BY DEF OnlyForksSpoil
<1> QED BY <1>1, <1>2, AuditSoundness, PTL DEF AuditSpec
=============================================================================
