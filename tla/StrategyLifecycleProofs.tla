---------------------- MODULE StrategyLifecycleProofs ----------------------
(***************************************************************************)
(* Theorems about StrategyLifecycle, for any set of callers, strategies,   *)
(* identifiers, times, controls and hand-built records.                    *)
(*                                                                         *)
(* The inductive invariant: every held value passes the constructor's      *)
(* check, and every record in it passes the record's own.                  *)
(***************************************************************************)
EXTENDS StrategyLifecycle, SequenceTheorems, TLAPS

HeldSound ==
  \A h \in Holder :
    /\ LifecycleOk(held[h])
    /\ \A i \in DOMAIN held[h].transitions : TransitionOk(held[h].transitions[i])

IInv == TypeOK /\ HeldSound

-----------------------------------------------------------------------------
(* What the operations build is well typed *)

\* The state a history leads to is a state.
LEMMA FinalStateType ==
  ASSUME NEW ts \in Seq(Transition)
  PROVE  FinalState(ts) \in States
<1>1. CASE ts = <<>>
  BY <1>1 DEF FinalState, States
<1>2. CASE ts # <<>>
  <2>1. Len(ts) \in 1..Len(ts)
    BY <1>2
  <2>2. ts[Len(ts)] \in Transition
    BY <2>1
  <2> QED BY <1>2, <2>2 DEF FinalState, Transition
<1> QED BY <1>1, <1>2

\* replay() builds a value of the lifecycle type.
LEMMA RebuiltType ==
  ASSUME NEW s \in Strategy, NEW ts \in Seq(Transition)
  PROVE  Rebuilt(s, ts) \in Lifecycle
BY FinalStateType DEF Rebuilt, Lifecycle

\* initialize() builds a value of the lifecycle type.
LEMMA NewType ==
  ASSUME NEW s \in Strategy
  PROVE  New(s) \in Lifecycle
BY DEF New, Lifecycle, States

\* initialize() builds a value the constructor accepts.
LEMMA NewSound ==
  ASSUME NEW s \in Strategy
  PROVE  LifecycleOk(New(s))
BY DEF New, LifecycleOk, HistoryOk, UniqueIds, OwnedBy, Sequenced, Chained,
       Chronological, FinalState

\* transition_to() fills in a record of the transition type.
LEMMA NextTransitionType ==
  ASSUME NEW l \in Lifecycle, NEW id \in TransitionId, NEW to \in States,
         NEW at \in Time, NEW c \in Controls
  PROVE  NextTransition(l, [transition_id |-> id, to_state |-> to, decided_at |-> at,
                            controls |-> c]) \in Transition
BY DEF NextTransition, Transition, Lifecycle, Evidences, Approvals, Envelopes

\* What is read back of a history consists of records of that history.
LEMMA ReadBackType ==
  ASSUME NEW ts \in Seq(Transition), NEW positions \in Reads(Len(ts))
  PROVE  /\ positions \in Seq(1..Len(ts))
         /\ ReadBack(ts, positions) \in Seq(Transition)
         /\ DOMAIN ReadBack(ts, positions) = 1..Len(positions)
         /\ \A i \in DOMAIN ReadBack(ts, positions) :
              /\ positions[i] \in DOMAIN ts
              /\ ReadBack(ts, positions)[i] = ts[positions[i]]
<1> DEFINE n == Len(ts)
<1>0. n \in Nat /\ DOMAIN ts = 1..n
  OBVIOUS
<1>1. positions \in Seq(1..n)
  <2>1. CASE positions \in Prefixed(n)
    BY <1>0, <2>1 DEF Prefixed
  <2>2. CASE positions \in Lossy(n)
    BY <1>0, <2>2 DEF Lossy
  <2>3. CASE positions \in Repeated(n)
    BY <1>0, <2>3 DEF Repeated
  <2>4. CASE positions \in Swapped(n)
    BY <1>0, <2>4 DEF Swapped
  <2> QED BY <2>1, <2>2, <2>3, <2>4 DEF Reads
<1>2. DOMAIN positions = 1..Len(positions) /\ Len(positions) \in Nat
  BY <1>1
<1>3. \A i \in 1..Len(positions) : positions[i] \in 1..n
  BY <1>1
<1>4. ReadBack(ts, positions) = [i \in 1..Len(positions) |-> ts[positions[i]]]
  BY <1>2 DEF ReadBack
<1>5. \A i \in 1..Len(positions) : ts[positions[i]] \in Transition
  BY <1>0, <1>3
<1>6. ReadBack(ts, positions) \in Seq(Transition)
  BY <1>2, <1>4, <1>5
<1> QED BY <1>0, <1>1, <1>2, <1>3, <1>4, <1>6

-----------------------------------------------------------------------------
(* The inductive invariant *)

\* A caller may take any value the constructor accepts whose records are sound.
LEMMA ConstructKeeps ==
  ASSUME IInv, NEW h \in Holder, NEW l \in Lifecycle, Construct(h, l),
         \A i \in DOMAIN l.transitions : TransitionOk(l.transitions[i])
  PROVE  IInv'
<1>1. CASE LifecycleOk(l)
  <2>1. held' = [held EXCEPT ![h] = l] /\ outcome' = "ok"
    BY <1>1 DEF Construct
  <2>2. TypeOK'
    BY <2>1 DEF IInv, TypeOK
  <2>3. HeldSound'
    BY <1>1, <2>1 DEF IInv, TypeOK, HeldSound
  <2> QED BY <2>2, <2>3 DEF IInv
<1>2. CASE ~LifecycleOk(l)
  <2>1. UNCHANGED held /\ outcome' = "integrity"
    BY <1>2 DEF Construct
  <2> QED BY <2>1 DEF IInv, TypeOK, HeldSound
<1> QED BY <1>1, <1>2

\* A refused call leaves every caller with what it held.
LEMMA RejectKeeps ==
  ASSUME IInv, Reject
  PROVE  IInv'
BY DEF Reject, IInv, TypeOK, HeldSound

\* A sound record may be appended to any held history.
LEMMA AppendedSound ==
  ASSUME IInv, NEW h \in Holder, NEW t \in Transition, TransitionOk(t)
  PROVE  /\ Appended(held[h], t) \in Lifecycle
         /\ \A i \in DOMAIN Appended(held[h], t).transitions :
              TransitionOk(Appended(held[h], t).transitions[i])
<1> DEFINE ts == held[h].transitions
           new == Append(ts, t)
<1>1. held[h] \in Lifecycle
  BY DEF IInv, TypeOK
<1>2. ts \in Seq(Transition) /\ held[h].strategy_id \in Strategy
  BY <1>1 DEF Lifecycle
<1>3. new \in Seq(Transition)
  BY <1>2
<1>4. Appended(held[h], t) \in Lifecycle
  BY <1>2, <1>3, RebuiltType DEF Appended
<1>5. Appended(held[h], t).transitions = new
  BY DEF Appended, Rebuilt
<1>6. \A i \in DOMAIN ts : TransitionOk(ts[i])
  BY DEF IInv, HeldSound
<1>7. \A i \in DOMAIN new : TransitionOk(new[i])
  <2> SUFFICES ASSUME NEW i \in DOMAIN new PROVE TransitionOk(new[i])
    OBVIOUS
  <2>1. \/ i \in DOMAIN ts /\ new[i] = ts[i]
        \/ i = Len(ts) + 1 /\ new[i] = t
    BY <1>2
  <2> QED BY <2>1, <1>6
<1> QED BY <1>4, <1>5, <1>7

\* The inductive invariant holds initially: callers start with empty histories.
THEOREM InitSound == Init => IInv
<1> SUFFICES ASSUME Init PROVE IInv
  OBVIOUS
<1>1. \A h \in Holder : \E s \in Strategy : held[h] = New(s)
  BY DEF Init
<1>2. \A h \in Holder : held[h] \in Lifecycle /\ LifecycleOk(held[h])
  BY <1>1, NewType, NewSound
<1>3. \A h \in Holder : held[h].transitions = <<>>
  <2>1. \A s \in Strategy : New(s).transitions = <<>>
    BY DEF New
  <2> QED BY <1>1, <2>1
<1>4. TypeOK
  BY <1>2 DEF Init, TypeOK
<1>5. HeldSound
  BY <1>2, <1>3 DEF HeldSound
<1> QED BY <1>4, <1>5 DEF IInv

\* Every operation keeps the inductive invariant, one step per operation.
THEOREM NextKeepsSound == IInv /\ [Next]_vars => IInv'
<1> SUFFICES ASSUME IInv, [Next]_vars PROVE IInv'
  OBVIOUS
<1>0. \A h \in Holder : /\ held[h] \in Lifecycle
                        /\ held[h].strategy_id \in Strategy
                        /\ held[h].transitions \in Seq(Transition)
                        /\ \A i \in DOMAIN held[h].transitions :
                             TransitionOk(held[h].transitions[i])
  BY DEF IInv, TypeOK, HeldSound, Lifecycle
<1>1. CASE DoInitialize
  <2>1. PICK h \in Holder, s \in Strategy : Construct(h, New(s))
    BY <1>1 DEF DoInitialize, Initialize
  <2>2. New(s).transitions = <<>>
    BY DEF New
  <2> QED BY <2>1, <2>2, NewType, ConstructKeeps
<1>2. CASE DoTransitionTo
  <2>1. PICK h \in Holder, id \in OfferedIds(UsedIds), to \in States, at \in Time,
             c \in Controls :
               TransitionTo(h, [transition_id |-> id, to_state |-> to, decided_at |-> at,
                                controls |-> c])
    BY <1>2 DEF DoTransitionTo
  <2> DEFINE t == NextTransition(held[h], [transition_id |-> id, to_state |-> to,
                                           decided_at |-> at, controls |-> c])
  <2>2. id \in TransitionId
    <3>1. Recorded \subseteq Transition
      BY <1>0 DEF Recorded, TransitionsOf
    <3>2. UsedIds \in SUBSET TransitionId
      BY <3>1 DEF UsedIds, Transition
    <3> QED BY <3>2, LifecycleAssumption
  <2>3. t \in Transition
    BY <1>0, <2>2, NextTransitionType
  <2>4. CASE TransitionOk(t)
    <3>1. Construct(h, Appended(held[h], t))
      BY <2>1, <2>4 DEF TransitionTo
    <3> QED BY <2>3, <2>4, <3>1, AppendedSound, ConstructKeeps
  <2>5. CASE ~TransitionOk(t)
    BY <2>1, <2>5, RejectKeeps DEF TransitionTo
  <2> QED BY <2>4, <2>5
<1>3. CASE DoAppend
  <2>1. PICK h \in Holder, t \in Recorded \cup Drafts : AppendTransition(h, t)
    BY <1>3 DEF DoAppend
  <2>2. t \in Transition
    BY <1>0, <2>1, LifecycleAssumption DEF Recorded, TransitionsOf
  <2>3. CASE TransitionOk(t)
    <3>1. Construct(h, Appended(held[h], t))
      BY <2>1, <2>3 DEF AppendTransition
    <3> QED BY <2>2, <2>3, <3>1, AppendedSound, ConstructKeeps
  <2>4. CASE ~TransitionOk(t)
    BY <2>1, <2>4, RejectKeeps DEF AppendTransition
  <2> QED BY <2>3, <2>4
<1>4. CASE DoReplay
  <2>0. PICK h \in Holder, g \in Holder, s \in Strategy :
               \E positions \in Reads(Len(held[g].transitions)) : Replay(h, g, s, positions)
    BY <1>4 DEF DoReplay
  <2>1. PICK positions \in Reads(Len(held[g].transitions)) : Replay(h, g, s, positions)
    BY <2>0
  <2> DEFINE ts == ReadBack(held[g].transitions, positions)
  <2>2. /\ ts \in Seq(Transition)
        /\ \A i \in DOMAIN ts : TransitionOk(ts[i])
    BY <1>0, <2>1, ReadBackType
  <2>3. Rebuilt(s, ts).transitions = ts
    BY DEF Rebuilt
  <2>4. Construct(h, Rebuilt(s, ts))
    BY <2>1 DEF Replay
  <2> QED BY <2>2, <2>3, <2>4, RebuiltType, ConstructKeeps
<1>5. CASE DoConstruct
  <2>1. PICK h \in Holder, g \in Holder, state \in States : ConstructDirectly(h, g, state)
    BY <1>5 DEF DoConstruct
  <2> DEFINE l == [held[g] EXCEPT !.current_state = state]
  <2>2. l \in Lifecycle /\ l.transitions = held[g].transitions
    BY <1>0 DEF Lifecycle
  <2>3. Construct(h, l)
    BY <2>1 DEF ConstructDirectly
  <2> QED BY <1>0, <2>2, <2>3, ConstructKeeps
<1>6. CASE UNCHANGED vars
  BY <1>6 DEF vars, IInv, TypeOK, HeldSound
<1> QED BY <1>1, <1>2, <1>3, <1>4, <1>5, <1>6 DEF Next

\* The inductive invariant holds in every reachable state.
THEOREM Soundness == Spec => []IInv
BY InitSound, NextKeepsSound, PTL DEF Spec

\* Every held value is a well-typed lifecycle, whatever callers do.
THEOREM TypeCorrect == Spec => []TypeOK
<1>1. IInv => TypeOK
  BY DEF IInv
<1> QED BY <1>1, Soundness, PTL

-----------------------------------------------------------------------------
(* The ladder.  A history has at most seven records, so its positions are      *)
(* reached one after the other, without induction.                             *)

\* From each rung the policy allows the next rung and retirement, nothing else.
LEMMA LegalSteps ==
  /\ \A from, to : <<from, to>> \in LegalTransitions => from # "RETIRED"
  /\ \A k \in 1..6 : \A to :
       <<Ladder[k], to>> \in LegalTransitions => to = Ladder[k + 1] \/ to = "RETIRED"
  /\ \A to : <<Ladder[7], to>> \in LegalTransitions => to = "RETIRED"
<1>1. /\ Ladder[1] = "PROPOSED" /\ Ladder[2] = "RESEARCH" /\ Ladder[3] = "BACKTESTED"
      /\ Ladder[4] = "VALIDATED" /\ Ladder[5] = "PAPER" /\ Ladder[6] = "LIVE_CANDIDATE"
      /\ Ladder[7] = "LIMITED_LIVE"
  BY DEF Ladder
<1>2. \A k \in 1..6 : k = 1 \/ k = 2 \/ k = 3 \/ k = 4 \/ k = 5 \/ k = 6
  OBVIOUS
<1>3. \A from, to : <<from, to>> \in LegalTransitions => from # "RETIRED"
  BY DEF LegalTransitions, PromotionTransitions, States
<1>4. \A from, to :
        <<from, to>> \in LegalTransitions =>
          /\ from = "PROPOSED" => to \in {"RESEARCH", "RETIRED"}
          /\ from = "RESEARCH" => to \in {"BACKTESTED", "RETIRED"}
          /\ from = "BACKTESTED" => to \in {"VALIDATED", "RETIRED"}
          /\ from = "VALIDATED" => to \in {"PAPER", "RETIRED"}
          /\ from = "PAPER" => to \in {"LIVE_CANDIDATE", "RETIRED"}
          /\ from = "LIVE_CANDIDATE" => to \in {"LIMITED_LIVE", "RETIRED"}
          /\ from = "LIMITED_LIVE" => to = "RETIRED"
  BY DEF LegalTransitions, PromotionTransitions, States
<1>5. \A k \in 1..6 : \A to :
        <<Ladder[k], to>> \in LegalTransitions => to = Ladder[k + 1] \/ to = "RETIRED"
  <2> SUFFICES ASSUME NEW k \in 1..6, NEW to, <<Ladder[k], to>> \in LegalTransitions
               PROVE  to = Ladder[k + 1] \/ to = "RETIRED"
    OBVIOUS
  <2>1. CASE k = 1
    BY <1>1, <1>4, <2>1
  <2>2. CASE k = 2
    BY <1>1, <1>4, <2>2
  <2>3. CASE k = 3
    BY <1>1, <1>4, <2>3
  <2>4. CASE k = 4
    BY <1>1, <1>4, <2>4
  <2>5. CASE k = 5
    BY <1>1, <1>4, <2>5
  <2>6. CASE k = 6
    BY <1>1, <1>4, <2>6
  <2> QED BY <1>2, <2>1, <2>2, <2>3, <2>4, <2>5, <2>6
<1> QED BY <1>1, <1>3, <1>4, <1>5

\* A checked history leaves the i-th rung with its i-th record; only the last retires.
LEMMA Rungs ==
  ASSUME NEW ts \in Seq(Transition), Chained(ts),
         \A i \in DOMAIN ts : <<ts[i].from_state, ts[i].to_state>> \in LegalTransitions
  PROVE  /\ Len(ts) <= 7
         /\ \A i \in 1..Len(ts) :
              /\ ts[i].from_state = Ladder[i]
              /\ \/ ts[i].to_state = "RETIRED" /\ i = Len(ts)
                 \/ i + 1 <= 7 /\ ts[i].to_state = Ladder[i + 1]
<1> DEFINE n == Len(ts)
           from(i) == ts[i].from_state
           to(i) == ts[i].to_state
           OnRung(i) == /\ from(i) = Ladder[i]
                        /\ \/ to(i) = "RETIRED" /\ i = n
                           \/ i + 1 <= 7 /\ to(i) = Ladder[i + 1]
<1>0. n \in Nat /\ DOMAIN ts = 1..n
  OBVIOUS
<1>1. n >= 1 => from(1) = "PROPOSED"
  BY <1>0 DEF Chained
<1>2. \A i \in 1..n : i + 1 <= n => to(i) = from(i + 1) /\ from(i + 1) # "RETIRED"
  <2> SUFFICES ASSUME NEW i \in 1..n, i + 1 <= n
               PROVE  to(i) = from(i + 1) /\ from(i + 1) # "RETIRED"
    OBVIOUS
  <2>1. i + 1 \in DOMAIN ts /\ i + 1 # 1 /\ (i + 1) - 1 = i
    BY <1>0
  <2>2. from(i + 1) = to(i)
    BY <2>1 DEF Chained
  <2>3. <<from(i + 1), to(i + 1)>> \in LegalTransitions
    BY <2>1
  <2> QED BY <2>2, <2>3, LegalSteps
<1>3. \A i \in 1..n : <<from(i), to(i)>> \in LegalTransitions
  BY <1>0
<1>4. \A k \in 1..6 :
        k <= n /\ from(k) = Ladder[k]
          => OnRung(k) /\ (k + 1 <= n => from(k + 1) = Ladder[k + 1])
  <2> SUFFICES ASSUME NEW k \in 1..6, k <= n, from(k) = Ladder[k]
               PROVE  OnRung(k) /\ (k + 1 <= n => from(k + 1) = Ladder[k + 1])
    OBVIOUS
  <2>1. k \in 1..n
    BY <1>0
  <2>2. to(k) = Ladder[k + 1] \/ to(k) = "RETIRED"
    BY <1>3, <2>1, LegalSteps
  <2>3. CASE k + 1 <= n
    BY <1>2, <2>1, <2>2, <2>3
  <2>4. CASE ~(k + 1 <= n)
    <3>1. k = n
      BY <1>0, <2>1, <2>4
    <3> QED BY <2>2, <2>4, <3>1
  <2> QED BY <2>3, <2>4
<1>5. 7 <= n /\ from(7) = Ladder[7] => OnRung(7) /\ n = 7
  <2> SUFFICES ASSUME 7 <= n, from(7) = Ladder[7] PROVE OnRung(7) /\ n = 7
    OBVIOUS
  <2>1. 7 \in 1..n
    BY <1>0
  <2>2. to(7) = "RETIRED"
    BY <1>3, <2>1, LegalSteps
  <2>3. ~(8 <= n)
    BY <1>2, <2>1, <2>2
  <2> QED BY <1>0, <2>2, <2>3
<1>6. Ladder[1] = "PROPOSED"
  BY DEF Ladder
<1>7. 1 <= n => from(1) = Ladder[1]
  BY <1>1, <1>6
<1> HIDE DEF n, from, to, OnRung
<1>8. 2 <= n => from(2) = Ladder[2]
  BY <1>0, <1>4, <1>7
<1>9. 3 <= n => from(3) = Ladder[3]
  BY <1>0, <1>4, <1>8
<1>10. 4 <= n => from(4) = Ladder[4]
  BY <1>0, <1>4, <1>9
<1>11. 5 <= n => from(5) = Ladder[5]
  BY <1>0, <1>4, <1>10
<1>12. 6 <= n => from(6) = Ladder[6]
  BY <1>0, <1>4, <1>11
<1>13. 7 <= n => from(7) = Ladder[7]
  BY <1>0, <1>4, <1>12
<1>14. n <= 7
  BY <1>0, <1>5, <1>13
<1>15. \A i \in 1..n : OnRung(i)
  <2> SUFFICES ASSUME NEW i \in 1..n PROVE OnRung(i)
    OBVIOUS
  <2>1. i \in 1..7 /\ i <= n
    BY <1>0, <1>14
  <2>2. from(i) = Ladder[i]
    BY <1>7, <1>8, <1>9, <1>10, <1>11, <1>12, <1>13, <2>1
  <2> QED BY <1>4, <1>5, <2>1, <2>2
<1> QED BY <1>14, <1>15 DEF n, from, to, OnRung

\* What the inductive invariant says of one held history.
LEMMA HeldHistory ==
  ASSUME IInv, NEW h \in Holder
  PROVE  LET l == held[h]
             ts == l.transitions
         IN  /\ ts \in Seq(Transition)
             /\ HistoryOk(l.strategy_id, ts)
             /\ l.current_state = FinalState(ts)
             /\ Len(ts) <= 7
             /\ \A i \in 1..Len(ts) :
                  /\ ts[i] \in Transition
                  /\ TransitionOk(ts[i])
                  /\ ts[i].from_state = Ladder[i]
                  /\ \/ ts[i].to_state = "RETIRED" /\ i = Len(ts)
                     \/ i + 1 <= 7 /\ ts[i].to_state = Ladder[i + 1]
<1> DEFINE l == held[h]
           ts == l.transitions
<1>1. ts \in Seq(Transition)
  BY DEF IInv, TypeOK, Lifecycle
<1>2. HistoryOk(l.strategy_id, ts) /\ l.current_state = FinalState(ts)
  BY DEF IInv, HeldSound, LifecycleOk
<1>3. \A i \in DOMAIN ts : TransitionOk(ts[i])
  BY DEF IInv, HeldSound
<1>4. \A i \in DOMAIN ts : <<ts[i].from_state, ts[i].to_state>> \in LegalTransitions
  BY <1>3 DEF TransitionOk, RequirementsOk
<1>5. Chained(ts)
  BY <1>2 DEF HistoryOk
<1>6. DOMAIN ts = 1..Len(ts) /\ \A i \in DOMAIN ts : ts[i] \in Transition
  BY <1>1
<1> QED BY <1>1, <1>2, <1>3, <1>4, <1>5, <1>6, Rungs

\* The inductive invariant implies LadderClimbed.
LEMMA SoundIsClimbed == IInv => LadderClimbed
<1> SUFFICES ASSUME IInv, NEW h \in Holder
             PROVE  LET l == held[h]
                        n == Len(l.transitions)
                    IN  /\ \A i \in 1..n :
                             LET t == l.transitions[i]
                             IN  /\ i \in DOMAIN Ladder
                                 /\ t.strategy_id = l.strategy_id
                                 /\ t.from_state = Ladder[i]
                                 /\ \/ t.to_state = "RETIRED" /\ i = n
                                    \/ /\ i + 1 \in DOMAIN Ladder
                                       /\ t.to_state = Ladder[i + 1]
                        /\ \/ l.current_state = "RETIRED" /\ n > 0
                           \/ n + 1 \in DOMAIN Ladder /\ l.current_state = Ladder[n + 1]
  BY DEF LadderClimbed
<1> DEFINE l == held[h]
           ts == l.transitions
           n == Len(ts)
<1>1. DOMAIN Ladder = 1..7 /\ Ladder[1] = "PROPOSED"
  BY DEF Ladder
<1>2. n \in Nat /\ DOMAIN ts = 1..n /\ n <= 7
  BY HeldHistory
<1>3. \A i \in 1..n : ts[i].strategy_id = l.strategy_id
  BY <1>2, HeldHistory DEF HistoryOk, OwnedBy
<1>4. \A i \in 1..n :
        /\ ts[i].from_state = Ladder[i]
        /\ \/ ts[i].to_state = "RETIRED" /\ i = n
           \/ i + 1 <= 7 /\ ts[i].to_state = Ladder[i + 1]
  BY HeldHistory
<1>5. l.current_state = IF n = 0 THEN "PROPOSED" ELSE ts[n].to_state
  <2>1. ts \in Seq(Transition) /\ l.current_state = FinalState(ts)
    BY HeldHistory
  <2> QED BY <2>1 DEF FinalState
<1>6. \/ l.current_state = "RETIRED" /\ n > 0
      \/ n + 1 \in DOMAIN Ladder /\ l.current_state = Ladder[n + 1]
  BY <1>1, <1>2, <1>4, <1>5
<1> QED BY <1>1, <1>2, <1>3, <1>4, <1>6

\* Whatever callers do with stale values, forks, foreign and hand-built records
\* and damaged reads, every history climbs the ladder rung by rung.
THEOREM LadderTheorem == Spec => []LadderClimbed
BY SoundIsClimbed, Soundness, PTL

-----------------------------------------------------------------------------
(* Chronology and the promotion gates *)

\* Times that never decrease from one record to the next never decrease at all.
LEMMA Ascending ==
  ASSUME IInv, NEW h \in Holder
  PROVE  LET ts == held[h].transitions
         IN  \A i, j \in 1..Len(ts) : i <= j => ts[i].decided_at <= ts[j].decided_at
<1> DEFINE ts == held[h].transitions
           n == Len(ts)
           d(i) == ts[i].decided_at
<1>1. n \in Nat /\ n <= 7 /\ DOMAIN ts = 1..n
  BY HeldHistory
<1>2. \A i \in 1..n : d(i) \in Int
  BY HeldHistory, LifecycleAssumption DEF Transition
<1>3. \A i \in 1..n : i + 1 <= n => d(i) <= d(i + 1)
  <2> SUFFICES ASSUME NEW i \in 1..n, i + 1 <= n PROVE d(i) <= d(i + 1)
    OBVIOUS
  <2>1. i + 1 \in DOMAIN ts /\ i + 1 > 1 /\ (i + 1) - 1 = i
    BY <1>1
  <2>2. Chronological(ts)
    BY HeldHistory DEF HistoryOk
  <2> QED BY <2>1, <2>2 DEF Chronological
<1> HIDE DEF n, d
<1>4. \A i \in 1..n : i + 2 <= n => d(i) <= d(i + 2)
  BY <1>1, <1>2, <1>3
<1>5. \A i \in 1..n : i + 3 <= n => d(i) <= d(i + 3)
  BY <1>1, <1>2, <1>3, <1>4
<1>6. \A i \in 1..n : i + 4 <= n => d(i) <= d(i + 4)
  BY <1>1, <1>2, <1>3, <1>5
<1>7. \A i \in 1..n : i + 5 <= n => d(i) <= d(i + 5)
  BY <1>1, <1>2, <1>3, <1>6
<1>8. \A i \in 1..n : i + 6 <= n => d(i) <= d(i + 6)
  BY <1>1, <1>2, <1>3, <1>7
<1>9. \A i, j \in 1..n : i <= j => d(i) <= d(j)
  <2> SUFFICES ASSUME NEW i \in 1..n, NEW j \in 1..n, i <= j PROVE d(i) <= d(j)
    OBVIOUS
  <2>1. PICK k \in 0..6 : j = i + k
    <3>1. j - i \in 0..6 /\ j = i + (j - i)
      BY <1>1
    <3> QED BY <3>1
  <2>2. \/ k = 0 \/ k = 1 \/ k = 2 \/ k = 3 \/ k = 4 \/ k = 5 \/ k = 6
    OBVIOUS
  <2>3. CASE k = 0
    BY <1>1, <1>2, <2>1, <2>3
  <2>4. CASE k # 0
    BY <1>1, <1>3, <1>4, <1>5, <1>6, <1>7, <1>8, <2>1, <2>2, <2>4
  <2> QED BY <2>3, <2>4
<1> QED BY <1>9 DEF n, d

\* The inductive invariant implies NoPaperWithoutValidation.
LEMMA SoundIsValidated == IInv => NoPaperWithoutValidation
<1> SUFFICES ASSUME IInv, NEW h \in Holder,
                    NEW p \in DOMAIN held[h].transitions,
                    held[h].transitions[p].from_state
                      \in {"VALIDATED", "PAPER", "LIVE_CANDIDATE", "LIMITED_LIVE"}
             PROVE  LET ts == held[h].transitions
                    IN  /\ \E v \in 1..(p - 1) :
                             /\ ts[v].to_state = "VALIDATED"
                             /\ ts[v].strategy_id = held[h].strategy_id
                             /\ ts[v].decided_at <= ts[p].decided_at
                             /\ HasKind(ts[v].evidence, "validation_report")
                        /\ \A q \in 3..(p - 1) : ts[q].evidence # <<>>
  BY DEF NoPaperWithoutValidation
<1> DEFINE ts == held[h].transitions
           n == Len(ts)
<1>1. n \in Nat /\ n <= 7 /\ DOMAIN ts = 1..n
  BY HeldHistory
<1>2. \A i \in 1..n : ts[i].from_state = Ladder[i]
  BY HeldHistory
<1>3. \A i \in 1..(n - 1) : ts[i].to_state = Ladder[i + 1]
  BY <1>1, HeldHistory
<1>4. /\ Ladder[1] = "PROPOSED" /\ Ladder[2] = "RESEARCH" /\ Ladder[3] = "BACKTESTED"
      /\ Ladder[4] = "VALIDATED" /\ Ladder[5] = "PAPER" /\ Ladder[6] = "LIVE_CANDIDATE"
      /\ Ladder[7] = "LIMITED_LIVE"
  BY DEF Ladder
<1>5. p \in 1..n /\ p \in 4..7
  <2>1. p # 1 /\ p # 2 /\ p # 3
    BY <1>1, <1>2, <1>4
  <2> QED BY <1>1, <2>1
<1>6. 3 \in 1..(p - 1) /\ 3 \in 1..(n - 1) /\ 3 \in 1..n
  BY <1>1, <1>5
<1>7. ts[3].from_state = "BACKTESTED" /\ ts[3].to_state = "VALIDATED"
  BY <1>2, <1>3, <1>4, <1>6
<1>8. ts[3].strategy_id = held[h].strategy_id
  BY <1>1, <1>6, HeldHistory DEF HistoryOk, OwnedBy
<1>9. ts[3].decided_at <= ts[p].decided_at
  BY <1>5, <1>6, Ascending
<1>10. HasKind(ts[3].evidence, "validation_report")
  BY <1>6, <1>7, HeldHistory DEF TransitionOk, RequirementsOk
<1>11. ASSUME NEW q \in 3..(p - 1) PROVE ts[q].evidence # <<>>
  <2>1. q \in 1..n /\ q \in 1..(n - 1) /\ (q = 3 \/ q = 4 \/ q = 5 \/ q = 6)
    BY <1>1, <1>5
  <2>2. <<ts[q].from_state, ts[q].to_state>> \in PromotionTransitions
    <3>1. ts[q].from_state = Ladder[q] /\ ts[q].to_state = Ladder[q + 1]
      BY <1>2, <1>3, <2>1
    <3> QED BY <1>4, <2>1, <3>1 DEF PromotionTransitions
  <2> QED BY <2>1, <2>2, HeldHistory DEF TransitionOk, RequirementsOk
<1> QED BY <1>6, <1>7, <1>8, <1>9, <1>10, <1>11

\* No history passes PAPER without an independent validation behind it.
THEOREM ValidationTheorem == Spec => []NoPaperWithoutValidation
BY SoundIsValidated, Soundness, PTL

\* The inductive invariant implies ControlsCoverHistory.
LEMMA SoundIsControlled == IInv => ControlsCoverHistory
<1> SUFFICES ASSUME IInv, NEW h \in Holder
             PROVE  LET ts == held[h].transitions
                    IN  /\ held[h].current_state = "LIMITED_LIVE"
                             => \E i \in DOMAIN ts : ts[i].to_state = "LIMITED_LIVE"
                        /\ \A i \in DOMAIN ts :
                             ts[i].to_state = "LIMITED_LIVE" =>
                               /\ ts[i].approval_record # None
                               /\ ts[i].risk_envelope # None
                               /\ \A j \in DOMAIN ts :
                                    /\ j >= i => ts[i].approval_record.approved_at
                                                   <= ts[j].decided_at
                                    /\ j <= i => ts[j].decided_at
                                                   < ts[i].risk_envelope.expires_at
  BY DEF ControlsCoverHistory
<1> DEFINE ts == held[h].transitions
           n == Len(ts)
<1>1. n \in Nat /\ DOMAIN ts = 1..n /\ \A i \in 1..n : ts[i] \in Transition
  BY HeldHistory
<1>2. held[h].current_state = "LIMITED_LIVE"
        => \E i \in DOMAIN ts : ts[i].to_state = "LIMITED_LIVE"
  <2>1. ts \in Seq(Transition) /\ held[h].current_state = FinalState(ts)
    BY HeldHistory
  <2>2. ts # <<>> => n \in DOMAIN ts
    BY <2>1
  <2> QED BY <2>1, <2>2 DEF FinalState
<1>3. ASSUME NEW i \in DOMAIN ts, ts[i].to_state = "LIMITED_LIVE"
      PROVE  /\ ts[i].approval_record # None
             /\ ts[i].risk_envelope # None
             /\ \A j \in DOMAIN ts :
                  /\ j >= i => ts[i].approval_record.approved_at <= ts[j].decided_at
                  /\ j <= i => ts[j].decided_at < ts[i].risk_envelope.expires_at
  <2>1. LimitedLiveControls(ts[i])
    BY <1>1, <1>3, HeldHistory DEF TransitionOk, RequirementsOk
  <2>2. ts[i].approval_record # None /\ ts[i].risk_envelope # None
    BY <2>1 DEF LimitedLiveControls
  <2>3. /\ ts[i].approval_record.approved_at \in Int
        /\ ts[i].risk_envelope.expires_at \in Int
    BY <1>1, <2>2, LifecycleAssumption DEF Transition
  <2>4. \A j \in DOMAIN ts : ts[j].decided_at \in Int
    BY <1>1, LifecycleAssumption DEF Transition
  <2>5. /\ ts[i].approval_record.approved_at <= ts[i].decided_at
        /\ ts[i].risk_envelope.expires_at > ts[i].decided_at
    BY <2>1 DEF LimitedLiveControls
  <2>6. \A j \in DOMAIN ts : /\ j >= i => ts[i].decided_at <= ts[j].decided_at
                             /\ j <= i => ts[j].decided_at <= ts[i].decided_at
    BY <1>1, Ascending
  <2> QED BY <2>2, <2>3, <2>4, <2>5, <2>6
<1> QED BY <1>2, <1>3

\* LIMITED_LIVE controls bind the whole history, not only the record they are on.
THEOREM ControlsTheorem == Spec => []ControlsCoverHistory
BY SoundIsControlled, Soundness, PTL

-----------------------------------------------------------------------------
(* Appending *)

\* A full check of a checked history with one more record is a check of that
\* record against the last one and the identifiers in use.
LEMMA AppendCheck ==
  ASSUME NEW S, NEW ts \in Seq(S), NEW t \in S, NEW s, HistoryOk(s, ts)
  PROVE  HistoryOk(s, Append(ts, t)) <=>
           /\ \A i \in 1..Len(ts) : ts[i].transition_id # t.transition_id
           /\ t.strategy_id = s
           /\ t.sequence = Len(ts) + 1
           /\ t.from_state = FinalState(ts)
           /\ Len(ts) > 0 => ts[Len(ts)].decided_at <= t.decided_at
<1> DEFINE n == Len(ts)
           new == Append(ts, t)
<1>1. /\ n \in Nat
      /\ DOMAIN ts = 1..n
      /\ DOMAIN new = 1..(n + 1)
      /\ \A i \in 1..n : new[i] = ts[i]
      /\ new[n + 1] = t
      /\ ts = <<>> <=> n = 0
  OBVIOUS
<1>a. /\ (n + 1) - 1 = n
      /\ n + 1 \in 1..(n + 1)
      /\ n > 0 => n \in 1..n /\ n + 1 > 1
      /\ n = 0 => n + 1 = 1 /\ ~(n + 1 > 1)
      /\ n # 0 => n > 0 /\ n + 1 # 1
      /\ \A i \in 1..(n + 1) : i \in 1..n \/ i = n + 1
      /\ \A i \in 1..n : i \in 1..(n + 1) /\ (i > 1 => i - 1 \in 1..n) /\ (i # 1 => i > 1)
  BY <1>1
<1>b. FinalState(ts) = IF n = 0 THEN "PROPOSED" ELSE ts[n].to_state
  BY <1>1 DEF FinalState
<1> HIDE DEF n, new
<1>2. UniqueIds(new) <=> \A i \in 1..n : ts[i].transition_id # t.transition_id
  <2>1. UniqueIds(ts)
    BY DEF HistoryOk
  <2>2. UniqueIds(new) => \A i \in 1..n : ts[i].transition_id # t.transition_id
    <3> SUFFICES ASSUME UniqueIds(new), NEW i \in 1..n
                 PROVE  ts[i].transition_id # t.transition_id
      OBVIOUS
    <3>1. i \in DOMAIN new /\ n + 1 \in DOMAIN new /\ i # n + 1
      BY <1>1
    <3>2. new[i].transition_id # new[n + 1].transition_id
      BY <3>1 DEF UniqueIds
    <3> QED BY <1>1, <3>2
  <2>3. ASSUME \A i \in 1..n : ts[i].transition_id # t.transition_id
        PROVE  UniqueIds(new)
    <3> SUFFICES ASSUME NEW i \in DOMAIN new, NEW j \in DOMAIN new,
                        new[i].transition_id = new[j].transition_id
                 PROVE  i = j
      BY DEF UniqueIds
    <3>1. (i \in 1..n \/ i = n + 1) /\ (j \in 1..n \/ j = n + 1)
      BY <1>1
    <3>2. CASE i \in 1..n /\ j \in 1..n
      BY <1>1, <2>1, <3>2 DEF UniqueIds
    <3>3. CASE i \in 1..n /\ j = n + 1
      BY <1>1, <2>3, <3>3
    <3>4. CASE i = n + 1 /\ j \in 1..n
      BY <1>1, <2>3, <3>4
    <3> QED BY <3>1, <3>2, <3>3, <3>4
  <2> QED BY <2>2, <2>3
<1>3. OwnedBy(s, new) <=> t.strategy_id = s
  BY <1>1 DEF HistoryOk, OwnedBy
<1>4. Sequenced(new) <=> t.sequence = n + 1
  BY <1>1 DEF HistoryOk, Sequenced
<1>5. Chained(new) <=> t.from_state = FinalState(ts)
  <2>1. Chained(ts)
    BY DEF HistoryOk
  <2>2. FinalState(ts) = IF n + 1 = 1 THEN "PROPOSED" ELSE new[(n + 1) - 1].to_state
    BY <1>1, <1>a, <1>b
  <2>3. \A i \in 1..n : new[i].from_state = IF i = 1 THEN "PROPOSED"
                                                     ELSE new[i - 1].to_state
    BY <1>1, <1>a, <2>1 DEF Chained
  <2>4. Chained(new) => t.from_state = FinalState(ts)
    BY <1>1, <1>a, <2>2 DEF Chained
  <2>5. ASSUME t.from_state = FinalState(ts) PROVE Chained(new)
    <3> SUFFICES ASSUME NEW i \in 1..(n + 1)
                 PROVE  new[i].from_state = IF i = 1 THEN "PROPOSED" ELSE new[i - 1].to_state
      BY <1>1 DEF Chained
    <3>1. CASE i \in 1..n
      BY <2>3, <3>1
    <3>2. CASE i = n + 1
      BY <1>1, <2>2, <2>5, <3>2
    <3> QED BY <1>a, <3>1, <3>2
  <2> QED BY <2>4, <2>5
<1>6. Chronological(new) <=> (n > 0 => ts[n].decided_at <= t.decided_at)
  <2>1. Chronological(ts)
    BY DEF HistoryOk
  <2>2. \A i \in 1..n : i > 1 => new[i - 1].decided_at <= new[i].decided_at
    BY <1>1, <1>a, <2>1 DEF Chronological
  <2>3. n > 0 => new[(n + 1) - 1] = ts[n]
    BY <1>1, <1>a
  <2>4. ASSUME Chronological(new), n > 0 PROVE ts[n].decided_at <= t.decided_at
    <3>1. n + 1 \in DOMAIN new /\ n + 1 > 1
      BY <1>1, <1>a, <2>4
    <3>2. new[(n + 1) - 1].decided_at <= new[n + 1].decided_at
      BY <2>4, <3>1 DEF Chronological
    <3> QED BY <1>1, <2>3, <2>4, <3>2
  <2>5. ASSUME n > 0 => ts[n].decided_at <= t.decided_at PROVE Chronological(new)
    <3> SUFFICES ASSUME NEW i \in 1..(n + 1), i > 1
                 PROVE  new[i - 1].decided_at <= new[i].decided_at
      BY <1>1 DEF Chronological
    <3>1. CASE i \in 1..n
      BY <2>2, <3>1
    <3>2. CASE i = n + 1
      <4>1. n > 0
        BY <1>1, <1>a, <3>2
      <4> QED BY <1>1, <2>3, <2>5, <3>2, <4>1
    <3> QED BY <1>a, <3>1, <3>2
  <2> QED BY <2>4, <2>5
<1> QED BY <1>2, <1>3, <1>4, <1>5, <1>6 DEF HistoryOk, n, new

\* The value append builds is accepted exactly when the history it builds is.
LEMMA AppendedOk ==
  ASSUME NEW l, NEW t
  PROVE  LifecycleOk(Appended(l, t)) <=> HistoryOk(l.strategy_id, Append(l.transitions, t))
BY DEF Appended, Rebuilt, LifecycleOk

\* Appending is incremental: nothing in the old records can refuse a new one.
THEOREM AppendTheorem == Spec => []AppendIsIncremental
<1>1. IInv => AppendIsIncremental
  <2> SUFFICES ASSUME IInv, NEW h \in Holder, NEW t \in Recorded \cup Drafts
               PROVE  LET l == held[h]
                          n == Len(l.transitions)
                      IN  LifecycleOk(Appended(l, t)) <=>
                            /\ t.transition_id \notin { u.transition_id : u \in TransitionsOf(l) }
                            /\ t.strategy_id = l.strategy_id
                            /\ t.sequence = n + 1
                            /\ t.from_state = l.current_state
                            /\ n > 0 => l.transitions[n].decided_at <= t.decided_at
    BY DEF AppendIsIncremental
  <2> DEFINE l == held[h]
             ts == l.transitions
             n == Len(ts)
  <2>1. t \in Transition
    <3>1. \A g \in Holder : held[g].transitions \in Seq(Transition)
      BY HeldHistory
    <3> QED BY <3>1, LifecycleAssumption DEF Recorded, TransitionsOf
  <2>2. /\ ts \in Seq(Transition)
        /\ HistoryOk(l.strategy_id, ts)
        /\ l.current_state = FinalState(ts)
    BY HeldHistory
  <2>3. DOMAIN ts = 1..n
    BY <2>2
  <2>4. t.transition_id \notin { u.transition_id : u \in TransitionsOf(l) }
          <=> \A i \in 1..n : ts[i].transition_id # t.transition_id
    BY <2>3 DEF TransitionsOf
  <2>5. HistoryOk(l.strategy_id, Append(ts, t)) <=>
          /\ \A i \in 1..n : ts[i].transition_id # t.transition_id
          /\ t.strategy_id = l.strategy_id
          /\ t.sequence = n + 1
          /\ t.from_state = FinalState(ts)
          /\ n > 0 => ts[n].decided_at <= t.decided_at
    BY <2>1, <2>2, AppendCheck
  <2> QED BY <2>2, <2>4, <2>5, AppendedOk
<1> QED BY <1>1, Soundness, PTL

-----------------------------------------------------------------------------
(* Action properties *)

\* No call, with whatever record, continues a history that has retired.
THEOREM RetiredTheorem == Spec => RetiredIsFinal
<1> DEFINE Final(h) ==
             LET old == held[h].transitions
                 new == held'[h].transitions
             IN  held[h].current_state = "RETIRED" /\ Len(new) >= Len(old)
                   => \/ new = old
                      \/ SubSeq(new, 1, Len(old)) # old
<1>1. IInv /\ IInv' => \A h \in Holder : Final(h)
  <2> SUFFICES ASSUME IInv, IInv', NEW h \in Holder,
                      held[h].current_state = "RETIRED",
                      Len(held'[h].transitions) >= Len(held[h].transitions),
                      SubSeq(held'[h].transitions, 1, Len(held[h].transitions))
                        = held[h].transitions
               PROVE  held'[h].transitions = held[h].transitions
    OBVIOUS
  <2> DEFINE old == held[h].transitions
             new == held'[h].transitions
             n == Len(old)
             m == Len(new)
  <2>1. /\ old \in Seq(Transition)
        /\ held[h].current_state = FinalState(old)
    BY HeldHistory
  <2>2. new \in Seq(Transition)
    BY DEF IInv, TypeOK, Lifecycle
  <2>3. n \in Nat /\ m \in Nat /\ n <= m
    BY <2>1, <2>2
  <2>4. old # <<>> /\ old[n].to_state = "RETIRED"
    BY <2>1 DEF FinalState
  <2>5. n > 0 /\ n \in 1..m /\ n \in 1..n
    BY <2>1, <2>3, <2>4
  <2>6. new[n] = old[n]
    <3>1. SubSeq(new, 1, n)[n] = new[n]
      BY <2>2, <2>3, <2>5
    <3> QED BY <3>1
  <2>7. m = n
    <3>1. SUFFICES ASSUME m > n PROVE FALSE
      BY <2>3
    <3>2. n + 1 \in DOMAIN new /\ n + 1 # 1 /\ (n + 1) - 1 = n
      BY <2>2, <2>3, <2>5, <3>1
    <3>3. Chained(new)
      BY DEF IInv, HeldSound, LifecycleOk, HistoryOk
    <3>4. new[n + 1].from_state = "RETIRED"
      BY <2>4, <2>6, <3>2, <3>3 DEF Chained
    <3>5. TransitionOk(new[n + 1])
      BY <3>2 DEF IInv, HeldSound
    <3>6. <<new[n + 1].from_state, new[n + 1].to_state>> \in LegalTransitions
      BY <3>5 DEF TransitionOk, RequirementsOk
    <3> QED BY <3>4, <3>6, LegalSteps
  <2>8. SubSeq(new, 1, m) = new
    BY <2>2
  <2> QED BY <2>7, <2>8
<1>2. IInv /\ IInv' => [\A h \in Holder : Final(h)]_vars
  BY <1>1
<1>3. RetiredIsFinal <=> [][\A h \in Holder : Final(h)]_vars
  BY DEF RetiredIsFinal
<1> HIDE DEF Final
<1>4. Spec => [][\A h \in Holder : Final(h)]_vars
  BY <1>2, Soundness, PTL
<1> QED BY <1>3, <1>4

\* A replay that succeeds has read a prefix, under the right strategy.
LEMMA ReadingInOrder ==
  ASSUME NEW ts \in Seq(Transition), NEW positions \in Reads(Len(ts)),
         Sequenced(ts), Sequenced(ReadBack(ts, positions))
  PROVE  ReadBack(ts, positions) = SubSeq(ts, 1, Len(ReadBack(ts, positions)))
<1> DEFINE read == ReadBack(ts, positions)
           m == Len(read)
<1>1. /\ read \in Seq(Transition)
      /\ \A i \in DOMAIN read : positions[i] \in DOMAIN ts /\ read[i] = ts[positions[i]]
  BY ReadBackType
<1>2. DOMAIN read = 1..m /\ m \in Nat
  BY <1>1
<1>3. \A i \in 1..m : positions[i] = i
  BY <1>1, <1>2 DEF Sequenced
<1>4. \A i \in 1..m : i \in DOMAIN ts /\ read[i] = ts[i]
  BY <1>1, <1>2, <1>3
<1> HIDE DEF read, m
<1>5. m <= Len(ts)
  <2>1. CASE m = 0
    BY <2>1
  <2>2. CASE m # 0
    <3>1. m \in 1..m
      BY <1>2, <2>2
    <3>2. m \in DOMAIN ts
      BY <1>4, <3>1
    <3> QED BY <3>2
  <2> QED BY <2>1, <2>2
<1>6. /\ SubSeq(ts, 1, m) \in Seq(Transition)
      /\ Len(SubSeq(ts, 1, m)) = m
      /\ \A i \in 1..m : SubSeq(ts, 1, m)[i] = ts[i]
  BY <1>2, <1>5
<1>7. read = SubSeq(ts, 1, m)
  BY <1>1, <1>2, <1>4, <1>6, SeqEqual DEF m
<1> QED BY <1>7 DEF read, m

\* A replay that succeeds gives back a prefix of the stored records, in order.
THEOREM ReplayTheorem == Spec => ReplayYieldsPrefix
<1> DEFINE Faithful ==
             outcome' = "ok" =>
               \A h, g \in Holder, s \in Strategy :
                 \A positions \in Reads(Len(held[g].transitions)) :
                   Replay(h, g, s, positions) /\ positions # <<>>
                     => /\ s = held[g].strategy_id
                        /\ held'[h].transitions
                             = SubSeq(held[g].transitions, 1, Len(held'[h].transitions))
<1>1. IInv => Faithful
  <2> SUFFICES ASSUME IInv, outcome' = "ok", NEW h \in Holder, NEW g \in Holder,
                      NEW s \in Strategy, NEW positions \in Reads(Len(held[g].transitions)),
                      Replay(h, g, s, positions), positions # <<>>
               PROVE  /\ s = held[g].strategy_id
                      /\ held'[h].transitions
                           = SubSeq(held[g].transitions, 1, Len(held'[h].transitions))
    OBVIOUS
  <2> DEFINE ts == held[g].transitions
             read == ReadBack(ts, positions)
  <2>1. ts \in Seq(Transition) /\ HistoryOk(held[g].strategy_id, ts)
    BY HeldHistory
  <2>2. LifecycleOk(Rebuilt(s, read)) /\ held' = [held EXCEPT ![h] = Rebuilt(s, read)]
    BY DEF Replay, Construct
  <2>3. HistoryOk(s, read) /\ held'[h].transitions = read
    BY <2>2 DEF Rebuilt, LifecycleOk, IInv, TypeOK
  <2>4. read = SubSeq(ts, 1, Len(read))
    BY <2>1, <2>3, ReadingInOrder DEF HistoryOk
  <2>5. s = held[g].strategy_id
    <3>1. /\ positions \in Seq(1..Len(ts))
          /\ DOMAIN read = 1..Len(positions)
          /\ \A i \in DOMAIN read : positions[i] \in DOMAIN ts /\ read[i] = ts[positions[i]]
      BY <2>1, ReadBackType
    <3>2. 1 \in DOMAIN read
      BY <3>1
    <3>3. read[1].strategy_id = s /\ ts[positions[1]].strategy_id = held[g].strategy_id
      BY <2>1, <2>3, <3>1, <3>2 DEF HistoryOk, OwnedBy
    <3> QED BY <3>1, <3>2, <3>3
  <2> QED BY <2>3, <2>4, <2>5
<1>2. IInv => [Faithful]_vars
  BY <1>1
<1>3. ReplayYieldsPrefix <=> [][Faithful]_vars
  BY DEF ReplayYieldsPrefix
<1> HIDE DEF Faithful
<1>4. Spec => [][Faithful]_vars
  BY <1>2, Soundness, PTL
<1> QED BY <1>3, <1>4

\* Retirement is always available to a caller with a fresh identifier and a time
\* that does not move backward.
THEOREM RetirementTheorem == Spec => RetirementAccepted
<1> DEFINE Retire(id, at) ==
             [ transition_id |-> id, to_state |-> "RETIRED", decided_at |-> at,
               controls |-> NoControls ]
           Available ==
             \A h \in { g \in Holder : held[g].current_state # "RETIRED" } :
               LET past == TransitionsOf(held[h])
               IN  \A id \in OfferedIds(UsedIds) \ { t.transition_id : t \in past } :
                     \A at \in { x \in Time : \A t \in past : t.decided_at <= x } :
                       TransitionTo(h, Retire(id, at))
                         => outcome' = "ok" /\ held'[h].current_state = "RETIRED"
<1>1. IInv => Available
  <2> SUFFICES ASSUME IInv, NEW h \in Holder, held[h].current_state # "RETIRED", NEW id,
                      id \notin { t.transition_id : t \in TransitionsOf(held[h]) },
                      NEW at \in Time, \A t \in TransitionsOf(held[h]) : t.decided_at <= at,
                      TransitionTo(h, Retire(id, at))
               PROVE  outcome' = "ok" /\ held'[h].current_state = "RETIRED"
    OBVIOUS
  <2> DEFINE l == held[h]
             ts == l.transitions
             n == Len(ts)
             t == NextTransition(l, Retire(id, at))
             S == Transition \cup {t}
  <2>1. /\ ts \in Seq(Transition)
        /\ HistoryOk(l.strategy_id, ts)
        /\ l.current_state = FinalState(ts)
    BY HeldHistory
  <2>2. l.current_state \in States
    BY DEF IInv, TypeOK, Lifecycle
  <2>3. /\ t.transition_id = id
        /\ t.strategy_id = l.strategy_id
        /\ t.sequence = n + 1
        /\ t.from_state = l.current_state
        /\ t.to_state = "RETIRED"
        /\ t.decided_at = at
        /\ t.evidence = <<>>
        /\ t.approval_record = None
        /\ t.risk_envelope = None
    BY DEF NextTransition, NoControls
  <2> HIDE DEF t
  <2>4. TransitionOk(t)
    <3>1. <<t.from_state, t.to_state>> \in LegalTransitions
      BY <2>2, <2>3 DEF LegalTransitions
    <3>2. <<t.from_state, t.to_state>> \notin PromotionTransitions
      BY <2>3 DEF PromotionTransitions
    <3>3. <<t.from_state, t.to_state>> # <<"BACKTESTED", "VALIDATED">>
      BY <2>3
    <3>4. RequirementsOk(t)
      BY <2>3, <3>1, <3>2, <3>3 DEF RequirementsOk
    <3>5. t.sequence > 0
      BY <2>1, <2>3
    <3>6. DOMAIN t.evidence = {}
      BY <2>3
    <3> QED BY <2>3, <3>4, <3>5, <3>6 DEF TransitionOk, UniqueEvidence
  <2>5. DOMAIN ts = 1..n /\ n \in Nat
    BY <2>1
  <2>6. \A i \in 1..n : ts[i].transition_id # t.transition_id
    BY <2>3, <2>5 DEF TransitionsOf
  <2>7. n > 0 => ts[n].decided_at <= t.decided_at
    BY <2>3, <2>5 DEF TransitionsOf
  <2>8. HistoryOk(l.strategy_id, Append(ts, t))
    <3>1. ts \in Seq(S) /\ t \in S
      BY <2>1
    <3> QED BY <2>1, <2>3, <2>6, <2>7, <3>1, AppendCheck
  <2>9. LifecycleOk(Appended(l, t))
    BY <2>8, AppendedOk
  <2>10. outcome' = "ok" /\ held' = [held EXCEPT ![h] = Appended(l, t)]
    BY <2>4, <2>9 DEF TransitionTo, Construct, t
  <2>11. Appended(l, t).current_state = "RETIRED"
    <3>1. Append(ts, t) # <<>> /\ Append(ts, t)[Len(Append(ts, t))] = t
      BY <2>1
    <3> QED BY <2>3, <3>1 DEF Appended, Rebuilt, FinalState
  <2> QED BY <2>10, <2>11 DEF IInv, TypeOK
<1>2. IInv => [Available]_vars
  BY <1>1
<1>3. RetirementAccepted <=> [][Available]_vars
  BY DEF RetirementAccepted
<1> HIDE DEF Available
<1>4. Spec => [][Available]_vars
  BY <1>2, Soundness, PTL
<1> QED BY <1>3, <1>4
=============================================================================
