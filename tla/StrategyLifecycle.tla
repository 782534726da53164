------------------------- MODULE StrategyLifecycle -------------------------
(***************************************************************************)
(* The strategy lifecycle (registry/lifecycle.py, StrategyLifecycle) as    *)
(* its callers see it.  A lifecycle is an immutable value; an operation    *)
(* returns a new value or raises.  Nothing in the registry remembers which *)
(* value is the latest: every caller, a Holder, works on the value it      *)
(* holds, which may be stale, forked from another's, or rebuilt from       *)
(* transition records that external storage gave back incomplete or out of *)
(* order.                                                                  *)
(***************************************************************************)
EXTENDS LifecyclePolicy, FiniteSets

CONSTANTS Holder,         \* callers, each holding one lifecycle value
          Strategy,       \* strategy identifiers
          TransitionId,   \* transition identifiers a caller may supply
          OfferedIds(_),  \* those it supplies, given the set already in use
          Time,           \* decision times
          Controls,       \* [evidence, approval_record, risk_envelope] offered
          Drafts          \* transition records built by hand

VARIABLES held,           \* the lifecycle each caller holds
          outcome         \* of the last call: "ok" or the class of its error

vars == <<held, outcome>>

-----------------------------------------------------------------------------
(* Values *)

Evidences == { c.evidence : c \in Controls }
Approvals == { c.approval_record : c \in Controls }
Envelopes == { c.risk_envelope : c \in Controls }

Transition ==
  [ transition_id   : TransitionId,
    strategy_id     : Strategy,
    sequence        : Nat,
    from_state      : States,
    to_state        : States,
    decided_at      : Time,
    evidence        : Evidences,
    approval_record : Approvals,
    risk_envelope   : Envelopes ]

Lifecycle ==
  [ strategy_id : Strategy, current_state : States, transitions : Seq(Transition) ]

ASSUME LifecycleAssumption ==
  /\ Time \subseteq Int
  /\ \A used \in SUBSET TransitionId : OfferedIds(used) \subseteq TransitionId
  /\ Drafts \subseteq Transition
  /\ \A a \in Approvals : a # None => a.approved_at \in Int
  /\ \A e \in Envelopes : e # None => e.expires_at \in Int

\* Type invariant: whatever is refused or raised, every caller holds a lifecycle value
\* (lifecycle.py, StrategyLifecycle).
TypeOK ==
  /\ held \in [Holder -> Lifecycle]
  /\ outcome \in {"ok", "validation", "integrity"}

-----------------------------------------------------------------------------
(* What the operations build *)

\* Slip: no default state.
New_NoState(strategy) ==
  [strategy_id |-> strategy, current_state |-> None, transitions |-> <<>>]

\* StrategyLifecycle.initialize
New(strategy) ==
  [strategy_id |-> strategy, current_state |-> "PROPOSED", transitions |-> <<>>]

\* StrategyLifecycle.replay takes the state from the last record.
Rebuilt(strategy, ts) ==
  [strategy_id |-> strategy, current_state |-> FinalState(ts), transitions |-> ts]

\* StrategyLifecycle.append replays the whole history with one more record.
Appended(l, t) == Rebuilt(l.strategy_id, Append(l.transitions, t))

\* The record transition_to fills in from the value it is called on.
NextTransition(l, r) ==
  [ transition_id   |-> r.transition_id,
    strategy_id     |-> l.strategy_id,
    sequence        |-> Len(l.transitions) + 1,
    from_state      |-> l.current_state,
    to_state        |-> r.to_state,
    decided_at      |-> r.decided_at,
    evidence        |-> r.controls.evidence,
    approval_record |-> r.controls.approval_record,
    risk_envelope   |-> r.controls.risk_envelope ]

TransitionsOf(l) == { l.transitions[i] : i \in DOMAIN l.transitions }

\* Records that exist: somebody's history holds them.
Recorded == UNION { TransitionsOf(held[h]) : h \in Holder }

UsedIds == { t.transition_id : t \in Recorded }

-----------------------------------------------------------------------------
(* What external storage may give back of n records: the positions it reads.  *)
(* Reads are a prefix, or one record lost, repeated, or swapped with the next. *)

Prefixed(n) == { [i \in 1..k |-> i] : k \in 0..n }
Lossy(n)    == { [i \in 1..(n - 1) |-> IF i < k THEN i ELSE i + 1] : k \in 1..n }
Repeated(n) == { [i \in 1..(n + 1) |-> IF i <= k THEN i ELSE i - 1] : k \in 1..n }
Swapped(n)  == { [i \in 1..n |-> CASE i = k     -> k + 1
                                   [] i = k + 1 -> k
                                   [] OTHER     -> i] : k \in 1..(n - 1) }

Reads(n) == Prefixed(n) \cup Lossy(n) \cup Repeated(n) \cup Swapped(n)

ReadBack(ts, positions) == [i \in DOMAIN positions |-> ts[positions[i]]]

-----------------------------------------------------------------------------
(* Operations *)

\* Every operation ends in the constructor's check of the whole history: the
\* caller keeps the new value, or an error and the value it already held.
Construct(h, l) ==
  IF LifecycleOk(l)
    THEN held' = [held EXCEPT ![h] = l] /\ outcome' = "ok"
    ELSE outcome' = "integrity" /\ UNCHANGED held

Reject == outcome' = "validation" /\ UNCHANGED held

Initialize(h, strategy) == Construct(h, New(strategy))

TransitionTo(h, r) ==
  LET t == NextTransition(held[h], r)
  IN  IF TransitionOk(t) THEN Construct(h, Appended(held[h], t)) ELSE Reject

AppendTransition(h, t) ==
  IF TransitionOk(t) THEN Construct(h, Appended(held[h], t)) ELSE Reject

\* h rebuilds the history of g from storage, under the given strategy.
Replay(h, g, strategy, positions) ==
  Construct(h, Rebuilt(strategy, ReadBack(held[g].transitions, positions)))

\* The public constructor also takes the current state from its caller.
ConstructDirectly(h, g, state) ==
  Construct(h, [held[g] EXCEPT !.current_state = state])

Init ==
  /\ held \in [Holder -> { New(s) : s \in Strategy }]
  /\ outcome = "ok"

DoInitialize == \E h \in Holder, s \in Strategy : Initialize(h, s)

DoTransitionTo ==
  \E h \in Holder, id \in OfferedIds(UsedIds), to \in States, at \in Time, c \in Controls :
    TransitionTo(h, [transition_id |-> id, to_state |-> to, decided_at |-> at,
                     controls |-> c])

DoAppend == \E h \in Holder, t \in Recorded \cup Drafts : AppendTransition(h, t)

DoReplay ==
  \E h, g \in Holder, s \in Strategy :
    \E positions \in Reads(Len(held[g].transitions)) : Replay(h, g, s, positions)

DoConstruct == \E h, g \in Holder, state \in States : ConstructDirectly(h, g, state)

Next == DoInitialize \/ DoTransitionTo \/ DoAppend \/ DoReplay \/ DoConstruct

Spec == Init /\ [][Next]_vars
-----------------------------------------------------------------------------
(* Properties *)

Ladder == << "PROPOSED", "RESEARCH", "BACKTESTED", "VALIDATED", "PAPER",
             "LIVE_CANDIDATE", "LIMITED_LIVE" >>

\* No rung is skipped or repeated (docs/registry.md "Legal Transitions"): the
\* i-th record of any held history leaves the i-th rung, for the next one or for
\* retirement; only the last record may retire; and the state a caller sees is
\* where the records lead.  It must survive forks, records of other histories
\* appended to this one, damaged reads and hand-built records.
LadderClimbed ==
  \A h \in Holder :
    LET l == held[h]
        n == Len(l.transitions)
    IN  /\ \A i \in 1..n :
             LET t == l.transitions[i]
             IN  /\ i \in DOMAIN Ladder
                 /\ t.strategy_id = l.strategy_id
                 /\ t.from_state = Ladder[i]
                 /\ \/ t.to_state = "RETIRED" /\ i = n
                    \/ i + 1 \in DOMAIN Ladder /\ t.to_state = Ladder[i + 1]
        /\ \/ l.current_state = "RETIRED" /\ n > 0
           \/ n + 1 \in DOMAIN Ladder /\ l.current_state = Ladder[n + 1]

\* A strategy in PAPER or above was validated on its way there: some earlier
\* record of its own, decided no later than the one that admitted it to PAPER,
\* entered VALIDATED on a validation report, and every step from BACKTESTED on
\* carries evidence (TRADING_MANDATE.md, promotion gates).
NoPaperWithoutValidation ==
  \A h \in Holder :
    LET ts == held[h].transitions
    IN  \A p \in DOMAIN ts :
          ts[p].from_state \in {"VALIDATED", "PAPER", "LIVE_CANDIDATE", "LIMITED_LIVE"} =>
            /\ \E v \in 1..(p - 1) :
                 /\ ts[v].to_state = "VALIDATED"
                 /\ ts[v].strategy_id = held[h].strategy_id
                 /\ ts[v].decided_at <= ts[p].decided_at
                 /\ HasKind(ts[v].evidence, "validation_report")
            /\ \A q \in 3..(p - 1) : ts[q].evidence # <<>>

\* The controls of LIMITED_LIVE hold against the whole history and not only
\* against the record that carries them: the owner approved before every decision
\* from LIMITED_LIVE on, and the envelope was unexpired at every decision up to it.
ControlsCoverHistory ==
  \A h \in Holder :
    LET ts == held[h].transitions
    IN  /\ held[h].current_state = "LIMITED_LIVE"
             => \E i \in DOMAIN ts : ts[i].to_state = "LIMITED_LIVE"
        /\ \A i \in DOMAIN ts :
             ts[i].to_state = "LIMITED_LIVE" =>
               /\ ts[i].approval_record # None
               /\ ts[i].risk_envelope # None
               /\ \A j \in DOMAIN ts :
                    /\ j >= i => ts[i].approval_record.approved_at <= ts[j].decided_at
                    /\ j <= i => ts[j].decided_at < ts[i].risk_envelope.expires_at

\* Checking the whole history on every append accepts exactly what a check of the
\* new record against the last one and the identifiers in use would accept.
AppendIsIncremental ==
  \A h \in Holder :
    LET l == held[h]
        n == Len(l.transitions)
    IN  \A t \in Recorded \cup Drafts :
          LifecycleOk(Appended(l, t)) <=>
            /\ t.transition_id \notin { u.transition_id : u \in TransitionsOf(l) }
            /\ t.strategy_id = l.strategy_id
            /\ t.sequence = n + 1
            /\ t.from_state = l.current_state
            /\ n > 0 => l.transitions[n].decided_at <= t.decided_at

\* Retirement is final (docs/registry.md): no call continues a retired history,
\* whatever record it is given; a caller gets out of it only with another history.
RetiredIsFinal ==
  [][\A h \in Holder :
       LET old == held[h].transitions
           new == held'[h].transitions
       IN  held[h].current_state = "RETIRED" /\ Len(new) >= Len(old)
             => \/ new = old
                \/ SubSeq(new, 1, Len(old)) # old]_vars

NoControls == [evidence |-> <<>>, approval_record |-> None, risk_envelope |-> None]

\* Retirement is always available (tests/test_registry_lifecycle.py:254): asked to
\* retire a live strategy with an identifier its history has not used and no
\* earlier than its last decision, the registry does so.
RetirementAccepted ==
  [][\A h \in { g \in Holder : held[g].current_state # "RETIRED" } :
       LET past == TransitionsOf(held[h])
       IN  \A id \in OfferedIds(UsedIds) \ { t.transition_id : t \in past } :
             \A at \in { x \in Time : \A t \in past : t.decided_at <= x } :
               TransitionTo(h, [ transition_id |-> id, to_state |-> "RETIRED",
                                 decided_at |-> at, controls |-> NoControls ])
                 => outcome' = "ok" /\ held'[h].current_state = "RETIRED"]_vars

\* A replay that succeeds gives back a prefix of what was stored, in order and
\* under the strategy it was stored for: a record lost from the middle, repeated
\* or out of order never yields a lifecycle.  (A lost tail does.)
ReplayYieldsPrefix ==
  [][outcome' = "ok" =>
       \A h, g \in Holder, s \in Strategy :
         \A positions \in Reads(Len(held[g].transitions)) :
           Replay(h, g, s, positions) /\ positions # <<>>
             => /\ s = held[g].strategy_id
                /\ held'[h].transitions
                     = SubSeq(held[g].transitions, 1, Len(held'[h].transitions))]_vars
=============================================================================
