-------------------------- MODULE LifecyclePolicy --------------------------
(***************************************************************************)
(* The closed promotion policy of the strategy registry                    *)
(* (registry/lifecycle.py): which transition records may exist, and which  *)
(* sequences of them form a lifecycle.  Every definition is a pure         *)
(* operator; StrategyLifecycle gives them actors and state.                *)
(*                                                                         *)
(* Data.  A reference's schema_name is folded into its uri, a content      *)
(* digest into equality of records, and exposure fractions are integers in *)
(* units of 1/Whole.  Actors, reasons and identifier syntax are left out.  *)
(***************************************************************************)
EXTENDS Integers, Sequences

CONSTANTS None,    \* an approval record or a risk envelope that is absent
          Whole    \* an exposure fraction of one

ASSUME WholeAssumption == Whole \in Nat \ {0}

-----------------------------------------------------------------------------
(* States and the closed set of legal pairs *)

States == {"PROPOSED", "RESEARCH", "BACKTESTED", "VALIDATED", "PAPER",
           "LIVE_CANDIDATE", "LIMITED_LIVE", "RETIRED"}

PromotionTransitions ==
  { <<"RESEARCH",       "BACKTESTED">>,
    <<"BACKTESTED",     "VALIDATED">>,
    <<"VALIDATED",      "PAPER">>,
    <<"PAPER",          "LIVE_CANDIDATE">>,
    <<"LIVE_CANDIDATE", "LIMITED_LIVE">> }

\* Slip: validation may be skipped.
LegalTransitions_Jump ==
  PromotionTransitions
    \cup { <<"PROPOSED", "RESEARCH">>, <<"RESEARCH", "PAPER">> }
    \cup { <<s, "RETIRED">> : s \in States \ {"RETIRED"} }

\* Slip: a retired strategy may be researched again.
LegalTransitions_Reopen ==
  PromotionTransitions
    \cup { <<"PROPOSED", "RESEARCH">>, <<"RETIRED", "RESEARCH">> }
    \cup { <<s, "RETIRED">> : s \in States \ {"RETIRED"} }

LegalTransitions ==
  PromotionTransitions
    \cup { <<"PROPOSED", "RESEARCH">> }
    \cup { <<s, "RETIRED">> : s \in States \ {"RETIRED"} }

-----------------------------------------------------------------------------
(* Evidence, approvals and risk envelopes *)

\* What names an artifact; its digest says what the artifact contains.
EvidenceIdentity(ref) == <<ref.kind, ref.uri, ref.schema_version>>

EvidenceOk(ref) == ref.schema_version > 0

UniqueEvidence(evidence) ==
  \A i, j \in DOMAIN evidence :
    EvidenceIdentity(evidence[i]) = EvidenceIdentity(evidence[j]) => i = j

ApprovalConsistent(evidence, approval) ==
  \A i \in DOMAIN evidence :
    EvidenceIdentity(evidence[i]) = EvidenceIdentity(approval.approval_reference)
      => evidence[i].sha256 = approval.approval_reference.sha256

ApprovalOk(approval) ==
  /\ EvidenceOk(approval.approval_reference)
  /\ approval.approval_reference.kind = "owner_approval"

EnvelopeOk(envelope) ==
  LET symbols == envelope.allowed_symbols
      gross   == envelope.max_gross_exposure_fraction
      single  == envelope.max_single_position_fraction
  IN  /\ symbols # <<>>
      /\ \A i, j \in DOMAIN symbols : symbols[i] = symbols[j] => i = j
      /\ 0 < gross /\ gross <= Whole
      /\ 0 < single /\ single <= Whole
      /\ single <= gross

-----------------------------------------------------------------------------
(* One transition record *)

HasKind(evidence, kind) == \E i \in DOMAIN evidence : evidence[i].kind = kind

\* Slip: an envelope that expires at the decision still covers it.
LimitedLiveControls_ExpiryInclusive(t) ==
  /\ t.approval_record # None
  /\ t.risk_envelope # None
  /\ ApprovalConsistent(t.evidence, t.approval_record)
  /\ t.approval_record.approved_at <= t.decided_at
  /\ t.risk_envelope.expires_at >= t.decided_at

\* What LIMITED_LIVE needs at the time of the decision.
LimitedLiveControls(t) ==
  /\ t.approval_record # None
  /\ t.risk_envelope # None
  /\ ApprovalConsistent(t.evidence, t.approval_record)
  /\ t.approval_record.approved_at <= t.decided_at
  /\ t.risk_envelope.expires_at > t.decided_at

\* Slip: any evidence validates.
RequirementsOk_AnyEvidence(t) ==
  LET step == <<t.from_state, t.to_state>>
  IN  /\ step \in LegalTransitions
      /\ step \in PromotionTransitions => t.evidence # <<>>
      /\ IF t.to_state = "LIMITED_LIVE"
           THEN LimitedLiveControls(t)
           ELSE t.approval_record = None /\ t.risk_envelope = None

RequirementsOk(t) ==
  LET step == <<t.from_state, t.to_state>>
  IN  /\ step \in LegalTransitions
      /\ step \in PromotionTransitions => t.evidence # <<>>
      /\ step = <<"BACKTESTED", "VALIDATED">>
           => HasKind(t.evidence, "validation_report")
      /\ IF t.to_state = "LIMITED_LIVE"
           THEN LimitedLiveControls(t)
           ELSE t.approval_record = None /\ t.risk_envelope = None

\* The records StrategyLifecycleTransition, and the classes of the values it
\* holds, can be constructed with.
TransitionOk(t) ==
  /\ t.sequence > 0
  /\ \A i \in DOMAIN t.evidence : EvidenceOk(t.evidence[i])
  /\ UniqueEvidence(t.evidence)
  /\ t.approval_record # None => ApprovalOk(t.approval_record)
  /\ t.risk_envelope # None => EnvelopeOk(t.risk_envelope)
  /\ RequirementsOk(t)

-----------------------------------------------------------------------------
(* A history: one loop over the records in the code, one part per check here *)

\* Slip: an identifier is compared with its neighbour's only.
UniqueIds_Adjacent(ts) ==
  \A i \in DOMAIN ts : i > 1 => ts[i - 1].transition_id # ts[i].transition_id

UniqueIds(ts) ==
  \A i, j \in DOMAIN ts : ts[i].transition_id = ts[j].transition_id => i = j

OwnedBy(strategy, ts) == \A i \in DOMAIN ts : ts[i].strategy_id = strategy

Sequenced(ts) == \A i \in DOMAIN ts : ts[i].sequence = i

Chained(ts) ==
  \A i \in DOMAIN ts :
    ts[i].from_state = IF i = 1 THEN "PROPOSED" ELSE ts[i - 1].to_state

\* Slip: two decisions at one instant are refused.
Chronological_Strict(ts) ==
  \A i \in DOMAIN ts : i > 1 => ts[i - 1].decided_at < ts[i].decided_at

Chronological(ts) ==
  \A i \in DOMAIN ts : i > 1 => ts[i - 1].decided_at <= ts[i].decided_at

\* Slip: the decision times are taken for the order of the records.
HistoryOk_ByTime(strategy, ts) ==
  UniqueIds(ts) /\ OwnedBy(strategy, ts) /\ Chronological(ts)

HistoryOk(strategy, ts) ==
  /\ UniqueIds(ts)
  /\ OwnedBy(strategy, ts)
  /\ Sequenced(ts)
  /\ Chained(ts)
  /\ Chronological(ts)

FinalState(ts) == IF ts = <<>> THEN "PROPOSED" ELSE ts[Len(ts)].to_state

\* The values StrategyLifecycle can be constructed with.
LifecycleOk(l) ==
  /\ HistoryOk(l.strategy_id, l.transitions)
  /\ l.current_state = FinalState(l.transitions)
=============================================================================
