------------------------ MODULE MCStrategyLifecycle ------------------------
(***************************************************************************)
(* One caller climbs the whole ladder, offered good and bad controls at    *)
(* every step.  Identifiers are numbers handed out in order, so histories  *)
(* that differ only in the names of fresh identifiers are not told apart.  *)
(***************************************************************************)
EXTENDS StrategyLifecycle

MCTransitionId == 1..8

\* Identifiers are supplied in order: the next fresh one, or the history's first
\* or latest again.
MCOfferedIds(used) ==
  { n \in MCTransitionId : \/ n \notin used /\ \A m \in MCTransitionId \ used : n <= m
                           \/ n \in used /\ \A m \in used : m <= n
                           \/ n \in used /\ \A m \in used : n <= m }

MCTime == 1..2

Ref(kind, uri, sha) == [kind |-> kind, uri |-> uri, schema_version |-> 1, sha256 |-> sha]

Report   == Ref("validation_report", "u", "d1")
Backtest == Ref("backtest_report", "u", "d1")
Owner(sha) == Ref("owner_approval", "v", sha)

Bundle(evidence, approval, envelope) ==
  [evidence |-> evidence, approval_record |-> approval, risk_envelope |-> envelope]

Approval(ref, at) == [approved_at |-> at, approval_reference |-> ref]

Envelope(symbols, gross, single, expiry) ==
  [ allowed_symbols |-> symbols, max_gross_exposure_fraction |-> gross,
    max_single_position_fraction |-> single, expires_at |-> expiry ]

GoodApproval == Approval(Owner("d1"), 1)
GoodEnvelope == Envelope(<<"A", "B">>, Whole, 1, 3)

\* Evidence with no live controls, then LIMITED_LIVE controls: complete ones that
\* differ in their times, and ones with a single thing wrong.
MCControls ==
  { Bundle(e, None, None) : e \in { <<>>, <<Backtest>>, <<Report>>,
                                    <<Backtest, [Backtest EXCEPT !.sha256 = "d2"]>>,
                                    <<[Report EXCEPT !.schema_version = 0]>> } }
    \cup { Bundle(<<Backtest>>, Approval(Owner("d1"), at),
                  Envelope(<<"A", "B">>, Whole, 1, at + 1)) : at \in 1..2 }
    \cup { Bundle(<<Owner("d2")>>, GoodApproval, GoodEnvelope),
           Bundle(<<Owner("d1")>>, GoodApproval, GoodEnvelope),
           Bundle(<<>>, GoodApproval, GoodEnvelope),
           Bundle(<<Report>>, None, GoodEnvelope),
           Bundle(<<Report>>, GoodApproval, None),
           Bundle(<<Report>>, Approval(Report, 1), GoodEnvelope) }
    \cup { Bundle(<<Report>>, GoodApproval, e) :
             e \in { Envelope(<<>>, 1, 1, 3), Envelope(<<"A", "A">>, 1, 1, 3),
                     Envelope(<<"A">>, 1, Whole, 3), Envelope(<<"A">>, Whole + 1, 1, 3),
                     Envelope(<<"A">>, Whole, 0, 3) } }

Draft(id, strategy, seq, from, to, at) ==
  [ transition_id |-> id, strategy_id |-> strategy, sequence |-> seq, from_state |-> from,
    to_state |-> to, decided_at |-> at, evidence |-> <<Report>>,
    approval_record |-> None, risk_envelope |-> None ]

\* Hand-built records: right and wrong sequence numbers, times and owners of one
\* legal step, the first identifier taken again, and a jump.
MCDrafts ==
  { Draft(id, s, seq, "PAPER", "LIVE_CANDIDATE", at) :
      id \in {1, 5}, s \in Strategy, seq \in 4..6, at \in MCTime }
    \cup { Draft(8, s, 2, "RESEARCH", "VALIDATED", 2) : s \in Strategy }
=============================================================================
