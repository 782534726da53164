---------------------- MODULE MCStrategyLifecycleForks ----------------------
(***************************************************************************)
(* Two callers and two strategies: stale values, forks of one history,     *)
(* records of one history appended to another, and damaged replays.  The   *)
(* identifiers bound how long a history grows: they are all a caller has.  *)
(* Callers, strategies and identifiers are interchangeable.                *)
(***************************************************************************)
EXTENDS StrategyLifecycle, TLC

AllIds(used) == TransitionId

MCTime == 1..2

Report == [kind |-> "validation_report", uri |-> "u", schema_version |-> 1, sha256 |-> "d1"]

ForkControls ==
  { [evidence |-> <<Report>>, approval_record |-> None, risk_envelope |-> None] }

ForkDrafts == {}

Symmetry ==
  Permutations(Holder) \cup Permutations(Strategy) \cup Permutations(TransitionId)
=============================================================================
