-------------------------- MODULE MCRegistryAudit --------------------------
(***************************************************************************)
(* Two callers, of one strategy or of two that share three identifiers, two *)
(* headers, and evidence whose schema version fits a payload or does not.  *)
(***************************************************************************)
EXTENDS RegistryAudit, TLC

MCTransitionId == 1..3

\* The next fresh identifier, and the first one in use again.
MCOfferedIds(used) ==
  { n \in MCTransitionId : \/ n \notin used /\ \A m \in MCTransitionId \ used : n <= m
                           \/ n \in used /\ \A m \in used : n <= m }

MCTime == {1}

Report(version) ==
  [kind |-> "validation_report", uri |-> "u", schema_version |-> version, sha256 |-> "d1"]

MCControls ==
  { [evidence |-> <<Report(v)>>, approval_record |-> None, risk_envelope |-> None] :
      v \in {1, MaxJsonInteger + 1} }

MCDrafts == {}

Symmetry ==
  Permutations(Holder) \cup Permutations(Strategy) \cup Permutations(Header)
=============================================================================
