--------------------------- MODULE LifecycleTrail ---------------------------
(***************************************************************************)
(* How transitions get into an audit trail and lifecycles out of it:       *)
(* to_audit_event (registry/lifecycle.py) renders a transition, and a      *)
(* caller finds the records of a strategy again among the events.          *)
(*                                                                         *)
(* An event is recorded under its transition's identifier, and its payload *)
(* is the transition.  The header is what a caller may choose anew.        *)
(***************************************************************************)
EXTENDS StrategyLifecycle

CONSTANTS Header,          \* actors and correlation identifiers of events
          MaxJsonInteger   \* the largest integer a payload may hold

Trail == INSTANCE AuditRecords WITH EventId <- TransitionId, Payload <- Transition

-----------------------------------------------------------------------------
(* Rendering a transition *)

\* The digest of a transition covers any schema version that is positive; a
\* payload holds signed 64-bit integers only.
RenderOk(t) ==
  LET fits(ref) == ref.schema_version <= MaxJsonInteger
  IN  /\ \A i \in DOMAIN t.evidence : fits(t.evidence[i])
      /\ t.approval_record # None => fits(t.approval_record.approval_reference)

\* StrategyLifecycleTransition.to_audit_event, when it does not raise
ToAuditEvent(t, header) == [event_id |-> t.transition_id, header |-> header, payload |-> t]

\* The transitions of a strategy among the first n events of a trail, in its order.
Found(events, s) ==
  LET found[n \in 0..Len(events)] ==
        IF n = 0 THEN <<>>
        ELSE IF events[n].payload.strategy_id = s
          THEN Append(found[n - 1], events[n].payload)
          ELSE found[n - 1]
  IN  found

TransitionsIn(events, s) == Found(events, s)[Len(events)]

\* The log that replaying the saved events of a log gives back.
LogOf(events) ==
  [ events |-> events,
    by_id  |-> [ id \in { events[i].event_id : i \in DOMAIN events } |->
                   CHOOSE e \in { events[i] : i \in DOMAIN events } : e.event_id = id ] ]
=============================================================================
