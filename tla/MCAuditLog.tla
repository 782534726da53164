----------------------------- MODULE MCAuditLog -----------------------------
(***************************************************************************)
(* Two identifiers, so that events are reordered and identifiers clash,    *)
(* and two headers and payloads, so that each digest has a mismatch of its *)
(* own to find.                                                            *)
(***************************************************************************)
EXTENDS AuditLog

MCForeign == { [event_id |-> CHOOSE id \in EventId : TRUE,
                header   |-> CHOOSE h \in Header : TRUE,
                payload  |-> CHOOSE p \in Payload : TRUE] }
=============================================================================
