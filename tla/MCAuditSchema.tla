--------------------------- MODULE MCAuditSchema ---------------------------
(***************************************************************************)
(* The audit event schema: datetimes in EventIdentity, payloads in         *)
(* AuditPayload with the values and texts of MCAuditPayload.  They share   *)
(* no state, so that a behaviour is of one of them.                        *)
(***************************************************************************)
EXTENDS EventIdentity, MCAuditPayload

VARIABLE part

schemaVars == <<vars, payloadVars, part>>

SchemaInit == Init /\ PayloadInit /\ part \in {"datetimes", "payloads"}

SchemaNext ==
  /\ UNCHANGED part
  /\ \/ part = "datetimes" /\ Next /\ UNCHANGED payloadVars
     \/ part = "payloads" /\ PayloadNext /\ UNCHANGED vars

SchemaSpec == SchemaInit /\ [][SchemaNext]_schemaVars
=============================================================================
