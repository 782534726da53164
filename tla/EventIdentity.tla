--------------------------- MODULE EventIdentity ---------------------------
(***************************************************************************)
(* When the audit log takes two events for the same (audit/log.py): append *)
(* compares them as dataclasses, with their datetimes, while storage keeps *)
(* their texts.  AuditLog identifies an event with its content; this       *)
(* module is about what that leaves out.                                   *)
(***************************************************************************)
EXTENDS Datetimes, Sequences

CONSTANTS EventId, Payload,   \* what tells events apart besides their time
          Wall                \* the wall times that callers use

ASSUME WallAssumption == Wall \subseteq Int

VARIABLES log,      \* the events of the log, in order
          saved,    \* what serialize() returned last
          last       \* the last append: the event, the one that it met, the answer

vars == <<log, saved, last>>

Event == [event_id : EventId, occurred_at : Datetimes(Wall), payload : Payload]
None == [event_id |-> "none"]

\* AuditEvent.to_json: the offset is 0, and the text names the moment.
ToJson(e) == [event_id |-> e.event_id, occurred_at |-> Moment(e.occurred_at), payload |-> e.payload]

\* AuditEvent.from_json of a text that is intact
FromJson(text) ==
  [event_id |-> text.event_id, occurred_at |-> Utc(text.occurred_at), payload |-> text.payload]

\* Slip: the time is no part of the comparison.
EqualEvents_AnyTime(c, d) == c.event_id = d.event_id /\ c.payload = d.payload

\* Slip: datetimes are compared by what they are made of.
EqualEvents_Fields(c, d) == c = d

\* c == d.  The digest that is compared as well is that of the text; ConflictsAreRefused
\* says that the other fields decide it.
EqualEvents(c, d) ==
  /\ c.event_id = d.event_id /\ c.payload = d.payload
  /\ EqualTimes(c.occurred_at, d.occurred_at)

Init ==
  /\ log = <<>> /\ saved = <<>>
  /\ last = [event |-> None, existing |-> None, answer |-> "none"]

\* AuditEvent.__post_init__ refuses the time.
Rejects(d) == ~IsUtc(d)

Answer(e, existing, answer) == last' = [event |-> e, existing |-> existing, answer |-> answer]

\* AuditEvent(...), then append
AppendEvent(e) ==
  /\ \/ Rejects(e.occurred_at) /\ Answer(e, None, "validation") /\ UNCHANGED log
     \/ /\ ~Rejects(e.occurred_at) /\ \A i \in DOMAIN log : log[i].event_id # e.event_id
        /\ log' = Append(log, e) /\ Answer(e, None, "ok")
     \/ \E i \in DOMAIN log :
          /\ ~Rejects(e.occurred_at) /\ log[i].event_id = e.event_id
          /\ Answer(e, log[i], IF EqualEvents(log[i], e) THEN "ok" ELSE "integrity")
          /\ UNCHANGED log
  /\ UNCHANGED saved

Serialize == saved' = [i \in DOMAIN log |-> ToJson(log[i])] /\ UNCHANGED <<log, last>>

\* The process stops, and the next one replays what was saved.
Restart == log' = [i \in DOMAIN saved |-> FromJson(saved[i])] /\ UNCHANGED <<saved, last>>

DoAppend == \E e \in Event : AppendEvent(e)

Next == DoAppend \/ Serialize \/ Restart

Spec == Init /\ [][Next]_vars

-----------------------------------------------------------------------------
(* Properties *)

Met == last.existing # None

\* Type invariant; every event of the log is at offset 0, before and after a restart.
TypeOK ==
  /\ \A i \in DOMAIN log :
       /\ log[i] \in [event_id : EventId, occurred_at : [zone : Zone, wall : Int, fold : {0, 1}], payload : Payload]
       /\ IsUtc(log[i].occurred_at)
  /\ \A i \in DOMAIN saved : saved[i] \in [event_id : EventId, occurred_at : Int, payload : Payload]
  /\ last.answer \in {"none", "ok", "validation", "integrity"}

\* docs/audit.md: "Replaying the same event ID with different content raises
\* AuditIntegrityError", however the datetimes are expressed and although a process
\* may have stopped between the two appends.
ConflictsAreRefused ==
  Met /\ last.answer = "ok" => ToJson(last.event) = ToJson(last.existing)

\* The converse, with its exception: an event whose text is the one in the log is
\* refused only if it was in a skipped or repeated hour of another zone.
RefusalsAreConflicts ==
  Met /\ last.answer = "integrity" =>
    \/ ToJson(last.event) # ToJson(last.existing)
    \/ /\ last.event.occurred_at.zone # last.existing.occurred_at.zone
       /\ DependsOnFold(last.event.occurred_at) \/ DependsOnFold(last.existing.occurred_at)

\* docs/audit.md: "Replaying the same event ID with identical content is idempotent",
\* without that exception.
RepetitionIsAccepted ==
  Met /\ ToJson(last.event) = ToJson(last.existing) => last.answer = "ok"
=============================================================================
