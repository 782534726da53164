---------------------------- MODULE AuditRecords ----------------------------
(***************************************************************************)
(* Audit events, their serialized form (AuditEvent, audit/schema.py) and   *)
(* the append-only log of them (InMemoryAuditLog, audit/log.py), as pure   *)
(* operators.  AuditLog and RegistryAudit give them processes and state.   *)
(*                                                                         *)
(* Data.  An event is its identifier, its header (actor, type, times) and  *)
(* its payload.  SHA-256 is collision free: a digest is what it digests.   *)
(***************************************************************************)
EXTENDS Integers, Sequences

CONSTANTS EventId, Header, Payload

-----------------------------------------------------------------------------
(* Events and documents *)

Event == [event_id : EventId, header : Header, payload : Payload]

Sha256(content) == <<"sha256", content>>

\* A digest field may hold any string.  hmac.compare_digest raises TypeError for one that
\* is not ASCII, and nothing catches it.
NotAscii == <<"not_ascii">>

Compared(sha, digest) ==
  IF digest = NotAscii THEN "type" ELSE IF digest # sha THEN "integrity" ELSE "ok"

\* Slip: the writer does not sort the keys.
ToJson_Unsorted(e) ==
  [ event |-> e, payload_sha |-> Sha256(e.payload),
    integrity_sha |-> Sha256(<<e, Sha256(e.payload)>>), encoding |-> "other" ]

\* AuditEvent.to_json; the event's digest covers the payload's.
ToJson(e) ==
  [ event         |-> e,
    payload_sha   |-> Sha256(e.payload),
    integrity_sha |-> Sha256(<<e, Sha256(e.payload)>>),
    encoding      |-> "canonical" ]

Document ==
  [ event         : Event,
    payload_sha   : { Sha256(p) : p \in Payload } \cup {NotAscii},
    integrity_sha : { Sha256(<<e, Sha256(e.payload)>>) : e \in Event } \cup {NotAscii},
    encoding      : {"canonical", "other", "malformed"} ]

\* Slip: the payload is verified, the event around it is not.
FromJson_PayloadOnly(doc) ==
  LET payload == Compared(Sha256(doc.event.payload), doc.payload_sha) IN
  IF doc.encoding = "malformed" THEN "validation"
  ELSE IF payload # "ok" THEN payload
  ELSE IF doc.encoding # "canonical" THEN "validation" ELSE "ok"

\* AuditEvent.from_json: the error it raises, or the document's event is read.
FromJson(doc) ==
  LET payload == Compared(Sha256(doc.event.payload), doc.payload_sha)
      event == Compared(Sha256(<<doc.event, Sha256(doc.event.payload)>>), doc.integrity_sha)
  IN  IF doc.encoding = "malformed" THEN "validation"
      ELSE IF payload # "ok" THEN payload
      ELSE IF event # "ok" THEN event
      ELSE IF doc.encoding # "canonical" THEN "validation" ELSE "ok"

-----------------------------------------------------------------------------
(* InMemoryAuditLog *)

EmptyLog == [events |-> <<>>, by_id |-> [id \in {} |-> id]]

Log == [events : Seq(Event), by_id : UNION { [ids -> Event] : ids \in SUBSET EventId }]

\* Slip: a new event is listed but not indexed.
WithEvent_NoIndex(l, e) == [l EXCEPT !.events = Append(@, e)]

\* Slip: the newest event goes first.
WithEvent_Front(l, e) ==
  [ events |-> <<e>> \o l.events,
    by_id  |-> [ id \in DOMAIN l.by_id \cup {e.event_id} |->
                   IF id = e.event_id THEN e ELSE l.by_id[id] ] ]

WithEvent(l, e) ==
  [ events |-> Append(l.events, e),
    by_id  |-> [ id \in DOMAIN l.by_id \cup {e.event_id} |->
                   IF id = e.event_id THEN e ELSE l.by_id[id] ] ]

\* Slip: an event is new whatever the index holds.
IsNew_Always(l, e) == TRUE

IsNew(l, e) == e.event_id \notin DOMAIN l.by_id

\* Slip: an identifier in use is taken for a repetition.
Accepts_KnownId(l, e) == TRUE

\* An event with an identifier in use is accepted only when it repeats the event.
Accepts(l, e) == IsNew(l, e) \/ l.by_id[e.event_id] = e

\* InMemoryAuditLog.append when it does not raise.
AfterAppend(l, e) == IF IsNew(l, e) THEN WithEvent(l, e) ELSE l

\* InMemoryAuditLog.get
Get(l, id) == { l.by_id[x] : x \in DOMAIN l.by_id \cap {id} }

EventsOf(l) == { l.events[i] : i \in DOMAIN l.events }

Indexed(l) ==
  /\ DOMAIN l.by_id = { e.event_id : e \in EventsOf(l) }
  /\ \A i \in DOMAIN l.events : l.by_id[l.events[i].event_id] = l.events[i]
  /\ \A i, j \in DOMAIN l.events : l.events[i].event_id = l.events[j].event_id => i = j
=============================================================================
