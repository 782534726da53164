------------------------------ MODULE AuditLog ------------------------------
(***************************************************************************)
(* The life of an audit trail: InMemoryAuditLog (audit/log.py) in a        *)
(* process, and the serialized events outside it.                          *)
(*                                                                         *)
(* A process appends events to a log in memory and saves what serialize()  *)
(* returns.  It may crash, losing the log; the next process rebuilds it    *)
(* with replay() from the saved documents, which storage may have damaged  *)
(* in the meantime.  Storage and the processes are outside the package,    *)
(* whose documentation (docs/audit.md) says what they may rely on.         *)
(***************************************************************************)
EXTENDS AuditRecords

CONSTANTS Foreign,       \* valid events of other logs that storage may mix in
          MaxFaults,     \* bound on damage to storage
          MaxCrashes     \* bound on crashes

ASSUME AuditAssumption ==
  /\ Foreign \subseteq [event_id : EventId, header : Header, payload : Payload]
  /\ MaxFaults \in Nat /\ MaxCrashes \in Nat

VARIABLES log,        \* the log in memory, a list and an index
          mode,       \* "up", "down", "replaying" or "halted"
          position,   \* the next document replay() reads
          outcome,    \* of the last append or replay: "ok" or the error's class
          storage,    \* the saved documents
          faults, crashes,
          genuine,    \* history: every event an append has accepted
          acked,      \* history: events this process's appends returned
          saved,      \* history: the events storage was saved from
          damaged     \* history: whether storage was damaged since

vars ==
  <<log, mode, position, outcome, storage, faults, crashes, genuine, acked, saved, damaged>>

-----------------------------------------------------------------------------
(* The process that owns the log *)

Init ==
  /\ log = EmptyLog
  /\ mode = "up"
  /\ position = 1
  /\ outcome = "ok"
  /\ storage = <<>>
  /\ faults = 0 /\ crashes = 0
  /\ genuine = {} /\ acked = {}
  /\ saved = <<>> /\ damaged = FALSE

AppendEvent(e) ==
  /\ mode = "up"
  /\ IF Accepts(log, e)
       THEN /\ outcome' = "ok"
            /\ log' = AfterAppend(log, e)
            /\ genuine' = genuine \cup {e}
            /\ acked' = acked \cup {e}
       ELSE /\ outcome' = "integrity"
            /\ UNCHANGED <<log, genuine, acked>>
  /\ UNCHANGED <<mode, position, storage, faults, crashes, saved, damaged>>

\* The owner of the log saves what serialize() returns.
Save ==
  /\ mode = "up"
  /\ storage' = [i \in DOMAIN log.events |-> ToJson(log.events[i])]
  /\ saved' = log.events /\ damaged' = FALSE
  /\ outcome' = "ok"
  /\ UNCHANGED <<log, mode, position, faults, crashes, genuine, acked>>

Crash ==
  /\ mode # "down"
  /\ crashes < MaxCrashes
  /\ crashes' = crashes + 1
  /\ mode' = "down"
  /\ log' = EmptyLog
  /\ acked' = {}
  /\ position' = 1
  /\ outcome' = "ok"
  /\ UNCHANGED <<storage, faults, genuine, saved, damaged>>

\* A new process, or the same one again after replay() has raised.
StartReplay ==
  /\ mode \in {"down", "halted"}
  /\ mode' = "replaying"
  /\ outcome' = "ok"
  /\ UNCHANGED <<log, position, storage, faults, crashes, genuine, acked, saved, damaged>>

\* Slip: documents that do not verify are skipped.
ReplayStep_Skip ==
  /\ mode = "replaying"
  /\ position <= Len(storage)
  /\ LET doc == storage[position]
     IN  IF FromJson(doc) = "ok" /\ Accepts(log, doc.event)
           THEN log' = AfterAppend(log, doc.event)
           ELSE UNCHANGED log
  /\ position' = position + 1
  /\ UNCHANGED <<mode, outcome, storage, faults, crashes, genuine, acked, saved, damaged>>

\* One turn of replay()'s loop.  An error leaves the caller without a log.
ReplayStep ==
  /\ mode = "replaying"
  /\ position <= Len(storage)
  /\ LET doc == storage[position]
     IN  IF FromJson(doc) = "ok" /\ Accepts(log, doc.event)
           THEN /\ log' = AfterAppend(log, doc.event)
                /\ position' = position + 1
                /\ UNCHANGED <<mode, outcome>>
           ELSE /\ log' = EmptyLog
                /\ position' = 1
                /\ mode' = "halted"
                /\ outcome' = IF FromJson(doc) = "ok" THEN "integrity" ELSE FromJson(doc)
  /\ UNCHANGED <<storage, faults, crashes, genuine, acked, saved, damaged>>

ReplayDone ==
  /\ mode = "replaying"
  /\ position > Len(storage)
  /\ mode' = "up"
  /\ position' = 1
  /\ UNCHANGED <<log, outcome, storage, faults, crashes, genuine, acked, saved, damaged>>

-----------------------------------------------------------------------------
(* Damage to storage, while nothing reads it *)

\* What a document may turn into: other content with the digests left as they
\* were or only the payload's recomputed, a digest that is not ASCII, or other bytes
\* for the same content.
\* With both recomputed it is the document of another event: see Foreign.
Damaged(doc) ==
  { [doc EXCEPT !.event = e] : e \in Event \ {doc.event} }
    \cup { [doc EXCEPT !.event = e, !.payload_sha = Sha256(e.payload)] :
             e \in Event \ {doc.event} }
    \cup { [doc EXCEPT !.payload_sha = NotAscii], [doc EXCEPT !.integrity_sha = NotAscii] }
    \cup { [doc EXCEPT !.encoding = x] : x \in {"other", "malformed"} }

\* A document damaged, replaced by a foreign one, lost, repeated, or moved.
Damage ==
  /\ mode # "replaying"
  /\ faults < MaxFaults
  /\ faults' = faults + 1 /\ damaged' = TRUE
  /\ outcome' = "ok"
  /\ \E k \in DOMAIN storage :
       \/ \E doc \in Damaged(storage[k]) : storage' = [storage EXCEPT ![k] = doc]
       \/ \E e \in Foreign : storage' = [storage EXCEPT ![k] = ToJson(e)]
       \/ storage' = SubSeq(storage, 1, k - 1) \o SubSeq(storage, k + 1, Len(storage))
       \/ storage' = Append(storage, storage[k])
       \/ /\ k < Len(storage)
          /\ storage' = [storage EXCEPT ![k] = storage[k + 1], ![k + 1] = storage[k]]
  /\ UNCHANGED <<log, mode, position, crashes, genuine, acked, saved>>

-----------------------------------------------------------------------------

DoAppend == \E e \in Event : AppendEvent(e)

Next ==
  DoAppend \/ Save \/ Crash \/ StartReplay \/ ReplayStep \/ ReplayDone \/ Damage

Spec == Init /\ [][Next]_vars

\* replay() runs to its end or its error once it has begun; nothing else is fair.
FairSpec == Spec /\ WF_vars(ReplayStep) /\ WF_vars(ReplayDone)

-----------------------------------------------------------------------------
(* Properties *)

\* Type invariant; replay never reads past the end of what was saved, and only a
\* process that is replaying is past its beginning.
TypeOK ==
  /\ log \in Log
  /\ mode \in {"up", "down", "replaying", "halted"}
  /\ position \in 1..(Len(storage) + 1)
  /\ outcome \in {"ok", "integrity", "validation", "type"}
  /\ storage \in Seq(Document)
  /\ faults \in 0..MaxFaults
  /\ crashes \in 0..MaxCrashes
  /\ genuine \in SUBSET Event
  /\ acked \in SUBSET Event
  /\ saved \in Seq(Event)
  /\ damaged \in BOOLEAN

\* The list and the index of a log are two views of the same events (log.py): the
\* index has every listed event under its identifier and nothing else, and so no
\* identifier is listed twice, also while a log is being rebuilt.
IndexAgrees == Indexed(log)

\* An event that append() returned is in the log and under its identifier for as
\* long as the process lives, however often it or another event is submitted
\* under that identifier (docs/audit.md "Ordering and idempotency").
AckedIsKept ==
  \A e \in acked : e \in EventsOf(log) /\ Get(log, e.event_id) = {e}

\* Tamper evidence: a log in use holds no event that some process did not append,
\* but for complete events of other logs (docs/audit.md: a digest is not identity).
LogIsGenuine == mode = "up" => EventsOf(log) \subseteq genuine \cup Foreign

\* As long as nothing damages what was saved, a log in use begins with it: neither
\* later appends nor a crash and a replay rewrite or reorder history.
SavedSurvives ==
  mode = "up" /\ ~damaged =>
    /\ Len(saved) <= Len(log.events)
    /\ \A i \in DOMAIN saved : log.events[i] = saved[i]

\* A replay that ends without an error has skipped nothing: every document is the
\* canonical form of a listed event, every listed event has a document, and events
\* are listed in the order of their first documents (docs/audit.md "Replay").
ReplayIsComplete ==
  [][mode = "replaying" /\ mode' = "up" =>
       /\ \A i \in DOMAIN storage : \E k \in DOMAIN log.events :
            storage[i] = ToJson(log.events[k])
       /\ \A k \in DOMAIN log.events : \E i \in DOMAIN storage :
            /\ storage[i] = ToJson(log.events[k])
            /\ \A j \in 1..(i - 1) : \E m \in 1..(k - 1) :
                 storage[j] = ToJson(log.events[m])]_vars

\* Recovery: a replay of an intact file ends with the log that was saved, unless
\* the process crashes again.
RecoveryRestores ==
  (mode = "replaying" /\ ~damaged) ~> (mode = "up" /\ log.events = saved) \/ mode = "down"

\* The abstract ledger this log implements: readers see a ledger while a process
\* is up, and none while it is down or in the middle of a replay.
Ledger ==
  INSTANCE EventLedger WITH
    ledger   <- IF mode = "up" THEN log.events ELSE <<>>,
    open     <- mode = "up",
    copy     <- saved,
    spoiled  <- damaged,
    recorded <- genuine

\* The log implements the ledger: whatever append(), serialize() and replay() do,
\* and wherever a crash or damage falls between or within them, readers see
\* nothing an append-only ledger without repetition would not have shown.
ImplementsLedger == Ledger!Spec
=============================================================================
