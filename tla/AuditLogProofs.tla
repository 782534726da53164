--------------------------- MODULE AuditLogProofs ---------------------------
(***************************************************************************)
(* Theorems about AuditLog, for any sets of events and any bounds on       *)
(* crashes and on damage to storage.                                       *)
(***************************************************************************)
EXTENDS AuditLog, SequenceTheorems, TLAPS

-----------------------------------------------------------------------------
(* Logs and documents *)

\* A new log is consistent and has no events.
LEMMA EmptyLogOk == EmptyLog \in Log /\ Indexed(EmptyLog) /\ EventsOf(EmptyLog) = {}
<1>1. EmptyLog.events = <<>> /\ DOMAIN EmptyLog.by_id = {}
  BY DEF EmptyLog
<1>2. EventsOf(EmptyLog) = {}
  BY <1>1 DEF EventsOf
<1>3. Indexed(EmptyLog)
  BY <1>1, <1>2 DEF Indexed
<1>4. EmptyLog.by_id \in [{} -> Event] /\ {} \in SUBSET EventId
  BY DEF EmptyLog
<1>5. EmptyLog \in Log
  BY <1>4 DEF EmptyLog, Log
<1> QED BY <1>2, <1>3, <1>5

\* A document that verifies is the canonical form of its event, and no other.
LEMMA VerifiedIsCanonical ==
  ASSUME NEW doc \in Document, FromJson(doc) = "ok"
  PROVE  doc = ToJson(doc.event)
<1>1. /\ doc.payload_sha = Sha256(doc.event.payload)
      /\ doc.integrity_sha = Sha256(<<doc.event, Sha256(doc.event.payload)>>)
      /\ doc.encoding = "canonical"
  BY DEF FromJson, Compared
<1> QED BY <1>1 DEF Document, ToJson

\* The canonical form of an event is a document that verifies.
LEMMA CanonicalType ==
  ASSUME NEW e \in Event
  PROVE  /\ ToJson(e) \in Document
         /\ ToJson(e).event = e
         /\ ToJson(e).integrity_sha = Sha256(<<e, Sha256(e.payload)>>)
         /\ FromJson(ToJson(e)) = "ok"
<1>1. ToJson(e) \in Document
  BY DEF ToJson, Document, Event
<1>2. /\ ToJson(e).event = e
      /\ ToJson(e).payload_sha = Sha256(e.payload)
      /\ ToJson(e).integrity_sha = Sha256(<<e, Sha256(e.payload)>>)
      /\ ToJson(e).encoding = "canonical"
  BY DEF ToJson
<1>3. NotAscii # Sha256(e.payload) /\ NotAscii # Sha256(<<e, Sha256(e.payload)>>)
  BY DEF NotAscii, Sha256
<1>4. FromJson(ToJson(e)) = "ok"
  BY <1>2, <1>3 DEF FromJson, Compared
<1> QED BY <1>1, <1>2, <1>4

\* What append() does to a consistent log: the events it had keep their places,
\* and a new event, if it is one, goes after them.
LEMMA AppendOk ==
  ASSUME NEW l \in Log, Indexed(l), NEW e \in Event, Accepts(l, e)
  PROVE  LET m == AfterAppend(l, e)
         IN  /\ m \in Log
             /\ Indexed(m)
             /\ EventsOf(m) = EventsOf(l) \cup {e}
             /\ \/ m = l /\ e \in EventsOf(l)
                \/ m.events = Append(l.events, e) /\ e.event_id \notin DOMAIN l.by_id
<1> DEFINE m == AfterAppend(l, e)
           n == Len(l.events)
<1>0. /\ l.events \in Seq(Event) /\ n \in Nat /\ DOMAIN l.events = 1..n
      /\ l.by_id \in UNION { [ids -> Event] : ids \in SUBSET EventId }
  BY DEF Log
<1>1. PICK ids \in SUBSET EventId : l.by_id \in [ids -> Event]
  BY <1>0
<1>2. CASE ~IsNew(l, e)
  <2>1. m = l
    BY <1>2 DEF AfterAppend
  <2>2. e.event_id \in DOMAIN l.by_id /\ l.by_id[e.event_id] = e
    BY <1>2 DEF IsNew, Accepts
  <2>3. PICK f \in EventsOf(l) : f.event_id = e.event_id
    BY <2>2 DEF Indexed
  <2>4. PICK i \in DOMAIN l.events : l.events[i] = f
    BY <2>3 DEF EventsOf
  <2>5. f = e
    BY <2>2, <2>3, <2>4 DEF Indexed
  <2> QED BY <2>1, <2>3, <2>5
<1>3. CASE IsNew(l, e)
  <2>1. /\ m.events = Append(l.events, e)
        /\ m.by_id = [ id \in DOMAIN l.by_id \cup {e.event_id} |->
                         IF id = e.event_id THEN e ELSE l.by_id[id] ]
        /\ m = [events |-> m.events, by_id |-> m.by_id]
    BY <1>3 DEF AfterAppend, WithEvent
  <2>2. e.event_id \in EventId
    BY DEF Event
  <2>3. m.by_id \in [ids \cup {e.event_id} -> Event] /\ ids \cup {e.event_id} \in SUBSET EventId
    BY <1>1, <2>1, <2>2
  <2>4. m \in Log
    <3>1. m.events \in Seq(Event)
      BY <1>0, <2>1
    <3>2. m.by_id \in UNION { [x -> Event] : x \in SUBSET EventId }
      BY <2>3
    <3> QED BY <2>1, <3>1, <3>2 DEF Log
  <2>5. /\ DOMAIN m.events = 1..(n + 1)
        /\ \A i \in 1..n : m.events[i] = l.events[i]
        /\ m.events[n + 1] = e
        /\ \A i \in 1..(n + 1) : i \in 1..n \/ i = n + 1
        /\ \A i \in 1..n : i \in 1..(n + 1)
        /\ n + 1 \in 1..(n + 1)
    BY <1>0, <2>1
  <2>6. EventsOf(m) = EventsOf(l) \cup {e}
    BY <1>0, <2>5 DEF EventsOf
  <2>7. e.event_id \notin DOMAIN l.by_id
    BY <1>3 DEF IsNew
  <2>8. \A i \in 1..n : l.events[i].event_id # e.event_id
    BY <1>0, <2>7 DEF Indexed, EventsOf
  <2>9. Indexed(m)
    <3>1. DOMAIN m.by_id = { f.event_id : f \in EventsOf(m) }
      <4>1. DOMAIN m.by_id = DOMAIN l.by_id \cup {e.event_id}
        BY <2>1
      <4>2. DOMAIN l.by_id = { f.event_id : f \in EventsOf(l) }
        BY DEF Indexed
      <4> QED BY <2>6, <4>1, <4>2
    <3>2. ASSUME NEW i \in DOMAIN m.events
          PROVE  m.by_id[m.events[i].event_id] = m.events[i]
      <4>1. CASE i \in 1..n
        <5>1. l.events[i].event_id \in DOMAIN l.by_id
          BY <1>0, <4>1 DEF Indexed, EventsOf
        <5>2. l.by_id[l.events[i].event_id] = l.events[i]
          BY <1>0, <4>1 DEF Indexed
        <5> QED BY <2>1, <2>5, <2>8, <4>1, <5>1, <5>2
      <4>2. CASE i = n + 1
        BY <2>1, <2>5, <4>2
      <4> QED BY <2>5, <3>2, <4>1, <4>2
    <3>3. ASSUME NEW i \in DOMAIN m.events, NEW j \in DOMAIN m.events,
                 m.events[i].event_id = m.events[j].event_id
          PROVE  i = j
      <4>1. CASE i \in 1..n /\ j \in 1..n
        BY <1>0, <2>5, <3>3, <4>1 DEF Indexed
      <4>2. CASE i = n + 1 /\ j \in 1..n
        BY <2>5, <2>8, <3>3, <4>2
      <4>3. CASE i \in 1..n /\ j = n + 1
        BY <2>5, <2>8, <3>3, <4>3
      <4> QED BY <2>5, <3>3, <4>1, <4>2, <4>3
    <3> QED BY <3>1, <3>2, <3>3 DEF Indexed
  <2> QED BY <2>1, <2>4, <2>6, <2>7, <2>9
<1> QED BY <1>2, <1>3

-----------------------------------------------------------------------------
(* The inductive invariant *)

\* Only a process that is up has acknowledged anything; only one that is
\* replaying is past the first document; one that has no log has an empty one.
Idle ==
  /\ mode \in {"down", "halted"} => log = EmptyLog
  /\ mode # "up" => acked = {}
  /\ mode # "replaying" => position = 1

Acknowledged == acked \subseteq EventsOf(log)

\* Storage may alter content, but every event digest in it that is one is that of an
\* event that was appended, here or in another log.
Provenance ==
  /\ EventsOf(log) \subseteq genuine \cup Foreign
  /\ \A k \in DOMAIN storage :
       \/ storage[k].integrity_sha = NotAscii
       \/ \E e \in genuine \cup Foreign :
            storage[k].integrity_sha = Sha256(<<e, Sha256(e.payload)>>)

\* Undamaged storage is the saved events, which a log in use begins with and a
\* replay has rebuilt up to its position.
Saved ==
  /\ \A i, j \in DOMAIN saved : saved[i].event_id = saved[j].event_id => i = j
  /\ ~damaged =>
       /\ Len(storage) = Len(saved)
       /\ \A i \in DOMAIN saved : storage[i] = ToJson(saved[i])
       /\ mode = "up" => /\ Len(saved) <= Len(log.events)
                         /\ \A i \in DOMAIN saved : log.events[i] = saved[i]
       /\ mode = "replaying" =>
            /\ Len(log.events) = position - 1
            /\ \A i \in 1..(position - 1) : log.events[i] = saved[i]

\* The log under construction and the documents read so far are the same events.
Rebuilt ==
  mode = "replaying" =>
    /\ \A i \in 1..(position - 1) : \E k \in DOMAIN log.events :
         storage[i] = ToJson(log.events[k])
    /\ \A k \in DOMAIN log.events : \E i \in 1..(position - 1) :
         /\ storage[i] = ToJson(log.events[k])
         /\ \A j \in 1..(i - 1) : \E m \in 1..(k - 1) :
              storage[j] = ToJson(log.events[m])

IInv ==
  TypeOK /\ IndexAgrees /\ Idle /\ Acknowledged /\ Provenance /\ Saved /\ Rebuilt

\* The inductive invariant holds of an empty log and empty storage.
THEOREM InitInv == Init => IInv
<1> SUFFICES ASSUME Init PROVE IInv
  OBVIOUS
<1>1. TypeOK
  <2>1. log \in Log /\ saved \in Seq(Event) /\ storage \in Seq(Document)
    BY EmptyLogOk DEF Init
  <2>2. position \in 1..(Len(storage) + 1)
    BY DEF Init
  <2>3. faults \in 0..MaxFaults /\ crashes \in 0..MaxCrashes
    BY AuditAssumption DEF Init
  <2> QED BY <2>1, <2>2, <2>3 DEF Init, TypeOK
<1>2. IndexAgrees
  BY EmptyLogOk DEF Init, IndexAgrees
<1>3. Idle /\ Acknowledged /\ Provenance
  BY EmptyLogOk DEF Init, Idle, Acknowledged, Provenance
<1>4. EmptyLog.events = <<>>
  BY DEF EmptyLog
<1>5. Saved /\ Rebuilt
  BY <1>4 DEF Init, Saved, Rebuilt
<1> QED BY <1>1, <1>2, <1>3, <1>5 DEF IInv

\* append() by a process that is up.
LEMMA AppendKeeps ==
  ASSUME IInv, NEW e \in Event, AppendEvent(e)
  PROVE  IInv'
<1>0. log \in Log /\ Indexed(log) /\ mode = "up"
  BY DEF IInv, TypeOK, IndexAgrees, AppendEvent
<1>1. CASE ~Accepts(log, e)
  <2>1. outcome' = "integrity"
        /\ UNCHANGED <<log, mode, position, storage, faults, crashes, genuine, acked, saved,
                       damaged>>
    BY <1>1 DEF AppendEvent
  <2>2. TypeOK' /\ IndexAgrees' /\ Idle' /\ Acknowledged'
    BY <2>1 DEF IInv, TypeOK, IndexAgrees, Idle, Acknowledged
  <2>3. Provenance'
    BY <2>1 DEF IInv, Provenance
  <2>4. Saved' /\ Rebuilt'
    BY <2>1 DEF IInv, Saved, Rebuilt
  <2> QED BY <2>2, <2>3, <2>4 DEF IInv
<1>2. CASE Accepts(log, e)
  <2>1. /\ log' = AfterAppend(log, e)
        /\ genuine' = genuine \cup {e}
        /\ acked' = acked \cup {e}
        /\ outcome' = "ok"
        /\ UNCHANGED <<mode, position, storage, faults, crashes, saved, damaged>>
    BY <1>2 DEF AppendEvent
  <2>2. /\ log' \in Log
        /\ Indexed(log')
        /\ EventsOf(log') = EventsOf(log) \cup {e}
        /\ log' = log \/ log'.events = Append(log.events, e)
    BY <1>0, <1>2, <2>1, AppendOk
  <2>3. TypeOK'
    BY <2>1, <2>2 DEF IInv, TypeOK
  <2>4. IndexAgrees' /\ Idle' /\ Acknowledged'
    BY <1>0, <2>1, <2>2 DEF IInv, IndexAgrees, Idle, Acknowledged
  <2>5. Provenance'
    BY <2>1, <2>2 DEF IInv, Provenance
  <2>6. Saved'
    <3>1. /\ log.events \in Seq(Event) /\ saved \in Seq(Event)
      BY <1>0 DEF Log, IInv, TypeOK
    <3>2. Len(saved) <= Len(log.events) =>
            /\ Len(saved) <= Len(log'.events)
            /\ \A i \in DOMAIN saved : log'.events[i] = log.events[i]
      <4>1. CASE log' = log
        BY <4>1
      <4>2. CASE log'.events = Append(log.events, e)
        <5>1. Len(log'.events) = Len(log.events) + 1
          BY <3>1, <4>2
        <5>2. \A i \in 1..Len(log.events) : log'.events[i] = log.events[i]
          BY <3>1, <4>2
        <5>3. DOMAIN saved = 1..Len(saved) /\ Len(saved) \in Nat /\ Len(log.events) \in Nat
          BY <3>1
        <5> QED BY <5>1, <5>2, <5>3
      <4> QED BY <2>2, <4>1, <4>2
    <3> QED BY <1>0, <2>1, <3>2 DEF IInv, Saved
  <2>7. Rebuilt'
    BY <1>0, <2>1 DEF Rebuilt
  <2> QED BY <2>3, <2>4, <2>5, <2>6, <2>7 DEF IInv
<1> QED BY <1>1, <1>2

\* serialize(), saved: storage becomes the canonical form of the log.
LEMMA SaveKeeps ==
  ASSUME IInv, Save
  PROVE  IInv'
<1>1. /\ mode = "up"
      /\ storage' = [i \in DOMAIN log.events |-> ToJson(log.events[i])]
      /\ saved' = log.events
      /\ damaged' = FALSE
      /\ outcome' = "ok"
      /\ UNCHANGED <<log, mode, position, faults, crashes, genuine, acked>>
  BY DEF Save
<1>2. log.events \in Seq(Event) /\ DOMAIN log.events = 1..Len(log.events)
  BY DEF IInv, TypeOK, Log
<1>3. \A i \in DOMAIN log.events : log.events[i] \in Event
  BY <1>2
<1>4. /\ storage' \in Seq(Document)
      /\ DOMAIN storage' = DOMAIN log.events
      /\ Len(storage') = Len(log.events)
      /\ \A i \in DOMAIN log.events : storage'[i] = ToJson(log.events[i])
  <2> DEFINE n == Len(log.events)
  <2>1. n \in Nat /\ storage' = [i \in 1..n |-> ToJson(log.events[i])]
    BY <1>1, <1>2
  <2>2. \A i \in 1..n : ToJson(log.events[i]) \in Document
    BY <1>2, <1>3, CanonicalType
  <2>3. storage' \in Seq(Document)
    BY <2>1, <2>2
  <2>4. Len(storage') = n /\ DOMAIN storage' = 1..n
    BY <2>1, <2>3
  <2>5. \A i \in 1..n : storage'[i] = ToJson(log.events[i])
    BY <2>1
  <2> QED BY <1>2, <2>3, <2>4, <2>5
<1>5. TypeOK'
  <2>1. position' \in 1..(Len(storage') + 1)
    <3>1. position' = 1 /\ Len(storage') \in Nat
      BY <1>1, <1>2, <1>4 DEF IInv, Idle
    <3> QED BY <3>1
  <2> QED BY <1>1, <1>2, <1>4, <2>1 DEF IInv, TypeOK
<1>6. IndexAgrees' /\ Idle' /\ Acknowledged'
  BY <1>1 DEF IInv, IndexAgrees, Idle, Acknowledged
<1>7. Provenance'
  <2>1. \A k \in DOMAIN storage' :
          storage'[k].integrity_sha
            = Sha256(<<log.events[k], Sha256(log.events[k].payload)>>)
    BY <1>3, <1>4, CanonicalType
  <2>2. \A k \in DOMAIN storage' : log.events[k] \in genuine \cup Foreign
    BY <1>4 DEF IInv, Provenance, EventsOf
  <2> QED BY <1>1, <2>1, <2>2 DEF IInv, Provenance
<1>8. Saved'
  BY <1>1, <1>2, <1>4 DEF IInv, IndexAgrees, Indexed, Saved
<1>9. Rebuilt'
  BY <1>1 DEF Rebuilt
<1> QED BY <1>5, <1>6, <1>7, <1>8, <1>9 DEF IInv

\* A crash loses the log; storage is as it was.
LEMMA CrashKeeps ==
  ASSUME IInv, Crash
  PROVE  IInv'
<1>1. /\ crashes < MaxCrashes /\ crashes' = crashes + 1
      /\ mode' = "down" /\ log' = EmptyLog /\ acked' = {} /\ position' = 1 /\ outcome' = "ok"
      /\ UNCHANGED <<storage, faults, genuine, saved, damaged>>
  BY DEF Crash
<1>2. TypeOK'
  BY <1>1, EmptyLogOk, AuditAssumption DEF IInv, TypeOK
<1>3. IndexAgrees' /\ Idle' /\ Acknowledged'
  BY <1>1, EmptyLogOk DEF IndexAgrees, Idle, Acknowledged
<1>4. Provenance'
  BY <1>1, EmptyLogOk DEF IInv, Provenance
<1>5. Saved' /\ Rebuilt'
  BY <1>1 DEF IInv, Saved, Rebuilt
<1> QED BY <1>2, <1>3, <1>4, <1>5 DEF IInv

\* replay() begins with an empty log.
LEMMA StartKeeps ==
  ASSUME IInv, StartReplay
  PROVE  IInv'
<1>1. /\ mode \in {"down", "halted"} /\ mode' = "replaying" /\ outcome' = "ok"
      /\ UNCHANGED <<log, position, storage, faults, crashes, genuine, acked, saved, damaged>>
  BY DEF StartReplay
<1>2. log = EmptyLog /\ position = 1 /\ acked = {}
  BY <1>1 DEF IInv, Idle
<1>3. TypeOK' /\ IndexAgrees' /\ Idle' /\ Acknowledged' /\ Provenance'
  BY <1>1, <1>2 DEF IInv, TypeOK, IndexAgrees, Idle, Acknowledged, Provenance
<1>4. log.events = <<>>
  BY <1>2 DEF EmptyLog
<1>5. Saved'
  BY <1>1, <1>2, <1>4 DEF IInv, Saved
<1>6. Rebuilt'
  BY <1>1, <1>2, <1>4 DEF Rebuilt
<1> QED BY <1>3, <1>5, <1>6 DEF IInv

\* A document that verifies carries an event that was appended somewhere.
LEMMA VerifiedIsGenuine ==
  ASSUME Provenance, NEW k \in DOMAIN storage, storage[k] \in Document,
         FromJson(storage[k]) = "ok"
  PROVE  storage[k].event \in genuine \cup Foreign
<1>1. /\ storage[k].integrity_sha # NotAscii
      /\ storage[k].integrity_sha
           = Sha256(<<storage[k].event, Sha256(storage[k].event.payload)>>)
  BY DEF FromJson, Compared
<1>2. PICK e \in genuine \cup Foreign :
        storage[k].integrity_sha = Sha256(<<e, Sha256(e.payload)>>)
  BY <1>1 DEF Provenance
<1>3. storage[k].event = e
  BY <1>1, <1>2 DEF Sha256
<1> QED BY <1>3

\* One turn of replay()'s loop: the document is appended, or the replay fails.
LEMMA ReplayStepKeeps ==
  ASSUME IInv, ReplayStep
  PROVE  IInv'
<1> DEFINE doc == storage[position]
           e == doc.event
<1>0. /\ mode = "replaying"
      /\ position <= Len(storage)
      /\ log \in Log /\ Indexed(log)
      /\ acked = {}
  BY DEF IInv, TypeOK, IndexAgrees, Idle, ReplayStep
<1>a. /\ storage \in Seq(Document) /\ DOMAIN storage = 1..Len(storage) /\ Len(storage) \in Nat
      /\ position \in Nat /\ position >= 1
      /\ position \in DOMAIN storage
      /\ doc \in Document /\ e \in Event
  <2>1. /\ storage \in Seq(Document) /\ DOMAIN storage = 1..Len(storage)
        /\ Len(storage) \in Nat
    BY DEF IInv, TypeOK
  <2>2. position \in Nat /\ position >= 1 /\ position \in DOMAIN storage
    BY <1>0, <2>1 DEF IInv, TypeOK
  <2>3. doc \in Document
    BY <2>1, <2>2
  <2> QED BY <2>1, <2>2, <2>3 DEF Document
<1>1. CASE FromJson(doc) = "ok" /\ Accepts(log, e)
  <2>1. /\ log' = AfterAppend(log, e)
        /\ position' = position + 1
        /\ UNCHANGED <<mode, outcome, storage, faults, crashes, genuine, acked, saved, damaged>>
    BY <1>1 DEF ReplayStep
  <2>2. /\ log' \in Log
        /\ Indexed(log')
        /\ EventsOf(log') = EventsOf(log) \cup {e}
        /\ \/ log' = log /\ e \in EventsOf(log)
           \/ log'.events = Append(log.events, e) /\ e.event_id \notin DOMAIN log.by_id
    BY <1>0, <1>1, <1>a, <2>1, AppendOk
  <2>3. doc = ToJson(e)
    BY <1>1, <1>a, VerifiedIsCanonical
  <2>4. TypeOK'
    <3>1. position' \in 1..(Len(storage') + 1)
      BY <1>0, <1>a, <2>1
    <3> QED BY <2>1, <2>2, <3>1 DEF IInv, TypeOK
  <2>5. IndexAgrees' /\ Idle' /\ Acknowledged'
    BY <1>0, <2>1, <2>2 DEF IndexAgrees, Idle, Acknowledged
  <2>6. Provenance'
    <3>1. e \in genuine \cup Foreign
      BY <1>1, <1>a, VerifiedIsGenuine DEF IInv
    <3> QED BY <2>1, <2>2, <3>1 DEF IInv, Provenance
  <2>7. log.events \in Seq(Event) /\ DOMAIN log.events = 1..Len(log.events)
        /\ Len(log.events) \in Nat
    BY <1>0 DEF Log
  <2>8. Saved'
    <3>1. \A i, j \in DOMAIN saved : saved[i].event_id = saved[j].event_id => i = j
      BY DEF IInv, Saved
    <3>2. ASSUME ~damaged
          PROVE  /\ Len(log'.events) = position
                 /\ \A i \in 1..position : log'.events[i] = saved[i]
      <4>1. /\ Len(storage) = Len(saved)
            /\ \A i \in DOMAIN saved : storage[i] = ToJson(saved[i])
            /\ Len(log.events) = position - 1
            /\ \A i \in 1..(position - 1) : log.events[i] = saved[i]
        BY <1>0, <3>2 DEF IInv, Saved
      <4>2. saved \in Seq(Event) /\ DOMAIN saved = DOMAIN storage
        BY <1>a, <4>1 DEF IInv, TypeOK
      <4>3. e = saved[position]
        <5>1. saved[position] \in Event /\ storage[position] = ToJson(saved[position])
          BY <1>a, <4>1, <4>2
        <5> QED BY <5>1, CanonicalType
      <4>4. e \notin EventsOf(log)
        <5> SUFFICES ASSUME e \in EventsOf(log) PROVE FALSE
          OBVIOUS
        <5>1. PICK i \in DOMAIN log.events : log.events[i] = e
          BY DEF EventsOf
        <5>2. i \in 1..(position - 1) /\ i # position
          BY <1>a, <2>7, <4>1, <5>1
        <5>3. saved[i] = saved[position] /\ i \in DOMAIN saved /\ position \in DOMAIN saved
          BY <1>a, <4>1, <4>2, <4>3, <5>1, <5>2
        <5> QED BY <3>1, <5>2, <5>3
      <4>5. log'.events = Append(log.events, e)
        BY <2>2, <4>4
      <4>6. /\ Len(log'.events) = position
            /\ \A i \in 1..(position - 1) : log'.events[i] = log.events[i]
            /\ log'.events[position] = e
        <5>1. Len(log'.events) = Len(log.events) + 1
              /\ (\A i \in 1..Len(log.events) : log'.events[i] = log.events[i])
              /\ log'.events[Len(log.events) + 1] = e
          BY <2>7, <4>5
        <5>2. Len(log.events) + 1 = position
          BY <1>a, <4>1
        <5> QED BY <4>1, <5>1, <5>2
      <4>7. \A i \in 1..position : i \in 1..(position - 1) \/ i = position
        BY <1>a
      <4> QED BY <4>1, <4>3, <4>6, <4>7
    <3>3. position' - 1 = position
      BY <1>a, <2>1
    <3> QED BY <1>0, <2>1, <3>1, <3>2, <3>3 DEF IInv, Saved
  <2>9. Rebuilt'
    <3>1. /\ \A i \in 1..(position - 1) : \E k \in DOMAIN log.events :
               storage[i] = ToJson(log.events[k])
          /\ \A k \in DOMAIN log.events : \E i \in 1..(position - 1) :
               /\ storage[i] = ToJson(log.events[k])
               /\ \A j \in 1..(i - 1) : \E m \in 1..(k - 1) :
                    storage[j] = ToJson(log.events[m])
      BY <1>0 DEF IInv, Rebuilt
    <3>2. /\ \A i \in 1..position : i \in 1..(position - 1) \/ i = position
          /\ \A i \in 1..(position - 1) : i \in 1..position
          /\ position \in 1..position
      BY <1>a
    <3>3. CASE log' = log /\ e \in EventsOf(log)
      <4>1. PICK k \in DOMAIN log.events : log.events[k] = e
        BY <3>3 DEF EventsOf
      <4>2. storage[position] = ToJson(log.events[k])
        BY <2>3, <4>1
      <4>3. \A i \in 1..position : \E n \in DOMAIN log.events :
              storage[i] = ToJson(log.events[n])
        BY <3>1, <3>2, <4>1, <4>2
      <4>4. \A n \in DOMAIN log.events : \E i \in 1..position :
              /\ storage[i] = ToJson(log.events[n])
              /\ \A j \in 1..(i - 1) : \E m \in 1..(n - 1) :
                   storage[j] = ToJson(log.events[m])
        BY <3>1, <3>2
      <4>5. position' - 1 = position
        BY <1>a, <2>1
      <4> QED BY <2>1, <3>3, <4>3, <4>4, <4>5 DEF Rebuilt
    <3>4. CASE log'.events = Append(log.events, e)
      <4> DEFINE n == Len(log.events)
                 new == log'.events
      <4>1. /\ DOMAIN new = 1..(n + 1)
            /\ \A k \in 1..n : new[k] = log.events[k]
            /\ new[n + 1] = e
            /\ n \in Nat
        BY <2>7, <3>4
      <4>2. /\ \A k \in 1..(n + 1) : k \in 1..n \/ k = n + 1
            /\ \A k \in 1..n : k \in 1..(n + 1) /\ \A m \in 1..(k - 1) : m \in 1..n
            /\ n + 1 \in 1..(n + 1)
            /\ (n + 1) - 1 = n
        BY <4>1
      <4> HIDE DEF n, new
      <4>3. DOMAIN log.events = 1..n
        BY <2>7 DEF n
      <4>4. \A i \in 1..position : \E k \in DOMAIN new : storage[i] = ToJson(new[k])
        <5>1. ASSUME NEW i \in 1..(position - 1)
              PROVE  \E k \in DOMAIN new : storage[i] = ToJson(new[k])
          <6>1. PICK k \in 1..n : storage[i] = ToJson(log.events[k])
            BY <3>1, <4>3
          <6> QED BY <4>1, <4>2, <6>1
        <5>2. n + 1 \in DOMAIN new /\ storage[position] = ToJson(new[n + 1])
          BY <2>3, <4>1, <4>2
        <5> QED BY <3>2, <5>1, <5>2
      <4>5. \A k \in DOMAIN new : \E i \in 1..position :
              /\ storage[i] = ToJson(new[k])
              /\ \A j \in 1..(i - 1) : \E m \in 1..(k - 1) : storage[j] = ToJson(new[m])
        <5> SUFFICES ASSUME NEW k \in DOMAIN new
                     PROVE  \E i \in 1..position :
                              /\ storage[i] = ToJson(new[k])
                              /\ \A j \in 1..(i - 1) : \E m \in 1..(k - 1) :
                                   storage[j] = ToJson(new[m])
          OBVIOUS
        <5>1. CASE k \in 1..n
          <6>1. PICK i \in 1..(position - 1) :
                  /\ storage[i] = ToJson(log.events[k])
                  /\ \A j \in 1..(i - 1) : \E m \in 1..(k - 1) :
                       storage[j] = ToJson(log.events[m])
            BY <3>1, <4>3, <5>1
          <6>2. \A m \in 1..(k - 1) : new[m] = log.events[m]
            BY <4>1, <4>2, <5>1
          <6> QED BY <3>2, <4>1, <5>1, <6>1, <6>2
        <5>2. CASE k = n + 1
          <6>1. storage[position] = ToJson(new[k])
            BY <2>3, <4>1, <5>2
          <6>2. \A j \in 1..(position - 1) : \E m \in 1..(k - 1) :
                  storage[j] = ToJson(new[m])
            <7> SUFFICES ASSUME NEW j \in 1..(position - 1)
                         PROVE  \E m \in 1..(k - 1) : storage[j] = ToJson(new[m])
              OBVIOUS
            <7>1. PICK m \in 1..n : storage[j] = ToJson(log.events[m])
              BY <3>1, <4>3
            <7>2. new[m] = log.events[m] /\ k - 1 = n
              BY <4>1, <4>2, <5>2
            <7> QED BY <7>1, <7>2
          <6> QED BY <3>2, <6>1, <6>2
        <5> QED BY <4>1, <4>2, <5>1, <5>2
      <4>6. position' - 1 = position
        BY <1>a, <2>1
      <4> QED BY <2>1, <4>4, <4>5, <4>6 DEF Rebuilt, new
    <3> QED BY <2>2, <3>3, <3>4
  <2> QED BY <2>4, <2>5, <2>6, <2>8, <2>9 DEF IInv
<1>2. CASE ~(FromJson(doc) = "ok" /\ Accepts(log, e))
  <2>1. /\ log' = EmptyLog
        /\ position' = 1
        /\ mode' = "halted"
        /\ outcome' = IF FromJson(doc) = "ok" THEN "integrity" ELSE FromJson(doc)
        /\ UNCHANGED <<storage, faults, crashes, genuine, acked, saved, damaged>>
    BY <1>2 DEF ReplayStep
  <2>2. FromJson(doc) \in {"ok", "integrity", "validation", "type"}
    BY DEF FromJson, Compared
  <2>3. position' \in 1..(Len(storage') + 1)
    BY <1>a, <2>1
  <2>4. TypeOK'
    BY <2>1, <2>2, <2>3, EmptyLogOk DEF IInv, TypeOK
  <2>5. IndexAgrees' /\ Idle' /\ Acknowledged'
    BY <1>0, <2>1, EmptyLogOk DEF IndexAgrees, Idle, Acknowledged
  <2>6. Provenance'
    BY <2>1, EmptyLogOk DEF IInv, Provenance
  <2>7. Saved' /\ Rebuilt'
    BY <2>1 DEF IInv, Saved, Rebuilt
  <2> QED BY <2>4, <2>5, <2>6, <2>7 DEF IInv
<1> QED BY <1>1, <1>2

\* replay() returns when every document is read.
LEMMA ReplayDoneKeeps ==
  ASSUME IInv, ReplayDone
  PROVE  IInv'
<1>1. /\ mode = "replaying" /\ position > Len(storage) /\ mode' = "up" /\ position' = 1
      /\ UNCHANGED <<log, outcome, storage, faults, crashes, genuine, acked, saved, damaged>>
  BY DEF ReplayDone
<1>2. /\ Len(storage) \in Nat /\ position \in 1..(Len(storage) + 1)
      /\ saved \in Seq(Event)
      /\ log.events \in Seq(Event)
      /\ acked = {}
  BY <1>1 DEF IInv, TypeOK, Idle, Log
<1>3. position = Len(storage) + 1
  BY <1>1, <1>2
<1>4. TypeOK' /\ IndexAgrees' /\ Idle' /\ Acknowledged' /\ Provenance'
  <2>1. position' \in 1..(Len(storage') + 1)
    BY <1>1, <1>2
  <2> QED BY <1>1, <1>2, <2>1
       DEF IInv, TypeOK, IndexAgrees, Idle, Acknowledged, Provenance
<1>5. Saved'
  <2>1. ASSUME ~damaged
        PROVE  /\ Len(saved) <= Len(log.events)
               /\ \A i \in DOMAIN saved : log.events[i] = saved[i]
    <3>1. /\ Len(storage) = Len(saved)
          /\ Len(log.events) = position - 1
          /\ \A i \in 1..(position - 1) : log.events[i] = saved[i]
      BY <1>1, <2>1 DEF IInv, Saved
    <3>2. DOMAIN saved = 1..(position - 1) /\ Len(log.events) = Len(saved)
      BY <1>2, <1>3, <3>1
    <3>3. Len(saved) \in Nat
      BY <1>2
    <3> QED BY <3>1, <3>2, <3>3
  <2> QED BY <1>1, <2>1 DEF IInv, Saved
<1>6. Rebuilt'
  BY <1>1 DEF Rebuilt
<1> QED BY <1>4, <1>5, <1>6 DEF IInv

\* What a damaged document may be: still a document, with the event digest it had or with
\* none.
LEMMA DamagedType ==
  ASSUME NEW doc \in Document, NEW x \in Damaged(doc)
  PROVE  x \in Document /\ x.integrity_sha \in {doc.integrity_sha, NotAscii}
<1>1. /\ doc = [ event |-> doc.event, payload_sha |-> doc.payload_sha,
                 integrity_sha |-> doc.integrity_sha, encoding |-> doc.encoding ]
      /\ doc.payload_sha \in { Sha256(p) : p \in Payload } \cup {NotAscii}
  BY DEF Document
<1>2. CASE \E e \in Event : x = [doc EXCEPT !.event = e]
  BY <1>2 DEF Document
<1>3. CASE \E e \in Event : x = [doc EXCEPT !.event = e, !.payload_sha = Sha256(e.payload)]
  <2>1. PICK e \in Event : x = [doc EXCEPT !.event = e, !.payload_sha = Sha256(e.payload)]
    BY <1>3
  <2>2. Sha256(e.payload) \in { Sha256(p) : p \in Payload }
    BY DEF Event
  <2> QED BY <2>1, <2>2 DEF Document
<1>4. CASE \E n \in {"other", "malformed"} : x = [doc EXCEPT !.encoding = n]
  BY <1>4 DEF Document
<1>5. CASE x \in { [doc EXCEPT !.payload_sha = NotAscii], [doc EXCEPT !.integrity_sha = NotAscii] }
  BY <1>5 DEF Document
<1> QED BY <1>2, <1>3, <1>4, <1>5 DEF Damaged

\* Whatever happens to storage, each of its documents has the event digest of a
\* document it held before or none, or is a foreign one.
LEMMA DamageIsLocal ==
  ASSUME AuditAssumption, storage \in Seq(Document), Damage
  PROVE  /\ storage' \in Seq(Document)
         /\ \A k \in DOMAIN storage' :
              \/ storage'[k].integrity_sha = NotAscii
              \/ \E i \in DOMAIN storage :
                   storage'[k].integrity_sha = storage[i].integrity_sha
              \/ \E e \in Foreign : storage'[k] = ToJson(e)
<1> DEFINE n == Len(storage)
<1>1. n \in Nat /\ DOMAIN storage = 1..n
  OBVIOUS
<1>2. PICK k \in DOMAIN storage :
       \/ \E doc \in Damaged(storage[k]) : storage' = [storage EXCEPT ![k] = doc]
       \/ \E e \in Foreign : storage' = [storage EXCEPT ![k] = ToJson(e)]
       \/ storage' = SubSeq(storage, 1, k - 1) \o SubSeq(storage, k + 1, Len(storage))
       \/ storage' = Append(storage, storage[k])
       \/ /\ k < Len(storage)
          /\ storage' = [storage EXCEPT ![k] = storage[k + 1], ![k + 1] = storage[k]]
  BY DEF Damage
<1>3. storage[k] \in Document /\ k \in 1..n
  BY <1>1, <1>2
<1>4. CASE \E doc \in Damaged(storage[k]) : storage' = [storage EXCEPT ![k] = doc]
  <2>1. PICK doc \in Damaged(storage[k]) : storage' = [storage EXCEPT ![k] = doc]
    BY <1>4
  <2>2. doc \in Document /\ doc.integrity_sha \in {storage[k].integrity_sha, NotAscii}
    BY <1>3, <2>1, DamagedType
  <2>3. storage' \in Seq(Document) /\ DOMAIN storage' = DOMAIN storage
    BY <2>1, <2>2
  <2>4. \A i \in DOMAIN storage : storage'[i] = IF i = k THEN doc ELSE storage[i]
    BY <2>1
  <2> QED BY <2>2, <2>3, <2>4
<1>5. CASE \E e \in Foreign : storage' = [storage EXCEPT ![k] = ToJson(e)]
  <2>1. PICK e \in Foreign : storage' = [storage EXCEPT ![k] = ToJson(e)]
    BY <1>5
  <2>2. ToJson(e) \in Document
    BY <2>1, CanonicalType DEF AuditAssumption, Event
  <2>3. storage' \in Seq(Document) /\ DOMAIN storage' = DOMAIN storage
    BY <2>1, <2>2
  <2>4. \A i \in DOMAIN storage : storage'[i] = IF i = k THEN ToJson(e) ELSE storage[i]
    BY <2>1
  <2> QED BY <2>1, <2>3, <2>4
<1>6. CASE storage' = SubSeq(storage, 1, k - 1) \o SubSeq(storage, k + 1, Len(storage))
  <2> DEFINE a == SubSeq(storage, 1, k - 1)
             b == SubSeq(storage, k + 1, Len(storage))
  <2>1. /\ a \in Seq(Document) /\ Len(a) = k - 1
        /\ \A i \in 1..(k - 1) : a[i] = storage[i]
    BY <1>1, <1>3
  <2>2. /\ b \in Seq(Document) /\ Len(b) = n - k
        /\ \A i \in 1..(n - k) : b[i] = storage[i + k]
    BY <1>1, <1>3
  <2>3. /\ storage' \in Seq(Document) /\ DOMAIN storage' = 1..(n - 1)
        /\ \A i \in 1..(k - 1) : storage'[i] = storage[i]
        /\ \A i \in k..(n - 1) : storage'[i] = storage[i + 1]
    <3>1. storage' = a \o b
      BY <1>6
    <3> HIDE DEF a, b
    <3>2. /\ a \o b \in Seq(Document) /\ Len(a \o b) = n - 1
          /\ \A i \in 1..(n - 1) :
               (a \o b)[i] = IF i <= k - 1 THEN a[i] ELSE b[i - (k - 1)]
      <4>1. /\ a \o b \in Seq(Document) /\ Len(a \o b) = Len(a) + Len(b)
            /\ \A i \in 1..(Len(a) + Len(b)) :
                 (a \o b)[i] = IF i <= Len(a) THEN a[i] ELSE b[i - Len(a)]
        BY <2>1, <2>2, ConcatProperties
      <4>2. Len(a) + Len(b) = n - 1 /\ Len(a) = k - 1
        BY <1>1, <1>3, <2>1, <2>2
      <4> QED BY <4>1, <4>2
    <3>3. DOMAIN (a \o b) = 1..(n - 1)
      BY <3>2
    <3>4. \A i \in k..(n - 1) : i - (k - 1) \in 1..(n - k) /\ (i - (k - 1)) + k = i + 1
      BY <1>1, <1>3
    <3>5. \A i \in k..(n - 1) : (a \o b)[i] = storage[i + 1]
      <4> SUFFICES ASSUME NEW i \in k..(n - 1) PROVE (a \o b)[i] = storage[i + 1]
        OBVIOUS
      <4>1. i \in 1..(n - 1) /\ ~(i <= k - 1)
        BY <1>1, <1>3
      <4> QED BY <2>2, <3>2, <3>4, <4>1
    <3>6. \A i \in 1..(k - 1) : (a \o b)[i] = storage[i]
      BY <1>1, <1>3, <2>1, <3>2
    <3> QED BY <3>1, <3>2, <3>3, <3>5, <3>6
  <2>4. ASSUME NEW i \in 1..(n - 1)
        PROVE  \E j \in 1..n : storage'[i] = storage[j]
    <3>1. CASE i < k
      BY <1>3, <2>3, <3>1
    <3>2. CASE i >= k
      <4>1. i \in k..(n - 1) /\ i + 1 \in 1..n
        BY <1>1, <1>3, <3>2
      <4> QED BY <2>3, <4>1
    <3> QED BY <1>3, <3>1, <3>2
  <2> QED BY <1>1, <2>3, <2>4
<1>7. CASE storage' = Append(storage, storage[k])
  <2>1. /\ storage' \in Seq(Document) /\ DOMAIN storage' = 1..(n + 1)
        /\ \A i \in 1..n : storage'[i] = storage[i]
        /\ storage'[n + 1] = storage[k]
    BY <1>1, <1>3, <1>7
  <2>2. \A i \in 1..(n + 1) : i \in 1..n \/ i = n + 1
    BY <1>1
  <2> QED BY <1>1, <1>3, <2>1, <2>2
<1>8. CASE /\ k < Len(storage)
           /\ storage' = [storage EXCEPT ![k] = storage[k + 1], ![k + 1] = storage[k]]
  <2>1. k + 1 \in 1..n /\ storage[k + 1] \in Document
    BY <1>1, <1>3, <1>8
  <2> QED BY <1>1, <1>3, <1>8, <2>1
<1> QED BY <1>2, <1>4, <1>5, <1>6, <1>7, <1>8

\* Damage cannot bring in an event digest that was not there.
LEMMA DamageKeeps ==
  ASSUME IInv, Damage
  PROVE  IInv'
<1>1. /\ mode # "replaying" /\ faults < MaxFaults /\ faults' = faults + 1
      /\ damaged' = TRUE /\ outcome' = "ok"
      /\ UNCHANGED <<log, mode, position, crashes, genuine, acked, saved>>
  BY DEF Damage
<1>2. /\ storage' \in Seq(Document)
      /\ \A k \in DOMAIN storage' :
           \/ storage'[k].integrity_sha = NotAscii
           \/ \E i \in DOMAIN storage : storage'[k].integrity_sha = storage[i].integrity_sha
           \/ \E e \in Foreign : storage'[k] = ToJson(e)
  BY DamageIsLocal, AuditAssumption DEF IInv, TypeOK
<1>3. TypeOK'
  <2>1. position' \in 1..(Len(storage') + 1)
    <3>1. position' = 1 /\ Len(storage') \in Nat
      BY <1>1, <1>2 DEF IInv, Idle
    <3> QED BY <3>1
  <2>2. faults' \in 0..MaxFaults
    BY <1>1, AuditAssumption DEF IInv, TypeOK
  <2> QED BY <1>1, <1>2, <2>1, <2>2 DEF IInv, TypeOK
<1>4. IndexAgrees' /\ Idle' /\ Acknowledged'
  BY <1>1 DEF IInv, IndexAgrees, Idle, Acknowledged
<1>5. Provenance'
  <2>1. ASSUME NEW k \in DOMAIN storage'
        PROVE  \/ storage'[k].integrity_sha = NotAscii
               \/ \E e \in genuine \cup Foreign :
                    storage'[k].integrity_sha = Sha256(<<e, Sha256(e.payload)>>)
    <3>1. CASE \E i \in DOMAIN storage :
                 storage'[k].integrity_sha = storage[i].integrity_sha
      BY <3>1 DEF IInv, Provenance
    <3>2. CASE \E e \in Foreign : storage'[k] = ToJson(e)
      BY <3>2, CanonicalType, AuditAssumption DEF AuditAssumption, Event
    <3> QED BY <1>2, <3>1, <3>2
  <2> QED BY <1>1, <2>1 DEF IInv, Provenance
<1>6. Saved' /\ Rebuilt'
  BY <1>1 DEF IInv, Saved, Rebuilt
<1> QED BY <1>3, <1>4, <1>5, <1>6 DEF IInv

\* Every step keeps the inductive invariant.
LEMMA NextKeeps == IInv /\ [Next]_vars => IInv'
<1> SUFFICES ASSUME IInv, [Next]_vars PROVE IInv'
  OBVIOUS
<1>1. CASE DoAppend
  BY <1>1, AppendKeeps DEF DoAppend
<1>2. CASE Save
  BY <1>2, SaveKeeps
<1>3. CASE Crash
  BY <1>3, CrashKeeps
<1>4. CASE StartReplay
  BY <1>4, StartKeeps
<1>5. CASE ReplayStep
  BY <1>5, ReplayStepKeeps
<1>6. CASE ReplayDone
  BY <1>6, ReplayDoneKeeps
<1>7. CASE Damage
  BY <1>7, DamageKeeps
<1>8. CASE UNCHANGED vars
  <2>1. UNCHANGED <<log, mode, position, outcome, storage, faults, crashes, genuine, acked,
                    saved, damaged>>
    BY <1>8 DEF vars
  <2>2. TypeOK' /\ IndexAgrees' /\ Idle' /\ Acknowledged' /\ Provenance'
    BY <2>1 DEF IInv, TypeOK, IndexAgrees, Idle, Acknowledged, Provenance
  <2>3. Saved'
    BY <2>1 DEF IInv, Saved
  <2>4. Rebuilt'
    BY <2>1 DEF IInv, Rebuilt
  <2> QED BY <2>2, <2>3, <2>4 DEF IInv
<1> QED BY <1>1, <1>2, <1>3, <1>4, <1>5, <1>6, <1>7, <1>8 DEF Next

-----------------------------------------------------------------------------
(* The theorems *)

\* The conjuncts of IInv hold in every reachable state.
THEOREM Soundness == Spec => []IInv
<1> QED BY InitInv, NextKeeps, PTL DEF Spec

\* The type invariant: a replay never reads past the end of what was saved, and
\* the next one starts at its beginning.
THEOREM TypeCorrect == Spec => []TypeOK
<1>1. IInv => TypeOK
  BY DEF IInv
<1> QED BY <1>1, Soundness, PTL

\* The list and the index of InMemoryAuditLog never disagree.
THEOREM IndexTheorem == Spec => []IndexAgrees
<1>1. IInv => IndexAgrees
  BY DEF IInv
<1> QED BY <1>1, Soundness, PTL

\* What append() has returned stays in the log and under its identifier.
THEOREM AcknowledgedTheorem == Spec => []AckedIsKept
<1>1. IInv => AckedIsKept
  <2> SUFFICES ASSUME IInv, NEW e \in acked
               PROVE  e \in EventsOf(log) /\ Get(log, e.event_id) = {e}
    BY DEF AckedIsKept
  <2>1. e \in EventsOf(log)
    BY DEF IInv, Acknowledged
  <2>2. PICK i \in DOMAIN log.events : log.events[i] = e
    BY <2>1 DEF EventsOf
  <2>3. e.event_id \in DOMAIN log.by_id /\ log.by_id[e.event_id] = e
    BY <2>1, <2>2 DEF IInv, IndexAgrees, Indexed
  <2>4. Get(log, e.event_id) = {e}
    BY <2>3 DEF Get
  <2> QED BY <2>1, <2>4
<1> QED BY <1>1, Soundness, PTL

\* A log in use holds no event that nobody appended, whatever storage did to the
\* content of documents: both digests would have had to be recomputed.
THEOREM GenuineTheorem == Spec => []LogIsGenuine
<1>1. IInv => LogIsGenuine
  BY DEF IInv, Provenance, LogIsGenuine
<1> QED BY <1>1, Soundness, PTL

\* Undamaged history survives appends, crashes and replays, in its order.
THEOREM SurvivalTheorem == Spec => []SavedSurvives
<1>1. IInv => SavedSurvives
  BY DEF IInv, Saved, SavedSurvives
<1> QED BY <1>1, Soundness, PTL

\* A replay that ends without an error has skipped no document.
THEOREM ReplayTheorem == Spec => ReplayIsComplete
<1> DEFINE Complete ==
             /\ \A i \in DOMAIN storage : \E k \in DOMAIN log.events :
                  storage[i] = ToJson(log.events[k])
             /\ \A k \in DOMAIN log.events : \E i \in DOMAIN storage :
                  /\ storage[i] = ToJson(log.events[k])
                  /\ \A j \in 1..(i - 1) : \E m \in 1..(k - 1) :
                       storage[j] = ToJson(log.events[m])
           Ends == mode = "replaying" /\ mode' = "up" => Complete
<1>1. IInv /\ [Next]_vars => [Ends]_vars
  <2> SUFFICES ASSUME IInv, Next, mode = "replaying", mode' = "up" PROVE Complete
    OBVIOUS
  <2>1. ReplayDone
    BY DEF Next, DoAppend, AppendEvent, Save, Crash, StartReplay, ReplayStep, Damage
  <2>2. position = Len(storage) + 1 /\ DOMAIN storage = 1..(position - 1)
    BY <2>1 DEF ReplayDone, IInv, TypeOK
  <2>3. /\ \A i \in 1..(position - 1) : \E k \in DOMAIN log.events :
             storage[i] = ToJson(log.events[k])
        /\ \A k \in DOMAIN log.events : \E i \in 1..(position - 1) :
             /\ storage[i] = ToJson(log.events[k])
             /\ \A j \in 1..(i - 1) : \E m \in 1..(k - 1) :
                  storage[j] = ToJson(log.events[m])
    BY DEF IInv, Rebuilt
  <2>4. \A i \in DOMAIN storage : i \in 1..(position - 1)
    BY <2>2
  <2>5. \A i \in 1..(position - 1) : i \in DOMAIN storage
    BY <2>2
  <2>6. \A i \in DOMAIN storage : \E k \in DOMAIN log.events :
          storage[i] = ToJson(log.events[k])
    BY <2>3, <2>4
  <2>7. \A k \in DOMAIN log.events : \E i \in DOMAIN storage :
          /\ storage[i] = ToJson(log.events[k])
          /\ \A j \in 1..(i - 1) : \E m \in 1..(k - 1) :
               storage[j] = ToJson(log.events[m])
    BY <2>3, <2>5
  <2> QED BY <2>6, <2>7
<1> HIDE DEF Ends
<1>2. Spec => [][Ends]_vars
  BY <1>1, Soundness, PTL DEF Spec
<1> QED BY <1>2 DEF Ends, ReplayIsComplete
\* A replay of an intact file is never refused a document: each of its steps takes it one
\* document further, or ends it with the log that was saved, or is a crash.
IntactReplay ==
  mode = "replaying" /\ ~damaged =>
    \/ mode' = "down"
    \/ mode' = "replaying" /\ position' = position + 1 /\ position' <= Len(storage') + 1
    \/ mode' = "up" /\ log'.events = saved

\* What RecoveryRestores asks for, but for the fairness that brings the next step.
THEOREM RestoreTheorem == Spec => [][IntactReplay]_vars
<1>1. ASSUME IInv, Next, mode = "replaying", ~damaged PROVE IntactReplay
  <2>1. /\ Len(storage) = Len(saved) /\ Len(storage) \in Nat
        /\ DOMAIN saved = 1..Len(saved) /\ saved \in Seq(Event)
        /\ position \in 1..(Len(storage) + 1)
        /\ log \in Log /\ Indexed(log)
        /\ \A i, j \in DOMAIN saved : saved[i].event_id = saved[j].event_id => i = j
        /\ \A i \in DOMAIN saved : storage[i] = ToJson(saved[i])
        /\ Len(log.events) = position - 1
        /\ \A i \in 1..(position - 1) : log.events[i] = saved[i]
    BY <1>1 DEF IInv, TypeOK, IndexAgrees, Saved
  <2>2. log.events \in Seq(Event) /\ DOMAIN log.events = 1..(position - 1)
    BY <2>1 DEF Log
  <2>3. CASE ReplayStep
    <3>1. position \in DOMAIN saved /\ position <= Len(storage)
      BY <2>1, <2>3 DEF ReplayStep
    <3> DEFINE e == saved[position]
    <3>2. e \in Event /\ storage[position] = ToJson(e)
      BY <2>1, <3>1
    <3>3. storage[position].event = e /\ FromJson(storage[position]) = "ok"
      BY <3>2, CanonicalType
    <3>4. IsNew(log, e)
      <4> SUFFICES ASSUME e.event_id \in DOMAIN log.by_id PROVE FALSE
        BY DEF IsNew
      <4>1. PICK i \in DOMAIN log.events : log.events[i].event_id = e.event_id
        BY <2>1 DEF Indexed, EventsOf
      <4>2. i \in DOMAIN saved /\ i # position /\ saved[i].event_id = e.event_id
        BY <2>1, <2>2, <3>1, <4>1
      <4> QED BY <2>1, <3>1, <4>2
    <3>5. mode' = mode /\ position' = position + 1 /\ storage' = storage
      BY <2>3, <3>3, <3>4 DEF ReplayStep, Accepts
    <3> QED BY <1>1, <2>1, <3>1, <3>5 DEF IntactReplay
  <2>4. CASE ReplayDone
    <3>1. /\ mode' = "up" /\ log' = log
          /\ position = Len(saved) + 1
      BY <2>1, <2>4 DEF ReplayDone
    <3>2. Len(log.events) = Len(saved) /\ \A i \in 1..Len(saved) : log.events[i] = saved[i]
      BY <2>1, <3>1
    <3>3. log.events = saved
      BY <2>1, <2>2, <3>2, SeqEqual
    <3> QED BY <3>1, <3>3 DEF IntactReplay
  <2>5. CASE Crash
    BY <2>5 DEF Crash, IntactReplay
  <2> QED
    BY <1>1, <2>3, <2>4, <2>5
    DEF Next, DoAppend, AppendEvent, Save, StartReplay, Damage
<1>2. IInv /\ [Next]_vars => [IntactReplay]_vars
  BY <1>1 DEF IntactReplay
<1> QED BY <1>2, Soundness, PTL DEF Spec

-----------------------------------------------------------------------------
(* The log implements the abstract ledger *)

\* The initial log maps to an empty ledger.
LEMMA LedgerInit == Init => Ledger!Init
<1>1. EmptyLog.events = <<>>
  BY DEF EmptyLog
<1> QED BY <1>1 DEF Init, Ledger!Init

\* Every step of the log maps to a step of the ledger or changes nothing of it.
LEMMA LedgerStep == IInv /\ [Next]_vars => [Ledger!Next]_(Ledger!vars)
<1> SUFFICES ASSUME IInv, [Next]_vars
             PROVE  Ledger!Next \/ UNCHANGED Ledger!vars
  OBVIOUS
<1> USE DEF Ledger!vars
<1>1. CASE DoAppend
  <2>1. PICK e \in Event : AppendEvent(e)
    BY <1>1 DEF DoAppend
  <2>2. mode = "up" /\ log \in Log /\ Indexed(log)
    BY <2>1 DEF AppendEvent, IInv, TypeOK, IndexAgrees
  <2>3. CASE ~Accepts(log, e)
    BY <2>1, <2>3 DEF AppendEvent
  <2>4. CASE Accepts(log, e)
    <3>1. /\ log' = AfterAppend(log, e) /\ genuine' = genuine \cup {e}
          /\ mode' = "up" /\ saved' = saved /\ damaged' = damaged
      BY <2>1, <2>2, <2>4 DEF AppendEvent
    <3>2. CASE log' = log /\ e \in EventsOf(log)
      <4>1. e \in Ledger!Listed(log.events)
        BY <3>2 DEF EventsOf, Ledger!Listed
      <4>2. Ledger!Repeat(e)
        BY <2>2, <3>1, <3>2, <4>1 DEF Ledger!Repeat
      <4> QED BY <4>2 DEF Ledger!Next
    <3>3. CASE log'.events = Append(log.events, e) /\ e.event_id \notin DOMAIN log.by_id
      <4>1. \A f \in Ledger!Listed(log.events) : f.event_id # e.event_id
        BY <2>2, <3>3 DEF Indexed, EventsOf, Ledger!Listed
      <4>2. Ledger!Record(e)
        BY <2>2, <3>1, <3>3, <4>1 DEF Ledger!Record
      <4> QED BY <4>2 DEF Ledger!Next
    <3> QED BY <2>2, <2>4, <3>1, <3>2, <3>3, AppendOk
  <2> QED BY <2>3, <2>4
<1>2. CASE Save
  <2>1. Ledger!Keep
    BY <1>2 DEF Save, Ledger!Keep
  <2> QED BY <2>1 DEF Ledger!Next
<1>3. CASE Crash
  <2>1. mode' = "down" /\ UNCHANGED <<genuine, saved, damaged>>
    BY <1>3 DEF Crash
  <2>2. CASE mode = "up"
    <3>1. Ledger!Close
      BY <2>1, <2>2 DEF Ledger!Close
    <3> QED BY <3>1 DEF Ledger!Next
  <2>3. CASE mode # "up"
    BY <2>1, <2>3
  <2> QED BY <2>2, <2>3
<1>4. CASE StartReplay
  BY <1>4 DEF StartReplay
<1>5. CASE ReplayStep
  <2>1. mode = "replaying" /\ mode' \in {"replaying", "halted"}
        /\ UNCHANGED <<genuine, saved, damaged>>
    BY <1>5 DEF ReplayStep
  <2> QED BY <2>1
<1>6. CASE ReplayDone
  <2>1. /\ mode = "replaying" /\ mode' = "up" /\ position > Len(storage)
        /\ UNCHANGED <<log, storage, genuine, saved, damaged>>
    BY <1>6 DEF ReplayDone
  <2>2. CASE damaged
    <3>1. Ledger!WithoutRepetition(log.events)
      BY DEF IInv, IndexAgrees, Indexed, Ledger!WithoutRepetition
    <3>2. Ledger!Listed(log.events) \subseteq genuine \cup Foreign
      BY DEF IInv, Provenance, EventsOf, Ledger!Listed
    <3>3. Ledger!Reopen
      BY <2>1, <2>2, <3>1, <3>2 DEF Ledger!Reopen
    <3> QED BY <3>3 DEF Ledger!Next
  <2>3. CASE ~damaged
    <3>1. /\ Len(storage) = Len(saved)
          /\ Len(log.events) = position - 1
          /\ \A i \in 1..(position - 1) : log.events[i] = saved[i]
      BY <2>1, <2>3 DEF IInv, Saved
    <3>2. /\ position \in 1..(Len(storage) + 1) /\ storage \in Seq(Document)
          /\ saved \in Seq(Event) /\ log.events \in Seq(Event)
      BY DEF IInv, TypeOK, Log
    <3>3. Len(saved) = Len(log.events) /\ \A i \in 1..Len(saved) : log.events[i] = saved[i]
      BY <2>1, <3>1, <3>2
    <3>4. log.events = saved
      BY <3>2, <3>3, SeqEqual
    <3>5. Ledger!Reopen
      BY <2>1, <2>3, <3>4 DEF Ledger!Reopen
    <3> QED BY <3>5 DEF Ledger!Next
  <2> QED BY <2>2, <2>3
<1>7. CASE Damage
  <2>1. damaged' = TRUE /\ UNCHANGED <<log, mode, genuine, saved>>
    BY <1>7 DEF Damage
  <2>2. Ledger!Spoil
    BY <2>1 DEF Ledger!Spoil
  <2> QED BY <2>2 DEF Ledger!Next
<1>8. CASE UNCHANGED vars
  BY <1>8 DEF vars
<1> QED BY <1>1, <1>2, <1>3, <1>4, <1>5, <1>6, <1>7, <1>8 DEF Next

\* The log implements the ledger, for any events, crashes and damage to storage.
THEOREM LedgerTheorem == Spec => ImplementsLedger
<1>1. Spec => Ledger!Init
  BY LedgerInit DEF Spec
<1>2. Spec => [][Ledger!Next]_(Ledger!vars)
  BY LedgerStep, Soundness, PTL DEF Spec
<1> QED BY <1>1, <1>2, PTL DEF ImplementsLedger, Ledger!Spec
=============================================================================
