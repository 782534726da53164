---------------------------- MODULE RegistryAudit ----------------------------
(***************************************************************************)
(* The registry and the audit trail together: ARCHITECTURE.md has state    *)
(* transitions recorded in the audit trail, and docs/registry.md leaves    *)
(* the recording to the caller, between two calls of the package:          *)
(* transition_to, which decides, and append of what to_audit_event         *)
(* renders.  The callers of one process decide on lifecycle values of      *)
(* their own, record their decisions in order in one log, and repeat       *)
(* appends whose answer they missed.  Nothing remembers which value is the *)
(* latest: callers that extend one value make two branches of its history, *)
(* and append takes the records of both.  The process saves the trail now  *)
(* and then and may crash between any two calls, after which all it has is *)
(* the saved trail.                                                        *)
(***************************************************************************)
EXTENDS LifecycleTrail

VARIABLES log,        \* the process's InMemoryAuditLog
          recorded,   \* how many of its transitions each caller has recorded
          saved,      \* the events of the trail as last saved
          running

auditVars == <<held, outcome, log, recorded, saved, running>>

-----------------------------------------------------------------------------
(* The process *)

AuditInit ==
  /\ Init
  /\ log = Trail!EmptyLog
  /\ recorded = [h \in Holder |-> 0]
  /\ saved = <<>>
  /\ running = TRUE

Decide ==
  /\ running
  /\ DoTransitionTo
  /\ UNCHANGED <<log, recorded, saved, running>>

\* Records the k-th transition of a caller's value: the next one, or an earlier one
\* again.  Rendering may raise, and so may the append.
Record(h, k, header) ==
  /\ running
  /\ k <= Len(held[h].transitions)
  /\ LET t == held[h].transitions[k]
         e == ToAuditEvent(t, header)
     IN  IF RenderOk(t) /\ Trail!Accepts(log, e)
           THEN /\ outcome' = "ok"
                /\ log' = Trail!AfterAppend(log, e)
                /\ recorded' = [recorded EXCEPT ![h] = IF k > @ THEN k ELSE @]
           ELSE /\ outcome' = IF RenderOk(t) THEN "integrity" ELSE "validation"
                /\ UNCHANGED <<log, recorded>>
  /\ UNCHANGED <<held, saved, running>>

DoRecord ==
  \E h \in Holder, header \in Header :
    \E k \in 1..(recorded[h] + 1) : Record(h, k, header)

SaveTrail ==
  /\ running
  /\ saved' = log.events
  /\ outcome' = "ok"
  /\ UNCHANGED <<held, log, recorded, running>>

CrashProcess ==
  /\ running
  /\ running' = FALSE
  /\ held' = [h \in Holder |-> New(held[h].strategy_id)]
  /\ log' = Trail!EmptyLog
  /\ recorded' = [h \in Holder |-> 0]
  /\ outcome' = "ok"
  /\ UNCHANGED saved

\* The next process replays the trail and, from its payloads, every lifecycle.
Recover ==
  /\ ~running
  /\ LET rebuilt == [ h \in Holder |->
                       Rebuilt(held[h].strategy_id, TransitionsIn(saved, held[h].strategy_id)) ]
     IN  IF \A h \in Holder : LifecycleOk(rebuilt[h])
           THEN /\ held' = rebuilt
                /\ log' = LogOf(saved)
                /\ recorded' = [h \in Holder |-> Len(rebuilt[h].transitions)]
                /\ running' = TRUE
                /\ outcome' = "ok"
           ELSE outcome' = "integrity" /\ UNCHANGED <<held, log, recorded, running>>
  /\ UNCHANGED saved

AuditNext == Decide \/ DoRecord \/ SaveTrail \/ CrashProcess \/ Recover

AuditSpec == AuditInit /\ [][AuditNext]_auditVars

-----------------------------------------------------------------------------
(* Properties *)

\* The callers that work on a strategy
WritersOf(s) == { h \in Holder : held[h].strategy_id = s }

Starts(ts, us) == Len(ts) <= Len(us) /\ SubSeq(us, 1, Len(ts)) = ts

\* The trail of a strategy with one writer is a legal lifecycle, the part of the
\* writer's history that was recorded: appends repeated after a lost answer, headers
\* that change on the retry, crashes between a decision and its record, and
\* identifiers used again for a decision that was lost leave no gap, no repetition
\* and no stranger in it.
TrailReplays ==
  running =>
    \A s \in Strategy : \A h \in WritersOf(s) :
      WritersOf(s) = {h} =>
        LET ts == TransitionsIn(log.events, s)
        IN  /\ HistoryOk(s, ts)
            /\ ts = SubSeq(held[h].transitions, 1, recorded[h])

\* Recovery gives back the trail as it was saved, and is only refused when two
\* callers worked on one strategy.
RecoveryAccepted ==
  [][Recover =>
       \/ running' /\ \A h \in Holder :
                       held'[h].transitions = TransitionsIn(saved, held[h].strategy_id)
       \/ ~running' /\ \E s \in Strategy : \E g, h \in WritersOf(s) : g # h]_auditVars

\* A trail that replays is one branch: whatever is appended by callers that do not
\* know of each other, replay() either refuses the records of a strategy or rebuilds a
\* value that one caller holds, never a splice of two.
LegalTrailIsABranch ==
  running =>
    \A s \in Strategy :
      LET ts == TransitionsIn(log.events, s)
      IN  ts # <<>> /\ HistoryOk(s, ts) => \E h \in WritersOf(s) : Starts(ts, held[h].transitions)

\* A trail goes bad by a fork and by nothing else: as long as callers record what
\* extends the trail, and repeat what it has, it replays.
OnlyForksSpoil ==
  [][\A s \in Strategy :
       LET ts == TransitionsIn(log.events, s)
       IN  HistoryOk(s, ts) /\ ~HistoryOk(s, TransitionsIn(log'.events, s)) =>
             \E h \in WritersOf(s) : ~Starts(ts, held[h].transitions)]_auditVars

\* docs/registry.md: "to_audit_event() renders a transition as a versioned audit
\* event", whichever transition the registry has accepted.
AcceptedIsRenderable ==
  \A h \in Holder : \A i \in DOMAIN held[h].transitions : RenderOk(held[h].transitions[i])
=============================================================================
