---------------------------- MODULE EventLedger ----------------------------
(***************************************************************************)
(* What an audit trail promises its readers (docs/audit.md), whatever the  *)
(* log does inside: a ledger that only grows at its end and never lists an *)
(* identifier twice, and a copy of it that outlives its process.           *)
(*                                                                         *)
(* A closed ledger opens again at its copy.  Once the copy is spoiled it   *)
(* need not open at all; if it does, it holds events that were recorded    *)
(* here or came whole from elsewhere, and it must be said where they can   *)
(* come from: Foreign.                                                     *)
(***************************************************************************)
EXTENDS Naturals, Sequences

CONSTANTS Event, Foreign

VARIABLES ledger,     \* the events readers see, in order
          open,       \* whether there is a ledger in use
          copy,       \* the events kept for the next process
          spoiled,    \* whether the copy has been damaged
          recorded    \* every event the ledger has ever accepted

vars == <<ledger, open, copy, spoiled, recorded>>

Listed(s) == { s[i] : i \in DOMAIN s }

WithoutRepetition(s) ==
  \A i, j \in DOMAIN s : s[i].event_id = s[j].event_id => i = j

Init ==
  /\ ledger = <<>> /\ open = TRUE
  /\ copy = <<>> /\ spoiled = FALSE
  /\ recorded = {}

Record(e) ==
  /\ open
  /\ \A f \in Listed(ledger) : f.event_id # e.event_id
  /\ ledger' = Append(ledger, e)
  /\ recorded' = recorded \cup {e}
  /\ UNCHANGED <<open, copy, spoiled>>

\* Recording a listed event again changes nothing a reader sees.
Repeat(e) ==
  /\ open
  /\ e \in Listed(ledger)
  /\ recorded' = recorded \cup {e}
  /\ UNCHANGED <<ledger, open, copy, spoiled>>

Keep ==
  /\ open
  /\ copy' = ledger /\ spoiled' = FALSE
  /\ UNCHANGED <<ledger, open, recorded>>

Close ==
  /\ open
  /\ open' = FALSE /\ ledger' = <<>>
  /\ UNCHANGED <<copy, spoiled, recorded>>

Reopen ==
  /\ ~open
  /\ open' = TRUE
  /\ IF spoiled
       THEN /\ WithoutRepetition(ledger')
            /\ Listed(ledger') \subseteq recorded \cup Foreign
       ELSE ledger' = copy
  /\ UNCHANGED <<copy, spoiled, recorded>>

Spoil ==
  /\ spoiled' = TRUE
  /\ UNCHANGED <<ledger, open, copy, recorded>>

Next ==
  (\E e \in Event : Record(e) \/ Repeat(e)) \/ Keep \/ Close \/ Reopen \/ Spoil

Spec == Init /\ [][Next]_vars
=============================================================================
