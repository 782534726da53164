----------------------- MODULE ConfigurationContract -----------------------
(***************************************************************************)
(* What docs/configuration.md promises the caller of load_configuration    *)
(* and snapshot(), whatever the loader does inside: one answer to each     *)
(* call, which the file and the expectation decide, and answers that stay. *)
(***************************************************************************)
CONSTANTS Input,              \* pairs of a file and the environment that is expected
          Conforms(_, _),     \* the policy permits the file, for that expectation
          ConfigurationOf(_), \* what a file says
          SnapshotOf(_)       \* the canonical snapshot of a configuration

VARIABLES call,               \* the arguments of the call that runs, <<>> between calls
          loaded, refused     \* the answers so far

vars == <<call, loaded, refused>>

Init == call = <<>> /\ loaded = {} /\ refused = {}

Call ==
  /\ call = <<>> /\ call' \in Input
  /\ UNCHANGED <<loaded, refused>>

Return ==
  /\ call # <<>> /\ call' = <<>>
  /\ Conforms(call[1], call[2])
  /\ loaded' = loaded \cup
       {[ file |-> call[1], expected |-> call[2], configuration |-> ConfigurationOf(call[1]),
          snapshot |-> SnapshotOf(ConfigurationOf(call[1])) ]}
  /\ UNCHANGED refused

Refuse ==
  /\ call # <<>> /\ call' = <<>>
  /\ ~Conforms(call[1], call[2])
  /\ refused' = refused \cup
       {[file |-> call[1], expected |-> call[2], error |-> "ConfigurationError"]}
  /\ UNCHANGED loaded

Next == Call \/ Return \/ Refuse

Spec == Init /\ [][Next]_vars
=============================================================================
