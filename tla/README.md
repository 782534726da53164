# Formal models of the autonomous trading system

This directory holds TLA+ models of the parts of `autonomous_trading` that carry
logic of their own, TLC configurations that check them on small instances, and
TLAPS proofs of their main properties for instances of any size.
`PROJECT.json` maps every definition to the source lines it stands for.
Paths below are relative to the repository root unless they start with `tla/`.

## 1. The system

The program is a Python library, record-only by mandate: no broker, no network,
no clock, no durable storage. Twelve of its packages are docstrings. What has
behaviour:

| Component | State it keeps | Operations | Correct when |
|---|---|---|---|
| Strategy lifecycle registry (`registry/lifecycle.py`) | none of its own: an immutable `StrategyLifecycle` value (strategy, state, transition records) in the hands of each caller | `initialize`, `transition_to`, `append`, `replay`, the public constructor, `history`, `to_audit_event` | every value climbs the eight states in order; promotion gates hold against the whole history; retirement is always possible and final; a replay never yields a history nobody had |
| Audit log (`audit/log.py`) | a list of events and an index by `event_id` | `append`, `get`, `events`, `serialize`, `replay` | both views agree; an acknowledged event stays; repetition is idempotent and conflict refused; a replay is all or nothing |
| Audit event schema (`audit/schema.py`) | none: immutable events with two nested digests, immutable payloads | constructors, `from_mapping`, `to_mapping`, `to_json`, `from_json` | one canonical form per event and payload; altered content never verifies; sensitive keys are redacted |
| Configuration (`configuration/`) | none | `loads_configuration`, `load_configuration`, `snapshot` | accepts only the closed policy, and refuses everything else with one error (not always: section 6); equal configurations have equal digests |
| Import boundary checker (`scripts/check_import_boundaries.py`) | visited and active sets of one search | `find_boundary_violations` | reports every forbidden import and every declared cycle |
| Skills checker (`scripts/check_repository_skills.py`) | none | `find_skill_violations` | names every skill that has a flaw, and only those |
| Validation pipeline (`scripts/validate.py`, CI) | the `dist` directory | a fixed list of commands, then a build; the same stages as CI jobs | exit status 0 speaks for the tree; a failed check keeps the last build; both lists agree |

**How they interact.** The registry calls the audit package once: a transition is
rendered as an event (`to_audit_event`) and handed to the caller, who appends it
to a log or does not. Neither package calls the other's state. Storage of
transition records and of serialized events is the caller's. The hard behaviour
is therefore at the boundaries: callers with stale values, records coming back
damaged, a crash between two calls, retries of a call whose answer was lost.

**Hard behaviours.** There are no threads in the package. What can go wrong in an
order nobody tested: forks of one history by two callers; records of one branch
appended to another; partial and damaged replays; a crash after `append` and
before `serialize` was saved; a crash between a decision and its record; files
that change while a checker reads them; equalities (of datetimes, of decimals, of
JSON texts) that have to agree with digests;
identifiers reused after a lost tail; checks on neighbouring records that must
add up to a property of the history; times that coincide. `PROJECT.json` lists
each at its line, with the property that covers it or the reason none does.

## 2. Modules

| Module | What it is |
|---|---|
| `LifecyclePolicy` | the promotion policy as pure operators: legal pairs, the checks on one record, the checks on a history |
| `StrategyLifecycle` | callers (`Holder`), each with the lifecycle value it holds; one action per operation of the registry |
| `AuditRecords` | events, their digests and documents, and the log as pure operators |
| `AuditLog` | a process that appends, saves, crashes and replays; storage that damages what was saved |
| `EventLedger` | what an audit trail promises its readers, which `AuditLog` implements |
| `Datetimes`, `EventIdentity` | Python's aware datetimes, and what `append` takes for the same event |
| `AuditPayload` | payloads made of mappings, of texts and of copies, however deep |
| `LifecycleTrail` | how transitions get into a trail and lifecycles out of it |
| `RegistryAudit` | registry and trail together: callers that decide, record, retry, save, crash and recover |
| `Decimals`, `CanonicalDecimal` | `decimal.Decimal` as its tuple; the loop that writes one in canonical form |
| `ConfigurationSchema`, `Configuration` | the sections' constructors and equality; `load_configuration` step by step, then `snapshot` |
| `ConfigurationContract` | what a caller of `load_configuration` and `snapshot` is promised, which `Configuration` implements |
| `PackageRules` | the dependency rules as data, the repository's own table, what acyclic means |
| `CycleSearch` | the search of the rules for cycles, one action per turn of its loops |
| `ImportBoundaries` | the import boundary checker from its start to its exit status, with `CycleSearch` as a part |
| `RepositorySkills` | the skills checker, one action per file access, while somebody edits the files |
| `ValidationPipeline` | `validate.py` over a tree that is edited, and the jobs of CI |
| `StrategyLifecycleProofs`, `AuditLogProofs`, `RegistryAuditProofs`, `RepositorySkillsProofs`, `ValidationPipelineProofs` | theorems and proofs about the module of that name |
| `AuditSchemaProofs` | the same for `EventIdentity`, then for `AuditPayload` |
| `ConfigurationProofs` | the same for `CanonicalDecimal`, then for `Configuration` |
| `ImportBoundariesProofs` | the same for `CycleSearch`, then for `ImportBoundaries` |
| `MC*` | the constants of the checked instances; `MCAuditSchema` and `MCRepositoryTools` put two modules side by side |

Definitions named `X_Something` under a comment "Slip" are mutated forms of `X`:
plausible mistakes in the code, one for each property, used to see that the
property notices. No specification uses them.

### StrategyLifecycle

A lifecycle value is a record with the dataclass's three fields; a transition
record has the fields the checks read. `Construct` is the constructor's check of
the whole history (`__post_init__`, lines 513-555), in which every operation
ends: the caller keeps the new value, or an integrity error and its old value.
The loop's body is split into `UniqueIds`, `OwnedBy`, `Sequenced`, `Chained` and
`Chronological`; the loop raises exactly when one of them fails, and which one
only changes the message. `TransitionTo` first builds the record
(`NextTransition`), whose own checks (`TransitionOk`) raise a validation error.

Callers may at any time start over, decide a transition with good or bad
controls, append any record that exists anywhere or one built by hand, rebuild
any caller's history from a damaged reading of it (a lost tail, or one record
lost, repeated or swapped), under any strategy's name, or call the constructor
with a state of their choice.

Abstracted: identifier, URI and symbol syntax, actors and reasons (they decide
nothing), Python type checks, and the rendering of decimals (fractions are
integers in units of `1/Whole`). A reference's schema name is folded into its
URI; they only occur together in `_evidence_identity`.

### AuditRecords and AuditLog

An event is an identifier, a header (everything else outside the payload) and a
payload. SHA-256 is taken to be collision free, so a digest is what it digests,
and the event digest covers the payload digest, as in `_body`. A document is the
content, the two digests and how it is written: canonical, otherwise, or not
parsable. `FromJson` keeps the order of `from_json`'s verdicts, with the `TypeError` of
`hmac.compare_digest` for a digest that is not ASCII (`Compared`). What a document
turns into under damage is other content with the digests left alone or only the
payload's recomputed, or other bytes; with both digests recomputed it is the
document of some other event, which is what `Foreign` stands for (docs/audit.md:
a digest is evidence of tampering, not identity).

`replay()` is one action per turn of its loop, so that a crash can fall between
two turns; the partial log is a local variable in the code and no caller sees it
(`mode = "replaying"`). `genuine`, `acked`, `saved` and `damaged` are history
variables: no action reads them.

`EventLedger` is the abstract specification: a sequence that only grows while it
is open, without repeated identifiers, and a copy at which it reopens. The
instance `Ledger` in `AuditLog` maps the log of a running process to the ledger and
`saved` to the copy; a process that is down or replaying shows no ledger.

### Datetimes and EventIdentity

`AuditLog` identifies an event with its content. `append` compares dataclasses, and
so datetimes: `EventIdentity` is a log whose events differ in their datetimes, which
are in UTC or in a civil zone that skips one hour and repeats another. `ToJson` keeps
the moment only, and a restart gives every event back in UTC. `last`
(the event, the one it met, the answer) is a history variable for the properties.

### AuditPayload

A value is a tree: a function from positions, which are the steps from the root, to
nodes, each of them a type with what the node has itself. A text is a syntax tree of the
same kind and whether its spelling is canonical. `_normalise_json_value` calls itself for
what a value has inside, and so visits every node: `Accepts` is its verdict on all of them,
`Tree` what `json.dumps` writes of each, with the keys of a mapping in the order of `Key`.
`Constructs` is `__post_init__`, which parses and normalises once more and compares the
texts. A key that a text repeats has one value in the model, which does not matter, since
such a text is refused. Which keys are sensitive is
a constant; the words of `_is_sensitive_key` are string processing. `created`
remembers what each payload was made of.

### RegistryAudit

`LifecycleTrail` EXTENDS `StrategyLifecycle` and takes `AuditRecords` as an
instance whose payloads are transitions; `RegistryAudit` is a process on top of it.
The package contains no such process; the model is the one its documents leave to
callers: each caller has lifecycle values of its own, several may extend one history
without knowing of each other, and each records its decisions in order under the
transitions' identifiers in one log. Rendering fails when an integer does not fit a
payload (`RenderOk`), appending fails when the identifier is taken by another event,
for instance by another caller's transition or by an earlier try with another
header; both leave the caller where it was. After a crash the next process has the
saved trail only. That a saved trail itself comes back unharmed is `AuditLog`'s
subject and assumed here.

### Decimals, CanonicalDecimal, ConfigurationSchema and Configuration

`Configuration` is one call after another of `load_configuration` with a file and an
expected environment, each followed by `snapshot()` of the result. A document is a
function from fields to pairs of a TOML type and a value (`TomlValue`, of which
`TomlAssumption` says that a value fits its type); what cannot be parsed is one of
`FailingFile`. Each step of the loader is an action, in the code's order, and each
may raise: `ErrorOf` is `KeyError` for a field that is absent, so that
`FailsClosed` shows that presence is checked before every read. Two of `FailingFile`
end in an error that the loader does not catch: `"invalid_path"` (a path with an
embedded NUL) in the `ValueError` of `read_bytes`, `"nested_too_deep"` in a
`RecursionError`.
`ConstructSection` reads a section's fields and runs its constructor. The snapshot
writes the decimals of the configuration one by one with `CanonicalDecimal`, whose
`BeginText`, `StripZero` and `FinishText` are the loop of `_canonical_decimal`; the
registry has the same loop for its own decimals. The digest is what it digests.
`Writable` is whether `json.dumps` can write the integers of a configuration.

`ConfigurationContract` is the abstract specification: a call, and then one answer to it,
a configuration that says what the file says with the snapshot that has the canonical text
of each of its decimals, or a refusal with `ConfigurationError`. It is the documents'
promise and not the code's, which keeps it in `Ordinary` calls only: those of the two
files above and those of a configuration that is not `Writable` are left out. The instance
`Contract` in `Configuration` shows the arguments of an ordinary call that runs and the
answers to ordinary calls; everything between the beginning and the end of a call is
hidden, and so are the other calls.

### PackageRules, CycleSearch and ImportBoundaries

`CycleSearch` is the recursive function `visit` with its outer loop. The call
stack is `activePath` and, for each call on it, the dependencies its loop has
still to see (`pending`); `sorted` is a rank of names. `activePackages` is kept
apart as in the code. The rules are chosen in `SearchInit`.

`ImportBoundaries` EXTENDS it with a source tree: what each path is, and files with import
statements, statements that may bind functions that import by name (`bindings`: any form,
path, name and alias), and calls. `CheckPolicy` is `_policy_violations` up to its search,
`Search` is a step of `CycleSearch`, `EndSearch` reports its cycles, `InspectFile` is one
turn of the loop over files, `Exit` is `main`. A file that is not UTF-8 ends the check with
an exception (`outcome = "raised"`). `Absolute`, `Relative` and `Judgement` follow the
code's resolution and order of verdicts; `TargetsInternal` looks at the tree as the code
does. `DynamicCalls` follows the two forms of binding that the code looks for
(`ImportsPackage`, `ImportsFunction`). Names are members of small sets, an import statement
has one name (the code treats several one by one), line numbers and wording are left out.

A name in a statement or a path is an `Identifier`; `TreesAssumption` says of the source
trees what a parser and a file system guarantee: what exists is in a directory that
exists, a file is in a package or a directory without one, or is a module of the top
level, and only `from` takes dots. No name is `Outside`.

The reference definitions the verdict is compared with (`Loads`, `Fails`,
`ImportsByName`, `Permitted`) say what Python does with a statement; they are not
the checker's, and no action uses them. `ImportsByName` follows every form of binding
(`Denotes`): what object each bound name stands for, and whether the object that is
called is one of `ByNameFunctions`. `Below`, what a package depends on through
others, is the least set that is closed under the rules.

### RepositorySkills and ValidationPipeline

`RepositorySkills` gives each access to the file system an action (`FindRoot`,
`ListSkills`, `FindSkill`, `ReadSkill`, `FindMetadata`, `ReadMetadata`), and `Edit`
may fall between any two; only the listing, `iterdir` with an `is_dir` for each entry, is
one action. A file is its kind and a record of what the conditions tell
apart. `Wrong` says what is wrong with the root by the documents' description of a
good file, not by the checker's conditions; `lasting` and `ever` are its history.
`ContentsAssumption` gives a description its length and its hint at when to use the
skill, and a short description its length, if the YAML value is a string at all;
`ExpectedAssumption` says that `EXPECTED_SKILLS` is not empty and in hyphen-case.

`ValidationPipeline` runs the commands of `validate.py` one by one, then clears
`dist` and builds. The commands are external: each passes or fails on a tree,
always in the same way. The tree may be edited at any moment, the run interrupted,
and `rmtree`, which ignores errors, may leave files behind. The jobs of CI judge the
tree that was pushed.

## 3. Runs

| Run | Instance | What it shows |
|---|---|---|
| `ladder` | one caller, one strategy, eight identifiers, two times, 18 sets of controls, hand-built records | the whole climb with everything that may be wrong at each step: `LadderClimbed`, `NoPaperWithoutValidation`, `ControlsCoverHistory`, `RetirementAccepted` |
| `forks` | two callers, two strategies, three identifiers, two times | forks, splices, foreign records and damaged replays: `AppendIsIncremental`, `RetiredIsFinal`, `ReplayYieldsPrefix` |
| `audit` | two identifiers, headers and payloads, one foreign event, one fault, two crashes | `IndexAgrees`, `AckedIsKept`, `ReplayIsComplete`, the refinement `ImplementsLedger`, and with fairness `RecoveryRestores` |
| `trail` | two callers, of one strategy or of two, three identifiers, two headers, one time, evidence that can and cannot be rendered | one writer's trail is its recorded history (`TrailReplays`) and recovery accepts it (`RecoveryAccepted`); a trail that replays is one branch of a fork (`LegalTrailIsABranch`), and nothing but a fork spoils one (`OnlyForksSpoil`) |
| `rendering` | the same with one caller | a counterexample to `AcceptedIsRenderable`, see section 6 |
| `audit_schema` | datetimes: one identifier, two payloads, six hours of two zones, one hour skipped and one repeated; payloads: some hundred mappings and texts of up to three levels, two calls | `ConflictsAreRefused`, and `RefusalsAreConflicts` with its exception; `SecretsAreRedacted` however deep a key is, `OneTextPerContent`, `CopyIsThePayload` |
| `repeated_hour` | the datetimes alone | a counterexample to `RepetitionIsAccepted`, see section 6 |
| `configurations` | two valid documents with each single field dropped, added or replaced by values of every type, for four expectations; pairs of documents that spell equal and different values | `FailsClosed`, `LoadsThePolicy`, `EqualIffSameSnapshot`, `OneTextPerValue`, the refinement `ImplementsContract` for ordinary calls, `CallsEnd` |
| `promises` | the files that cannot be read or parsed and documents with an integer at and above `Printable`, three calls | a counterexample to `SomePromiseIsKept`, and so to each of its three promises, see section 6 |
| `imports` | all rules for three packages and an undeclared name, all rules for four packages that do not list themselves, and `ALLOWED_DEPENDENCIES`; one import in each form from each place in 64 layouts of packages a, b and a third name; two packages that import each other under three sets of rules; one call with up to two bindings; a missing root | `CyclesAreReal`, `Verdict`, `EveryKnotReported`, `ValidMeansPermitted`, `ReportsAreJustified`, `ValidMeansLayered`, `Termination` |
| `dynamic_imports` | one file with one binding and one call, of each form | a counterexample to `NoDynamicImports`, see section 6 |
| `tools` | skills: two expected skills and a name that is not one, each file good or flawed in one way, two edits; pipeline: two releases, at most one stage failing on a tree, two edits | `LastingFlawsAreReported`; without edits, `ReportIsExact`; `PassedMeansValidated`, `JobsAgreeWithValidate`, `FailedChecksKeepDist` |

`audit_schema` and `tools` each check two modules that share no state: a behaviour is of one
of the two (`part`, `tool`), so that nothing is interleaved that does not interact.

**Why the bounds are enough.** The ladder has seven rungs, and eight identifiers
let a history use one per rung and still offer a used and a fresh one. The gates
compare times with `<` and `<=` only: with two decision times, approvals at
either and expiries one later, each comparison is seen below, at and above its
boundary. Three identifiers give histories of three records, the shortest with a
record in the middle to lose, swap or repeat, and enough for a fork whose
branches have records of their own. Two events are enough for each pair of
views, orders, clashing identifiers and crossed digests; one fault suffices for
any single document, and the theorems cover more. Two crashes let a replay be
interrupted and started again. Identifiers in `ladder` and `trail` are offered in
order, since histories that differ only in the names of fresh identifiers behave
alike; `forks` and `trail` use symmetry where constants are interchangeable. Two
callers are the fewest that make a fork, and each branch can grow after it.

The wall hours of `audit_schema` reach from before the skipped hour (`Forward`) to after
the repeated one (`Back`); one identifier suffices, as events meet only under their
identifier. `MinInteger`, `MaxInteger`, `MaxJsonInteger` and `Printable` are scaled down:
values occur at each limit and one beyond. `MaxCalls` is two, since `OneTextPerContent`
relates two payloads. In `configurations`, `Offered` decides which calls are made: any
file alone, and a second one only among documents that are compared; a decimal has up to
three digits. `promises` has the exceptional files only, in any three calls. In
`dynamic_imports` a file has one binding and one call, in the forms and names of
`Bindings` and `Calls`; `imports` has the same files with up to two bindings. In `tools`,
`MaxEdits` is two, so that a directory can go and come back during one check, and one
directory at a time has a flaw before the edits. In the pipeline two edits
(`MaxTreeEdits`) allow a tree to change and change again during a run, and `MaxFlaws` is
one because the run stops at the first failure.

Every bound is a constant (`MaxFaults`, `MaxCrashes`, `MaxCalls`, `MaxEdits`,
`MaxTreeEdits`, `MaxFlaws`) or the size of a constant set; histories are bounded only by
the identifiers callers have. Deadlock is checked except where the system really stops:
the checkers of imports and skills are programs that end (and so `tools`, although
`validate.py` can always run again), a caller of `AuditPayload` or of `load_configuration`
may make no further call. `Termination` and `CallsEnd` say that the first and the last of
them stop only there. Three packages allow every shape of overlapping cycles with
self-listing and unknown names, four allow two separate groups. In the trees, two levels
of names distinguish a package from its members, three levels of relative import stay
inside, reach the root, and leave it, and the third name stands for whatever is not
declared.

**Fairness.** Callers owe the library nothing, so no caller action is fair: neither
an append, nor a load, nor an edit, nor a run of `validate.py`. What is fair is a
single call that has begun, because it runs on by itself: `replay()` to its end or its
error (`ReplayStep`, `ReplayDone`; a crash may end it, and `RecoveryRestores` allows
for that), `load_configuration` with `snapshot()` and the loop inside it (`Load`,
`WriteDecimal`, `WriteText`), and the import check (`Next`).

## 4. Proofs

All theorems hold for any callers, strategies, identifiers, times, controls, events,
TOML values, source trees, contents of skills and releases, and for any bounds, under
the named assumptions of the modules only:

| Assumption | What it says |
|---|---|
| `WholeAssumption`, `SnapshotAssumption`, `SeasonAssumption`, `WallAssumption` | units and limits are natural numbers, hours are integers, the repeated hour is after the skipped one |
| `LifecycleAssumption`, `AuditAssumption` | what is offered to the library has the fields its checks read |
| `RulesAssumption` | rules name packages, finitely many, and list finitely many; `Rank` is any function to the integers |
| `TreesAssumption` | source trees are what a file system and a parser can give, with finitely many files |
| `PayloadAssumption` | values are what Python's containers can hold, syntax trees what a JSON parser can give; keys are in sorted order, without repetition |
| `TomlAssumption` | a TOML value fits its type |
| `ExpectedAssumption`, `ContentsAssumption` | the expected skills are some, in hyphen-case; strings in YAML have a length |

TLC evaluates each of them on the instances it checks, and has checked the inductive
invariants on those instances before they were proved.

**Registry** (`StrategyLifecycleProofs`). The inductive invariant `IInv` is `TypeOK` and,
for every caller, that the held value passes `LifecycleOk` and each of its records
`TransitionOk`. It is needed because the properties speak of records deep in a history,
while an operation only builds and checks the last: the checks made when a record was
created must be known to hold of it wherever it ends up. From `IInv`, `Rungs` shows that a
checked history climbs the ladder (the state after `i` records is the `i+1`st rung) and
`Ascending` that its times are ordered; a history has at most seven records, so both go from
one position to the next without an induction. `LadderTheorem`, `ValidationTheorem` and
`ControlsTheorem` follow from these. `AppendTheorem` says that checking the whole history on
every append is no stronger and no weaker than checking the new record. `RetiredTheorem`,
`RetirementTheorem` and `ReplayTheorem` are about single steps; the last one rests on
`ReadingInOrder`: a reading whose records pass `Sequenced` has every record at its own
place.

**Audit log** (`AuditLogProofs`). `IInv` joins `TypeOK` and `IndexAgrees` with five parts:
`Idle` (what a process that is down or replaying cannot have), `Acknowledged`, `Provenance`
(every event digest in storage is that of an event somebody appended: damage can change
content and even the payload digest, but a document only verifies when the event digest
matches, so `VerifiedIsGenuine`), `Saved` (undamaged storage is the saved events, and a
replay has rebuilt them up to its position) and `Rebuilt` (the partial log and the documents
read so far are the same events in the same order). `AppendOk` is the lemma about the log
itself: `append` keeps the two views in agreement and every event in its place. Each action
has a lemma saying that it keeps `IInv`; the theorems read their property off it.
`RestoreTheorem` is the part of `RecoveryRestores` that needs no fairness: over undamaged
documents a replay is never refused one, since `Saved` has the log so far be the documents
so far, so that each document is canonical and its identifier new; what it ends with is what
was saved. `LedgerTheorem` is the refinement: `Init` maps to a ledger's initial state and
every action to a ledger's step or to none, damage and crashes included.

**Event identity** (`AuditSchemaProofs`). The invariant is that every datetime of
the log is at offset 0, which a restart keeps. `EqualAtZero` and `SameMoment` then
say how far `==` and the moment agree on such datetimes, and the two properties of
an answer follow.

**Payloads** (`AuditSchemaProofs`). `PayloadInv` says that every payload is the canonical
text of values that `Accepts` lets through and that say what its call was given. Since a
value is a function over positions, what the code does by recursion is said node by node:
`SameSteps` shows that writing and parsing leave every position where it was, so that a
property of trees goes from one to the other (`WritesSyntax`, `ParsesValue`) without an
induction over values. Sorting the keys is a recursion over `Key`; its facts
(`SortedContent`) are proved from the least position at which they fail. `CopyOfCopy` says
that a text made of a parsed text is that text, `TextIsContent` that two texts are equal
exactly if what they were made of says the same, and `FieldIsRedacted` that a sensitive key
of a text has nothing else below it; the three theorems follow.

**Registry and trail** (`RegistryAuditProofs`). `AuditInv` joins the registry's `IInv`,
so that `ComposedRegistry` carries its theorems over to values that a recovery rebuilt,
with what ties the callers to the trail: `TrailOk` (every event is a sound transition
under its own identifier, and the index agrees), `RecordedOk` (what a caller has recorded
is in the trail), `SoleWriter` (the trail of a strategy with one writer is, in order, what
the writer recorded), `SavedIsLegal` (what was saved of it is a legal history, or a
recovery would leave nobody with it) and `OneBranch`. `OneBranch` is the property itself,
but also for a process that is down: it is kept because a record that makes a legal trail
longer carries a state, a predecessor and a number that fit only one place of one history,
and the caller who appends it has the trail before it as its own past, for the records
before it are identified by the identifiers they share. That the transitions of a
strategy are found in the order of the trail (`Found`) is a recursion over positions;
its facts are proved from the least position at which they fail.

**Canonical decimals** (`ConfigurationProofs`), for any digits and exponents and
without powers of ten: the invariant `Loop` says that the digits removed so far are
zeros and are counted in the exponent, and that the ones left begin with a nonzero
one, so that the loop cannot run out. Two texts that describe their decimals are equal
exactly if the digits, padded to one exponent, are the same. The theorems are about
`DecimalSpec`, the steps that `Configuration` takes for each decimal, and rest on no
assumption.

**Configuration** (`ConfigurationProofs`). `LoaderInv` says what each part of
`load_configuration` takes for granted: which fields have been required (`Checked`) and
which sections are constructed from which values (`Constructed`), while `Returning` and
`Snapshots` say that a configuration that gets as far as its snapshot conforms to the policy
and that the snapshot has the canonical text of each decimal. The lemmas `SectionPermitted`
and `SecretsPermitted` compare, section by section, what the code accepts with what the
documented policy permits (`ConformsInParts`); a section's fields are present when they are
read because `RequireTable` came to it before `ConstructSection`, which is
`FailsClosedTheorem`, with the two exceptions of `Decode`. `SnapshotTheorem` needs both
directions: equal decimals have one text by `SamePayload`, and texts that are equal describe
equal decimals (`CanonicalDescribes`, `TextTheorem`'s lemmas); integers are decimals too
(`DigitsOfNumber`). `ContractTheorem` is the refinement for ordinary calls: a step maps to
the beginning of such a call, to its answer, or to none; the steps of other calls map to
none, as they leave the answers to ordinary ones alone (`OrdinaryAnswer`). A refusal in an
ordinary call is a `ConfigurationError` (`RaiseRefuses`), which takes `LoaderInv` again, and
the snapshot is canonical since the configuration is `Writable` (`SnapshotReturns`). `Made`
says that what a snapshot is taken of is what the file says as a whole, although it was read
section by section; that the answer is the right one is read off `LoaderInv` after the step.

**Import boundaries** (`ImportBoundariesProofs`), first the search. That a depth-first
search misses no cycle is usually argued from the order in which packages are finished.
The invariant used here needs no order. `Seen` says that each dependency taken so far is
visited, on a reported cycle with the package it was taken for, or next on the path;
`Grounded` that a dependency of a visited package is visited or joined to it by a
reported cycle, and that every nonempty group of visited packages has a member that
depends on none of the group or one that is on a reported cycle. When a visit ends, its
package joins the visited ones; any group with it still has such a member: another one's,
since none of the others depends on it, or itself. When the search returns every declared
package is visited (`Outer`). If nothing was reported, `Grounded` is `Acyclic`; conversely
the packages of a reported cycle form a group that is not grounded (`CycleNotAcyclic`).
`KnotTheorem` is the stronger statement, that each knot of packages is named by some
report although the search visits no package twice: the packages of a knot are a group in
which each depends on another, so one of them is on a reported cycle; and what a package
on a cycle depends on through others, and that depends on it, is reached by going round
(`RoundTheCycle`, `BelowIsLeast`). `Stack`, the path along the rules, makes every
report a cycle (`CycleOk`) and bounds the depth. No sorted order is assumed.

The check is a refinement of the search: its steps are steps of the search or leave it
alone (`SearchTheorem`), so that `CyclesAreReal`, `Verdict` and `EveryKnotReported` hold
for any source trees. `CheckInv` adds, for each stage, that what it found is in the report
(`PolicyReported`, `CyclesReported`, `FilesReported`) and that nothing is reported of an
import but what the inspection of its file finds (`OnlyFound`). `PermittedTheorem` and
`JustifiedTheorem` then compare the code's verdict with what Python loads, form by form
of an import, in both directions; for calls, `FollowedNames` says that a name which
stands for `importlib` or `import_module` and was bound in one of the two followed forms is
among the names that the checker collects. `LayeredTheorem` adds that the rules of a valid tree
are acyclic.

**Skills** (`RepositorySkillsProofs`). `SkillFlawsAreFlaws` and `MetadataFlawsAreFlaws`
show that the checker's conditions find something exactly in files that are not good.
The invariant says what a check has behind it: whatever was missing or unexpected at the
listing is reported (`Listed`), every skill whose validation has ended has its lasting
flaws reported (`Complete`), also the one whose metadata is still to be read
(`Halfway`), and without edits nothing else is (`Justified`). An edit only shrinks what
has lasted, so it keeps `Complete`, and ends what is claimed of a root without edits.

**Pipeline** (`ValidationPipelineProofs`). `PipelineInv` speaks of the tree as long as its
version is the one the run started over: the commands behind pass on it (`Progress`), the
source distribution that a wheel is made from is its own (`Building`), a failure is one of
its flaws. An edit makes the tree newer than the run for good. `CommandFacts` compares the
two lists of stages.

**Only model-checked.** `Termination`, `RecoveryRestores` and `CallsEnd` are liveness
properties under fairness, outside the proof system's reach. What of them needs no fairness
is proved. `StepsTheorem`: the import check has a natural number of steps left, which each
step makes smaller, which is 0 exactly at its end, and a search that has not returned has a
turn that is due; `TurnsTheorem` counts the turns of the search exactly, one for each declared
package, each dependency and each end of a visit. `EndTheorem`: the same of a load, with the
parts of the loader counted before the turns of the loop over the digits. `RestoreTheorem`:
each step of an undisturbed replay takes it one document further. What remains is that a
fair step is not put off for ever. In turn `LogIsGenuine`,
`SavedSurvives`, `DepthBounded`, `WritesCanonicalText` and the type invariants of all
modules but the registry are proved and in no run: `ImplementsLedger`, `Termination` and `CallsEnd`
are checked in their stead.

## 5. Not modelled

- In the import checker: parsing, rebinding of names, names in `__all__` that a
  star import would load, and extension modules.
- JSON, TOML, YAML, UUID and timestamp syntax, the patterns of names and the words
  that make a key sensitive: string processing; the models start from what the
  parsers and patterns accept.
- Values nested without end: payload normalisation recurses without a limit, and the
  documents promise none.
- Digests of transitions (`content_sha256`): computed and never compared by the
  registry. Nor the `ValueError` of `json.dumps` when one is computed
  (`lifecycle.py:373`) for an integer of more digits than the interpreter converts: no
  record comes of it, and no caller's value changes.
- `integrity_sha256` in the equality of events (`schema.py:319`): it is the digest of the
  other fields' text, and so adds nothing to their comparison.
- Callers that record decisions out of their order or under identifiers of their own:
  `DoRecord` is the discipline that `docs/registry.md` leaves to them.
- A risk envelope that expires while a strategy is in `LIMITED_LIVE`, and
  evidence contradicted by a later transition: the code has no check for them and no
  step at which it could notice (docs/registry.md: the registry is record-only).
- The packages that are docstrings.

## 6. Disagreements with the documentation

### Transitions that cannot be rendered

`docs/registry.md:104` says that `to_audit_event()` renders a transition as a
versioned audit event, and `ARCHITECTURE.md:154` that transitions are recorded in
the audit trail. The registry accepts evidence with any positive
`schema_version` (`lifecycle.py:215`), while an audit payload holds signed 64-bit
integers (`schema.py:93`). A transition with a larger version is accepted and
hashed, and `to_audit_event` raises `AuditValidationError` for it. The run
`rendering` reaches such a transition in one step (`MaxJsonInteger` is scaled
down). `trail` shows the consequence: the writer's later decisions cannot be
recorded without a gap, but what is in the trail stays a legal history.

### An identical event that is refused

`docs/audit.md:75` says that replaying an event with identical content is idempotent.
`append` compares datetimes with `==` (`log.py:32`), and Python finds a datetime in
the skipped or repeated hour of a zone equal to none of another zone. Such a
datetime can be at offset 0 and is accepted (`schema.py:227`); after a restart the log
has it in UTC and refuses its repetition as a conflict. The run `repeated_hour`
reaches the refusal in two appends. `RefusalsAreConflicts` shows that it is the only
exception.

### Dynamic imports that are found valid

`tests/test_import_boundaries.py:219` says that dynamic imports cannot bypass the
enforced dependency directions, and `ARCHITECTURE.md:111` that they are prohibited.
`_dynamic_import_calls` collects the names bound by `import importlib` and by
`from importlib import import_module` (`check_import_boundaries.py:228-235`) and reports
calls of `__import__`, of the second kind of names, and of `import_module` of the first.
`import importlib.util` binds `importlib` too, `from importlib import *` binds
`import_module`, and `importlib.__import__` is no call that is looked for. The run
`dynamic_imports` ends in a tree that is found valid with such a call.
`ValidMeansPermitted` says that the calls let through are of these kinds only.

### Three promises of docs/configuration.md

`docs/configuration.md:107` promises `ConfigurationError` for unreadable files and for
invalid TOML, line 91 that `snapshot()` returns canonical JSON. The run `promises` has one
history whose three calls break each of them: `SomePromiseIsKept` is the disjunction of
`UnreadableIsConfigurationError`, `RefusedTextIsConfigurationError` and
`EverySnapshotIsWritten`, so that only a history that breaks all three violates it.

- `load_configuration` catches `OSError` around `read_bytes` (`loader.py:335`), and a path
  with an embedded NUL raises `ValueError`.
- Nesting deeper than the interpreter's stack raises `RecursionError` (`loader.py:318`),
  which is no `ValueError`. `FailsClosed` shows that there are no other such errors.
- A configuration whose integers have more digits than the interpreter converts loads, if
  the file writes them in hexadecimal, octal or binary, and `json.dumps` raises
  `ValueError` for it (`schema.py:331`). `Printable` is scaled down.

### Disagreements that no run shows

- `tests/test_import_boundaries.py:129` says that importing a real submodule as a
  member cannot bypass the public interface. `_targets_internal_module`
  (`check_import_boundaries.py:215-221`) knows a submodule by its `.py` file or its
  `__init__.py`; Python also imports a directory without one. No code runs in that case,
  and importing a module inside such a directory is reported; `ValidMeansPermitted` names
  the exception.
- A `SKILL.md` that is not UTF-8 raises `UnicodeDecodeError` out of
  `find_skill_violations`, whose docstring says that it returns all violations, and a
  source file that is not UTF-8 does so out of `find_boundary_violations`. Neither
  document speaks of encodings; both programs end with a failure.

Not a disagreement, since it errs on the safe side: `from .. import __version__`
is reported as an import of an undeclared package, `from autonomous_trading
import __version__` is not. `ReportsAreJustified` names this exception.

## 7. Plan

1. *Done:* every component with logic of its own is modelled and checked, and every
   invariant and action property that the runs check is proved, with the two refinements.
2. What is left: that `find_skill_violations` without edits implements the set `Wrong` as
   one step, and a process with several writers over `InMemoryAuditLog`, should the package
   ever come to have one.
