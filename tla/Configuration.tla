--------------------------- MODULE Configuration ---------------------------
(***************************************************************************)
(* configuration/loader.py: from a file to a Configuration or an error.    *)
(* A TOML value is a pair of its type and its content; a file is what      *)
(* reading and parsing it yields, a table or one of FailingFile.           *)
(***************************************************************************)
EXTENDS ConfigurationSchema, CanonicalDecimal

CONSTANTS TomlValue,    \* the values that tomllib.loads may return, and what is in them
          Offered(_),   \* calls, pairs of a file and the environment that is expected,
                        \* that may follow the calls that were made
          Printable     \* the largest integer that json.dumps can write

ASSUME SnapshotAssumption == Printable \in Nat

\* The strings, dates and times have any content: the loader only compares it.
ASSUME TomlAssumption ==
  \A v \in TomlValue :
    /\ v = <<v[1], v[2]>>
    /\ v[1] = "int"   => v[2] \in Int
    /\ v[1] = "float" => v[2] \in Decimal
    /\ v[1] = "bool"  => v[2] \in BOOLEAN
    /\ v[1] = "list"  => v[2] \in Seq(TomlValue)
    /\ v[1] = "table" => v[2] \in [DOMAIN v[2] -> TomlValue]

\* "invalid_path" is a path that no file can have, with an embedded NUL for instance.
FailingFile == { <<"invalid_path">>, <<"unreadable">>, <<"not_utf8">>, <<"not_toml">>,
                 <<"nested_too_deep">> }

File == FailingFile \cup { v \in TomlValue : v[1] = "table" }

\* The expectation of a caller that passes no OperatingEnvironment
NoEnvironment == "no_environment"

Input == File \X (Environment \cup {NoEnvironment})

VARIABLES pc,        \* the part of load_configuration that runs
          file, expected,
          next,      \* the section it has come to
          sections,  \* the sections that are constructed
          made,      \* the Configuration that is constructed
          loaded,    \* history: calls that returned, with the snapshot of the result
          refused    \* history: calls that raised, with the error

loaderVars == <<pc, file, expected, next, sections, made, loaded, refused>>

vars == <<loaderVars, decimalVars>>

Section == <<"research_budget", "instrument_universe", "promotion_gates", "paper", "live">>

RootField ==
  DOMAIN Fields \cup {"schema_version", "environment", "secret_references"}

Init ==
  /\ pc = "idle" /\ file = <<"unreadable">> /\ expected = NoEnvironment
  /\ next = 1 /\ sections = <<>> /\ made = <<>>
  /\ loaded = {} /\ refused = {}
  /\ DecimalInit

Document == file[2]

Calls == { <<r.file, r.expected>> : r \in loaded \cup refused }

Raise(error) ==
  /\ pc' = "idle"
  /\ refused' = refused \cup {[file |-> file, expected |-> expected, error |-> error]}
  /\ UNCHANGED <<file, expected, next, sections, made, loaded>>

Go(part) == pc' = part /\ UNCHANGED <<file, expected, made, loaded, refused>>

-----------------------------------------------------------------------------
(* Reading a value: type(candidate) is compared, so that True is no integer *)

Is(table, field, type) == field \in DOMAIN table /\ table[field][1] = type

\* value[key] of an absent key
ErrorOf(table, field) == IF field \in DOMAIN table THEN "ConfigurationError" ELSE "KeyError"

IsStrings(v) == v[1] = "list" /\ \A i \in DOMAIN v[2] : v[2][i][1] = "str"

Readable(field, table) ==
  /\ field \in DOMAIN table
  /\ LET v == table[field] IN
       \/ field \in IntegerField /\ v[1] = "int"
       \/ field \in DecimalField /\ v[1] \in {"int", "float"}
       \/ field = "symbols" /\ IsStrings(v)
       \/ field \notin IntegerField \cup DecimalField \cup {"symbols"} /\ v[1] = "bool"

Read(field, v) ==
  IF field = "symbols" THEN [i \in DOMAIN v[2] |-> v[2][i][2]]
  ELSE IF field \in DecimalField /\ v[1] = "int" THEN FromInt(v[2])
  ELSE v[2]

-----------------------------------------------------------------------------
(* One action per part of load_configuration *)

Open(in) ==
  /\ file' = in[1] /\ expected' = in[2]
  /\ next' = 1 /\ sections' = <<>>
  /\ pc' = "decode"
  /\ UNCHANGED <<made, loaded, refused>>

\* read_bytes, of which only an OSError is caught, the type of the expectation, decode,
\* tomllib.loads.  Nesting deeper than the interpreter's stack raises RecursionError,
\* which is no ValueError.
Decode ==
  LET read == file[1] \notin {"invalid_path", "unreadable"} IN
  /\ pc = "decode"
  /\ \/ file[1] = "invalid_path" /\ Raise("ValueError")
     \/ file[1] = "unreadable" /\ Raise("ConfigurationError")
     \/ read /\ expected = NoEnvironment /\ Raise("ConfigurationError")
     \/ /\ file[1] \in {"not_utf8", "not_toml"} /\ expected # NoEnvironment
        /\ Raise("ConfigurationError")
     \/ /\ file[1] = "nested_too_deep" /\ expected # NoEnvironment
        /\ Raise("RecursionError")
     \/ /\ file[1] = "table" /\ expected # NoEnvironment
        /\ Go("root") /\ UNCHANGED <<next, sections>>

RequireRootFields ==
  /\ pc = "root"
  /\ \/ DOMAIN Document # RootField /\ Raise("ConfigurationError")
     \/ DOMAIN Document = RootField /\ Go("environment") /\ UNCHANGED <<next, sections>>

\* A string that names an environment, which must be the expected one.
MatchEnvironment ==
  LET matches == Is(Document, "environment", "str") /\ Document["environment"][2] = expected IN
  /\ pc = "environment"
  /\ \/ ~matches /\ Raise(ErrorOf(Document, "environment"))
     \/ matches /\ Go("require") /\ UNCHANGED <<next, sections>>

\* On to the next section, or after the last one to another part.
Following(part, after) ==
  /\ Go(IF next < Len(Section) THEN part ELSE after)
  /\ next' = IF next < Len(Section) THEN next + 1 ELSE 1

\* Slip: the fields of a table are not compared.
RequireTable_AnyFields ==
  LET section == Section[next] IN
  /\ pc = "require"
  /\ \/ ~Is(Document, section, "table") /\ Raise(ErrorOf(Document, section))
     \/ Is(Document, section, "table") /\ Following("require", "version") /\ UNCHANGED sections

\* _table and _require_exact_fields of the next section.
RequireTable ==
  LET section == Section[next]
      exact == /\ Is(Document, section, "table")
               /\ DOMAIN Document[section][2] = FieldsOf(section)
  IN
  /\ pc = "require"
  /\ \/ ~exact /\ Raise(ErrorOf(Document, section))
     \/ exact /\ Following("require", "version") /\ UNCHANGED sections

ReadVersion ==
  LET integer == Is(Document, "schema_version", "int") IN
  /\ pc = "version"
  /\ \/ ~integer /\ Raise(ErrorOf(Document, "schema_version"))
     \/ integer /\ Go("construct") /\ UNCHANGED <<next, sections>>

\* The fields of the next section are read in order, then its constructor runs.
ConstructSection ==
  LET section == Section[next]
      fields == Fields[section]
      table == Document[section][2]
      Fails(i) == ~Readable(fields[i], table)
      values == [f \in FieldsOf(section) |-> Read(f, table[f])]
  IN
  /\ pc = "construct"
  /\ \/ \E i \in DOMAIN fields :
          /\ Fails(i) /\ \A j \in 1..(i - 1) : ~Fails(j)
          /\ Raise(ErrorOf(table, fields[i]))
     \/ /\ \A i \in DOMAIN fields : ~Fails(i)
        /\ ~Accepted(section, values)
        /\ Raise("ConfigurationError")
     \/ /\ \A i \in DOMAIN fields : ~Fails(i)
        /\ Accepted(section, values)
        /\ sections' = [ s \in DOMAIN sections \cup {section} |->
                           IF s = section THEN values ELSE sections[s] ]
        /\ Following("construct", "secrets")

\* _secret_references accepts an item of the array.
IsSecret(v) ==
  /\ v[1] = "table" /\ DOMAIN v[2] = {"name", "environment_variable"}
  /\ \A f \in DOMAIN v[2] : v[2][f][1] = "str"
  /\ SecretReference([f \in DOMAIN v[2] |-> v[2][f][2]])

\* Slip: the loop returns with its first reference.
Secrets_First(v) ==
  [ i \in DOMAIN v[2] \cap {1} |-> [f \in DOMAIN v[2][i][2] |-> v[2][i][2][f][2]] ]

\* The references that it returns
Secrets(v) == [ i \in DOMAIN v[2] |-> [f \in DOMAIN v[2][i][2] |-> v[2][i][2][f][2]] ]

\* The secret references are read and Configuration is constructed.
ConstructConfiguration ==
  LET secrets == Document["secret_references"]
      configuration ==
        [ schema_version    |-> Document["schema_version"][2],
          environment       |-> Document["environment"][2],
          sections          |-> sections,
          secret_references |-> Secrets(secrets) ]
      consistent == /\ Is(Document, "secret_references", "list")
                    /\ \A i \in DOMAIN secrets[2] : IsSecret(secrets[2][i])
                    /\ Consistent(configuration)
  IN
  /\ pc = "secrets"
  /\ \/ ~consistent /\ Raise(ErrorOf(Document, "secret_references"))
     \/ /\ consistent
        /\ made' = configuration
        /\ pc' = "snapshot"
        /\ UNCHANGED <<file, expected, next, sections, loaded, refused>>

-----------------------------------------------------------------------------
(* The caller takes the snapshot of what load_configuration returned *)

\* The decimals of a configuration, in the order in which snapshot() writes them.
DecimalsOf(c) ==
  << c.sections.paper.max_position_fraction, c.sections.paper.starting_cash,
     c.sections.promotion_gates.maximum_drawdown_fraction,
     c.sections.promotion_gates.minimum_out_of_sample_fraction >>

WriteDecimal ==
  /\ pc = "snapshot" /\ next <= Len(DecimalsOf(made))
  /\ BeginText(DecimalsOf(made)[next])
  /\ next' = next + 1
  /\ UNCHANGED <<pc, file, expected, sections, made, loaded, refused>>

TextOf(d) == (CHOOSE w \in written : w[1] = d)[2]

\* Slip: the order of symbols and references is thought not to matter.
Payload_Unordered(c) ==
  [ c EXCEPT
      !.secret_references = { @[i] : i \in DOMAIN @ },
      !.sections =
        [ section \in DOMAIN Fields |->
            [ f \in FieldsOf(section) |->
                LET v == c.sections[section][f]
                IN  IF f \in DecimalField THEN TextOf(v)
                    ELSE IF f = "symbols" THEN { v[i] : i \in DOMAIN v } ELSE v ] ] ]

\* The payload that is written as JSON with sorted keys, and decimals by their
\* texts.  Its digest tells payloads apart exactly as far as the text does.
Payload(c) ==
  [ c EXCEPT !.sections =
      [ section \in DOMAIN Fields |->
          [ f \in FieldsOf(section) |->
              LET v == c.sections[section][f]
              IN  IF f \in DecimalField THEN TextOf(v) ELSE v ] ] ]

\* json.dumps refuses an integer with more digits than Python converts to text.
Writable(c) ==
  \A section \in DOMAIN Fields : \A f \in FieldsOf(section) \cap IntegerField :
    c.sections[section][f] <= Printable

Snapshot(c) == IF Writable(c) THEN <<"snapshot", Payload(c)>> ELSE <<"ValueError">>

TakeSnapshot ==
  /\ pc = "snapshot" /\ next > Len(DecimalsOf(made)) /\ ~writing
  /\ loaded' = loaded \cup
       {[ file |-> file, expected |-> expected, configuration |-> made,
          snapshot |-> Snapshot(made) ]}
  /\ pc' = "idle"
  /\ UNCHANGED <<file, expected, next, sections, made, refused>>

DoOpen == pc = "idle" /\ \E in \in Offered(Calls) \cap Input : Open(in)

Load ==
  \/ Decode \/ RequireRootFields \/ MatchEnvironment \/ RequireTable
  \/ ReadVersion \/ ConstructSection \/ ConstructConfiguration \/ TakeSnapshot

WriteText == (StripZero \/ FinishText) /\ UNCHANGED loaderVars

Next == ((DoOpen \/ Load) /\ UNCHANGED decimalVars) \/ WriteDecimal \/ WriteText

Spec == Init /\ [][Next]_vars

\* A call that has begun runs on.
FairSpec ==
  /\ Spec
  /\ WF_vars(Load /\ UNCHANGED decimalVars) /\ WF_vars(WriteDecimal) /\ WF_vars(WriteText)

-----------------------------------------------------------------------------
(* Properties *)

\* Every call that does not return a configuration raises ConfigurationError, whatever
\* is missing from the document, with two exceptions, which SomePromiseIsKept shows: a
\* path that no file can have, and a document that is nested too deeply.
FailsClosed ==
  \A r \in refused :
    \/ r.error = "ConfigurationError"
    \/ r.error = "ValueError" /\ r.file = <<"invalid_path">>
    \/ r.error = "RecursionError" /\ r.file = <<"nested_too_deep">>

\* "The boundary raises ConfigurationError for unreadable files" (docs/configuration.md,
\* line 107), and load_configuration is to "fail closed on I/O errors".
UnreadableIsConfigurationError ==
  \A r \in refused : r.file \in {<<"unreadable">>, <<"invalid_path">>} =>
    r.error = "ConfigurationError"

\* A file that is read and refused, for its text or for what the text says, is refused
\* with ConfigurationError (docs/configuration.md, lines 107-111).
RefusedTextIsConfigurationError ==
  \A r \in refused : r.file # <<"invalid_path">> => r.error = "ConfigurationError"

\* "Configuration.snapshot() returns canonical JSON" (docs/configuration.md, line 91),
\* for every configuration that load_configuration returns.
EverySnapshotIsWritten == \A l \in loaded : l.snapshot[1] = "snapshot"

\* docs/configuration.md makes these three promises without an exception, and so any one
\* of them.  A history in which this does not hold has a call that breaks each.
SomePromiseIsKept ==
  UnreadableIsConfigurationError \/ RefusedTextIsConfigurationError \/ EverySnapshotIsWritten

\* What docs/configuration.md permits in each field.
Permitted(field, v) ==
  CASE field \in IntegerField -> v[1] = "int" /\ v[2] > 0
    [] field \in DecimalField ->
         /\ v[1] \in {"int", "float"}
         /\ v[1] = "float" => v[2].finite
         /\ LET d == IF v[1] = "int" THEN FromInt(v[2]) ELSE v[2] IN
              /\ IF field = "maximum_drawdown_fraction" THEN AtLeastZero(d) ELSE AboveZero(d)
              /\ field # "starting_cash" => AtMostOne(d)
    [] field = "symbols" ->
         /\ v[1] = "list" /\ v[2] # <<>>
         /\ Cardinality({ v[2][i] : i \in DOMAIN v[2] }) = Len(v[2])
         /\ \A i \in DOMAIN v[2] : \E s \in Symbol : v[2][i] = <<"str", s>>
    [] field = "enabled" -> v[1] = "bool"
    [] field = "require_independent_validation" -> v = <<"bool", TRUE>>
    [] OTHER -> v = <<"bool", FALSE>>

Conforms(f, e) ==
  /\ e \in Environment /\ f[1] = "table"
  /\ LET d == f[2] IN
       /\ DOMAIN d = RootField
       /\ d["schema_version"] = <<"int", 1>> /\ d["environment"] = <<"str", e>>
       /\ \A section \in DOMAIN Fields :
            /\ d[section][1] = "table" /\ DOMAIN d[section][2] = FieldsOf(section)
            /\ \A field \in FieldsOf(section) : Permitted(field, d[section][2][field])
       /\ d["live"][2]["enabled"] = <<"bool", FALSE>>
       /\ d["paper"][2]["enabled"] = <<"bool", e = "paper">>
       /\ LET s == d["secret_references"] IN
            /\ s[1] = "list"
            /\ \A i \in DOMAIN s[2] :
                 /\ s[2][i][1] = "table" /\ DOMAIN s[2][i][2] = {"name", "environment_variable"}
                 /\ \E n \in SecretName : s[2][i][2]["name"] = <<"str", n>>
                 /\ \E v \in VariableName : s[2][i][2]["environment_variable"] = <<"str", v>>
            /\ \A i, j \in DOMAIN s[2] : i # j =>
                 \A f2 \in {"name", "environment_variable"} : s[2][i][2][f2] # s[2][j][2][f2]

\* A call returns a configuration when and only when the document is one that
\* docs/configuration.md describes, for the environment that the caller expects:
\* no order of the checks lets a document through, and none refuses a good one.
LoadsThePolicy ==
  /\ \A l \in loaded : Conforms(l.file, l.expected)
  /\ \A r \in refused : ~Conforms(r.file, r.expected)

\* "deterministic for identical typed inputs", "normalizes numerically equal decimal
\* values": configurations are equal exactly when their snapshots are, however the
\* files write them.
EqualIffSameSnapshot ==
  \A k, l \in loaded : "snapshot" = k.snapshot[1] /\ "snapshot" = l.snapshot[1] =>
    (k.snapshot = l.snapshot <=> Equal(k.configuration, l.configuration))

\* What a file says, field by field.
ConfigurationOf(f) ==
  LET d == f[2] IN
  [ schema_version    |-> d["schema_version"][2],
    environment       |-> d["environment"][2],
    sections          |->
      [ section \in DOMAIN Fields |->
          [ field \in FieldsOf(section) |-> Read(field, d[section][2][field]) ] ],
    secret_references |->
      [ i \in DOMAIN d["secret_references"][2] |->
          [ field \in {"name", "environment_variable"} |->
              d["secret_references"][2][i][2][field][2] ] ] ]

\* The snapshot with the canonical text of every decimal
SnapshotOf(c) ==
  <<"snapshot",
    [ c EXCEPT !.sections =
        [ section \in DOMAIN Fields |->
            [ f \in FieldsOf(section) |->
                IF f \in DecimalField THEN CanonicalText(c.sections[section][f])
                                      ELSE c.sections[section][f] ] ] ]>>

\* The calls for which the promise is kept: not of a path that no file can have, not of
\* a document nested too deeply, and not of one with an integer that cannot be written.
Ordinary(f, e) ==
  /\ f \notin {<<"invalid_path">>, <<"nested_too_deep">>}
  /\ Conforms(f, e) => Writable(ConfigurationOf(f))

OrdinaryOf(answers) == { r \in answers : Ordinary(r.file, r.expected) }

Contract == INSTANCE ConfigurationContract WITH
  call    <- IF pc # "idle" /\ Ordinary(file, expected) THEN <<file, expected>> ELSE <<>>,
  loaded  <- OrdinaryOf(loaded),
  refused <- OrdinaryOf(refused)

\* In ordinary calls, the pass over the file in parts keeps the promise of
\* docs/configuration.md: whatever was called before, ordinary or not, and whatever the
\* constructors and the loop over the digits left behind, a call has one answer, its file
\* and expectation decide which, the configuration and snapshot it returns say what the
\* file says, all of it, and a refusal is a ConfigurationError.  In the three kinds of
\* calls that are left out the promise is not kept, as SomePromiseIsKept shows.
ImplementsContract == Contract!Spec

\* Each call returns or raises, and snapshot() returns: the passes over the sections
\* and the loop over the digits of each decimal come to an end.
CallsEnd == pc # "idle" ~> pc = "idle"
=============================================================================
