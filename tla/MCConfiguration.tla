-------------------------- MODULE MCConfiguration --------------------------
(***************************************************************************)
(* Files for Configuration: a valid document of each environment, what     *)
(* becomes of it when one thing in it is changed, and valid documents that *)
(* write equal values differently.                                         *)
(***************************************************************************)
EXTENDS Configuration, TLC

Float(sign, digits, exponent) == <<"float", Finite(sign, digits, exponent)>>
Integer(n) == <<"int", n>>
Str(s) == <<"str", s>>
Bool(b) == <<"bool", b>>

Secret(n, v) == <<"table", ("name" :> Str(n)) @@ ("environment_variable" :> Str(v))>>

\* The document of docs/configuration.md, with smaller numbers.
Base(environment, enabled) ==
  ( "schema_version" :> Integer(1) ) @@ ( "environment" :> Str(environment) ) @@
  ( "secret_references" :> <<"list", <<>> >> ) @@
  ( "research_budget" :> <<"table",
      ("max_experiments" :> Integer(8)) @@ ("max_parameter_combinations" :> Integer(64)) @@
      ("max_runtime_seconds" :> Integer(90))>> ) @@
  ( "instrument_universe" :> <<"table", ("symbols" :> <<"list", <<Str("SPY"), Str("TLT")>> >>)>> ) @@
  ( "promotion_gates" :> <<"table",
      ("require_independent_validation" :> Bool(TRUE)) @@ ("minimum_observations" :> Integer(25)) @@
      ("minimum_out_of_sample_fraction" :> Float(0, <<2, 5>>, -2)) @@
      ("maximum_drawdown_fraction" :> Float(0, <<2, 0>>, -2))>> ) @@
  ( "paper" :> <<"table",
      ("enabled" :> Bool(enabled)) @@ ("starting_cash" :> Float(0, <<1, 0, 0, 0>>, -1)) @@
      ("max_position_fraction" :> Float(0, <<2, 5>>, -2)) @@ ("max_open_positions" :> Integer(4)) @@
      ("leverage_enabled" :> Bool(FALSE)) @@ ("short_selling_enabled" :> Bool(FALSE))>> ) @@
  ( "live" :> <<"table",
      ("enabled" :> Bool(FALSE)) @@ ("leverage_enabled" :> Bool(FALSE)) @@
      ("short_selling_enabled" :> Bool(FALSE))>> )

SetRoot(d, field, v) == (field :> v) @@ d
Drop(d, field) == [f \in DOMAIN d \ {field} |-> d[f]]
SetField(d, section, field, v) ==
  SetRoot(d, section, <<"table", (field :> v) @@ d[section][2]>>)
DropField(d, section, field) == SetRoot(d, section, <<"table", Drop(d[section][2], field)>>)

\* Values of every type, in range and out of it.
OddValue ==
  { Integer(-1), Integer(0), Integer(1), Integer(2), Bool(TRUE), Bool(FALSE), Str("SPY"), Str("spy"),
    Float(0, <<0>>, 0), Float(1, <<0>>, -1), Float(0, <<1>>, 0), Float(0, <<1, 0, 0>>, -2),
    Float(0, <<1, 0, 1>>, -2), Float(1, <<5>>, -1), Float(0, <<1>>, -3), <<"float", NaN>>,
    <<"list", <<>> >>, <<"list", <<Str("SPY")>> >>, <<"list", <<Str("SPY"), Str("SPY")>> >>,
    <<"list", <<Str("spy")>> >>, <<"list", <<Str("SPY"), Integer(1)>> >>, <<"table", <<>> >> }

OddSecrets ==
  { <<"list", <<Secret("key", "KEY"), Secret("token", "TOKEN")>> >>,
    <<"list", <<Secret("key", "KEY"), Secret("key", "TOKEN")>> >>,
    <<"list", <<Secret("key", "KEY"), Secret("token", "KEY")>> >>,
    <<"list", <<Secret("KEY", "KEY")>> >>, <<"list", <<Secret("key", "key")>> >>,
    <<"list", << <<"table", ("value" :> Str("key")) @@ Secret("key", "KEY")[2]>> >> >>,
    <<"list", << <<"table", ("name" :> Str("key"))>> >> >>,
    <<"list", << <<"table", ("name" :> Integer(1)) @@ Secret("key", "KEY")[2]>> >> >> }

\* One thing in the document is changed.
Changed(d) ==
  { SetRoot(d, f, v) : f \in RootField \cup {"unknown"}, v \in OddValue }
  \cup { Drop(d, f) : f \in RootField }
  \cup { SetRoot(d, "secret_references", v) : v \in OddSecrets }
  \cup UNION { { SetField(d, section, f, v) : f \in FieldsOf(section) \cup {"unknown"}, v \in OddValue }
               \cup { DropField(d, section, f) : f \in FieldsOf(section) }
               : section \in DOMAIN Fields }

\* Two things, in sections that are checked at different times.
ChangedTwice(d) ==
  { DropField(DropField(d, "research_budget", "max_experiments"), "live", "enabled"),
    SetField(DropField(d, "live", "enabled"), "research_budget", "max_experiments", Integer(0)),
    Drop(SetField(d, "paper", "enabled", Integer(1)), "live") }

PolicyFile ==
  LET bases == { Base("research", FALSE), Base("paper", TRUE) }
      swapped == { Base("research", TRUE), Base("paper", FALSE), Base("validation", FALSE),
                   Base("backtest", FALSE), Base("live", FALSE) }
  IN  FailingFile \cup
      { <<"table", d>> : d \in bases \cup swapped \cup
          UNION { Changed(d) \cup ChangedTwice(d) : d \in bases } }

PolicyInput == PolicyFile \X {"research", "paper", "validation", NoEnvironment}

\* Valid documents: each writes one thing differently, or says another thing.
Spelled(d) ==
  {d} \cup
  { SetField(d, "promotion_gates", "maximum_drawdown_fraction", v) :
      v \in { Float(0, <<2>>, -1), Float(0, <<2, 0, 0>>, -3), Float(0, <<2>>, -2), Integer(0),
              Float(1, <<0>>, -2), Float(0, <<0>>, 3), Integer(1), Float(0, <<1, 0>>, -1) } }
  \cup { SetField(d, "paper", "starting_cash", v) :
      v \in { Integer(100), Float(0, <<1>>, 2), Float(0, <<1>>, 3), Integer(1000) } }
  \cup { SetField(d, "instrument_universe", "symbols", <<"list", <<Str("TLT"), Str("SPY")>> >>) }
  \cup { SetRoot(d, "secret_references", <<"list", s>>) :
      s \in { <<Secret("key", "KEY"), Secret("token", "TOKEN")>>,
              <<Secret("token", "TOKEN"), Secret("key", "KEY")>>,
              <<Secret("key", "TOKEN"), Secret("token", "KEY")>> } }

SnapshotInput ==
  ( { <<"table", d>> : d \in Spelled(Base("research", FALSE)) } \X {"research"} )
  \cup ( { <<"table", d>> : d \in Spelled(Base("paper", TRUE)) } \X {"paper", "research"} )
  \cup ( { <<"table", Base("validation", FALSE)>> } \X {"validation", "backtest"} )

\* Integers that json.dumps writes, and refuses to write.
LargeInput ==
  { <<"table", SetField(Base("research", FALSE), "research_budget", f, Integer(n))>> :
      f \in FieldsOf("research_budget"), n \in {Printable, Printable + 1} } \X {"research"}

\* What is in the values of a set
Contents(values) ==
  UNION { IF v[1] \in {"list", "table"} THEN { v[2][i] : i \in DOMAIN v[2] } ELSE {} : v \in values }

ValuesIn(inputs) ==
  LET documents == { in[1] : in \in inputs } \ FailingFile
      fields    == Contents(documents)
      items     == Contents(fields)
      parts     == Contents(items)
  IN  documents \cup fields \cup items \cup parts \cup Contents(parts)

MCTomlValue == ValuesIn(PolicyInput \cup SnapshotInput \cup LargeInput)

\* Any file alone; two of the files that say equal and different things.
MCOffered(calls) ==
  IF calls = {} THEN PolicyInput \cup SnapshotInput \cup LargeInput
  ELSE IF calls \subseteq SnapshotInput /\ Cardinality(calls) < 2 THEN SnapshotInput ELSE {}

\* Only the files that may make a promise fail, for the run that shows it.
ExceptionalInput == ( FailingFile \X {"research", NoEnvironment} ) \cup LargeInput

MCExceptionalValue == ValuesIn(ExceptionalInput)

MCExceptional(calls) == IF Cardinality(calls) < 3 THEN ExceptionalInput ELSE {}
=============================================================================
