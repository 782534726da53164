------------------------ MODULE ConfigurationSchema ------------------------
(***************************************************************************)
(* configuration/schema.py: the typed sections of a configuration, what    *)
(* their constructors refuse, and equality.                                *)
(***************************************************************************)
EXTENDS Decimals, FiniteSets

\* The strings that match each pattern
CONSTANTS Symbol, SecretName, VariableName

Environment == {"research", "backtest", "validation", "paper"}

\* Of each section: its fields, in the order in which they are read.
Fields ==
  [ research_budget     |-> <<"max_experiments", "max_parameter_combinations",
                              "max_runtime_seconds">>,
    instrument_universe |-> <<"symbols">>,
    promotion_gates     |-> <<"require_independent_validation", "minimum_observations",
                              "minimum_out_of_sample_fraction",
                              "maximum_drawdown_fraction">>,
    paper               |-> <<"enabled", "starting_cash", "max_position_fraction",
                              "max_open_positions", "leverage_enabled",
                              "short_selling_enabled">>,
    live                |-> <<"enabled", "leverage_enabled", "short_selling_enabled">> ]

FieldsOf(section) == { Fields[section][i] : i \in DOMAIN Fields[section] }

IntegerField == { "max_experiments", "max_parameter_combinations", "max_runtime_seconds",
                  "minimum_observations", "max_open_positions" }

DecimalField == { "minimum_out_of_sample_fraction", "maximum_drawdown_fraction",
                  "starting_cash", "max_position_fraction" }

-----------------------------------------------------------------------------
(* What each constructor accepts, of the values s of a section's fields *)

NoDuplicates(seq) == \A i, j \in DOMAIN seq : seq[i] = seq[j] => i = j

ResearchBudget(s) == \A f \in DOMAIN s : s[f] > 0

InstrumentUniverse(s) ==
  /\ s.symbols # <<>> /\ NoDuplicates(s.symbols)
  /\ \A i \in DOMAIN s.symbols : s.symbols[i] \in Symbol

\* _validate_decimal with the bounds 0 and 1; zero itself is excluded or not.
PositiveFraction(d) == d.finite /\ AboveZero(d) /\ AtMostOne(d)
Fraction(d) == d.finite /\ AtLeastZero(d) /\ AtMostOne(d)

PromotionGates(s) ==
  /\ s.require_independent_validation /\ s.minimum_observations > 0
  /\ PositiveFraction(s.minimum_out_of_sample_fraction)
  /\ Fraction(s.maximum_drawdown_fraction)

\* Slip: short selling is not looked at.
PaperSettings_ShortSelling(s) ==
  /\ s.starting_cash.finite /\ AboveZero(s.starting_cash)
  /\ PositiveFraction(s.max_position_fraction)
  /\ s.max_open_positions > 0
  /\ ~s.leverage_enabled

PaperSettings(s) ==
  /\ s.starting_cash.finite /\ AboveZero(s.starting_cash)
  /\ PositiveFraction(s.max_position_fraction)
  /\ s.max_open_positions > 0
  /\ ~s.leverage_enabled /\ ~s.short_selling_enabled

LiveSettings(s) == ~s.enabled /\ ~s.leverage_enabled /\ ~s.short_selling_enabled

Accepted(section, s) ==
  CASE section = "research_budget"     -> ResearchBudget(s)
    [] section = "instrument_universe" -> InstrumentUniverse(s)
    [] section = "promotion_gates"     -> PromotionGates(s)
    [] section = "paper"               -> PaperSettings(s)
    [] section = "live"                -> LiveSettings(s)

\* A secret reference is its name and its environment variable.
SecretReference(r) == r.name \in SecretName /\ r.environment_variable \in VariableName

\* Configuration.__post_init__, of sections that their constructors accepted
Consistent(c) ==
  /\ c.schema_version = 1
  /\ \A f \in {"name", "environment_variable"} :
       NoDuplicates([i \in DOMAIN c.secret_references |-> c.secret_references[i][f]])
  /\ c.sections.paper.enabled <=> c.environment = "paper"

-----------------------------------------------------------------------------
(* Equality *)

\* c == d of two dataclass instances: field by field, decimals by value.
Equal(c, d) ==
  /\ c.schema_version = d.schema_version /\ c.environment = d.environment
  /\ c.secret_references = d.secret_references
  /\ \A section \in DOMAIN Fields : \A f \in FieldsOf(section) :
       LET u == c.sections[section][f]
           v == d.sections[section][f]
       IN  IF f \in DecimalField THEN SameValue(u, v) ELSE u = v
=============================================================================
