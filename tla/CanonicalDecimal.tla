-------------------------- MODULE CanonicalDecimal --------------------------
(***************************************************************************)
(* _canonical_decimal (configuration/schema.py; registry/lifecycle.py has  *)
(* the same function): the text under which a decimal enters a digest,     *)
(* from its coefficient and exponent and without decimal arithmetic.  One  *)
(* action per turn of the loop that strips trailing zeros.                 *)
(* Configuration makes the calls; DecimalSpec makes any calls at all.      *)
(***************************************************************************)
EXTENDS Decimals

VARIABLES writing,            \* a call is in its loop
          value, significant_digits, adjusted_exponent,
          answer,             \* of the last call: "text" or "error"
          written             \* history: pairs of a decimal and the text it was given

decimalVars == <<writing, value, significant_digits, adjusted_exponent, answer, written>>

DecimalInit ==
  /\ writing = FALSE
  /\ value = One
  /\ significant_digits = One.digits /\ adjusted_exponent = 0
  /\ answer = "text"
  /\ written = {}

\* Slip: a zero is written like any other value.
BeginText_NoZero(d) ==
  /\ ~writing
  /\ d.finite
  /\ writing' = TRUE
  /\ value' = d
  /\ significant_digits' = d.digits /\ adjusted_exponent' = d.exponent
  /\ UNCHANGED <<answer, written>>

\* as_tuple() and the two returns before the loop.
BeginText(d) ==
  /\ ~writing
  /\ value' = d
  /\ significant_digits' = d.digits /\ adjusted_exponent' = d.exponent
  /\ writing' = (d.finite /\ ~IsZero(d))
  /\ answer' = IF d.finite THEN "text" ELSE "error"
  /\ written' = written \cup (IF d.finite /\ IsZero(d) THEN {<<d, ZeroText>>} ELSE {})

LastIsZero ==
  /\ significant_digits # <<>>
  /\ significant_digits[Len(significant_digits)] = 0

\* Slip: the exponent stays as it was.
StripZero_KeepsExponent ==
  /\ writing /\ LastIsZero
  /\ significant_digits' = SubSeq(significant_digits, 1, Len(significant_digits) - 1)
  /\ UNCHANGED <<writing, value, adjusted_exponent, answer, written>>

\* One turn of the loop.
StripZero ==
  /\ writing /\ LastIsZero
  /\ significant_digits' = SubSeq(significant_digits, 1, Len(significant_digits) - 1)
  /\ adjusted_exponent' = adjusted_exponent + 1
  /\ UNCHANGED <<writing, value, answer, written>>

FinishText ==
  /\ writing /\ significant_digits # <<>> /\ ~LastIsZero
  /\ writing' = FALSE /\ answer' = "text"
  /\ written' = written \cup
       {<<value, [ sign |-> value.sign, coefficient |-> significant_digits,
                   exponent |-> adjusted_exponent ]>>}
  /\ UNCHANGED <<value, significant_digits, adjusted_exponent>>

DecimalNext == (\E d \in Decimal : BeginText(d)) \/ StripZero \/ FinishText

DecimalSpec == DecimalInit /\ [][DecimalNext]_decimalVars

-----------------------------------------------------------------------------
(* Properties *)

\* Type invariant; the loop never runs out of digits.
DecimalTypeOK ==
  /\ writing \in BOOLEAN
  /\ value \in Decimal
  /\ significant_digits \in Seq(Digit) /\ significant_digits # <<>>
  /\ adjusted_exponent \in Int
  /\ answer \in {"text", "error"}
  /\ \A w \in written : w[1] \in Decimal /\ w[1].finite /\ w[2] \in Text

\* docs/configuration.md: "normalizes numerically equal decimal values as the same
\* coefficient/exponent strings".  0.50 and 5e-1 are written alike, as are zeros of
\* any sign and exponent, and different values are written differently.
OneTextPerValue ==
  \A v, w \in written : v[2] = w[2] <=> SameValue(v[1], w[1])

\* The loop gives the digits up to the last that is not zero, and its place.
WritesCanonicalText == \A w \in written : w[2] = CanonicalText(w[1])
=============================================================================
