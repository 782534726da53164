------------------------------ MODULE Decimals ------------------------------
(***************************************************************************)
(* Python's decimal.Decimal as the code uses it: what as_tuple() gives,    *)
(* equality, and the comparisons with zero and one that range checks make. *)
(* A finite decimal is (-1)^sign * digits * 10^exponent.                   *)
(***************************************************************************)
EXTENDS Integers, Sequences

Digit == 0..9

IsZero(d) == \A i \in DOMAIN d.digits : d.digits[i] = 0

\* as_tuple() has no leading zeros, and one digit when all are zero.
Decimal ==
  { d \in [finite : BOOLEAN, sign : {0, 1}, digits : Seq(Digit), exponent : Int] :
      /\ d.digits # <<>>
      /\ d.digits[1] = 0 => Len(d.digits) = 1 }

Finite(sign, digits, exponent) ==
  [finite |-> TRUE, sign |-> sign, digits |-> digits, exponent |-> exponent]

\* Infinity and the NaNs, which compare with nothing.
NaN == [finite |-> FALSE, sign |-> 0, digits |-> <<0>>, exponent |-> 0]

One == Finite(0, <<1>>, 0)

\* The digits of a natural number
DigitsOf(n) ==
  LET digits[m \in 0..n] ==
        IF m < 10 THEN <<m>> ELSE Append(digits[m \div 10], m % 10)
  IN  digits[n]

\* Decimal(n), for an integer
FromInt(n) == IF n < 0 THEN Finite(1, DigitsOf(-n), 0) ELSE Finite(0, DigitsOf(n), 0)

-----------------------------------------------------------------------------

\* The digits of d down to the place 10^e, for an e at or below its exponent.
Padded(d, e) ==
  [ i \in 1..(Len(d.digits) + d.exponent - e) |->
      IF i <= Len(d.digits) THEN d.digits[i] ELSE 0 ]

\* c == d in Python, for finite decimals: the same digits at the same places.
SameValue(c, d) ==
  \/ IsZero(c) /\ IsZero(d)
  \/ /\ ~IsZero(c) /\ ~IsZero(d)
     /\ c.sign = d.sign
     /\ LET e == IF c.exponent <= d.exponent THEN c.exponent ELSE d.exponent
        IN  Padded(c, e) = Padded(d, e)

AtLeastZero(d) == d.sign = 0 \/ IsZero(d)

AboveZero(d) == d.sign = 0 /\ ~IsZero(d)

\* Below one, all digits are behind the point.
AtMostOne(d) ==
  ~AboveZero(d) \/ Len(d.digits) + d.exponent <= 0 \/ SameValue(d, One)
-----------------------------------------------------------------------------
(* The text under which a decimal enters a digest, as what is written: sign, *)
(* coefficient and exponent, which the letter e keeps apart.                 *)

Text == [sign : {0, 1}, coefficient : Seq(Digit), exponent : Int]

\* "0e0"
ZeroText == [sign |-> 0, coefficient |-> <<0>>, exponent |-> 0]

LastNonZero(digits) ==
  CHOOSE n \in DOMAIN digits :
    digits[n] # 0 /\ \A i \in DOMAIN digits : i > n => digits[i] = 0

\* What _canonical_decimal comes to; CanonicalDecimal has its loop.
CanonicalText(d) ==
  IF IsZero(d)
    THEN ZeroText
    ELSE [ sign        |-> d.sign,
           coefficient |-> SubSeq(d.digits, 1, LastNonZero(d.digits)),
           exponent    |-> d.exponent + Len(d.digits) - LastNonZero(d.digits) ]
=============================================================================
