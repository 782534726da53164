------------------------ MODULE ConfigurationProofs ------------------------
(***************************************************************************)
(* Theorems about canonical decimals, of any length and exponent and without *)
(* arithmetic on powers of ten: equal decimals, and only they, have equal  *)
(* texts.  Then theorems about Configuration, for any TOML values, any files *)
(* and calls, and any patterns of symbols and names.                       *)
(***************************************************************************)
EXTENDS Configuration, SequenceTheorems, FiniteSetTheorems, WellFoundedInduction, TLAPS

-----------------------------------------------------------------------------
(* What a text says of its decimal *)

\* The digits up to the last that is not zero, and the place that one is at.
Strips(d, t) ==
  \E n \in 1..Len(d.digits) :
    /\ d.digits[n] # 0
    /\ \A i \in (n + 1)..Len(d.digits) : d.digits[i] = 0
    /\ t.sign = d.sign
    /\ t.coefficient = SubSeq(d.digits, 1, n)
    /\ t.exponent = d.exponent + Len(d.digits) - n

Describes(d, t) == IF IsZero(d) THEN t = ZeroText ELSE Strips(d, t)

\* The loop has removed only zeros and counted them.
Loop ==
  writing =>
    /\ value.finite /\ ~IsZero(value)
    /\ Len(significant_digits) \in 1..Len(value.digits)
    /\ significant_digits = SubSeq(value.digits, 1, Len(significant_digits))
    /\ \A i \in (Len(significant_digits) + 1)..Len(value.digits) : value.digits[i] = 0
    /\ adjusted_exponent = value.exponent + Len(value.digits) - Len(significant_digits)

Described == \A w \in written : Describes(w[1], w[2])

IInv == DecimalTypeOK /\ Loop /\ Described

\* The digits, sign and exponent of a decimal have their types.
LEMMA DecimalType ==
  ASSUME NEW d \in Decimal
  PROVE  /\ d.finite \in BOOLEAN /\ d.sign \in {0, 1}
         /\ d.digits \in Seq(Digit) /\ d.digits # <<>> /\ d.exponent \in Int
         /\ Len(d.digits) \in Nat \ {0} /\ DOMAIN d.digits = 1..Len(d.digits)
         /\ d.digits[1] = 0 => Len(d.digits) = 1
BY DEF Decimal

\* The inductive invariant holds before the first call.
LEMMA InitInv == DecimalInit => IInv
<1> SUFFICES ASSUME DecimalInit PROVE IInv
  OBVIOUS
<1>1. One \in Decimal /\ One.digits = <<1>>
  <2>1. <<1>> \in Seq(Digit) /\ <<1>> # <<>> /\ <<1>>[1] # 0
    BY DEF Digit
  <2>2. One = [finite |-> TRUE, sign |-> 0, digits |-> <<1>>, exponent |-> 0]
    BY DEF One, Finite
  <2> QED BY <2>1, <2>2 DEF Decimal
<1>2. One.digits \in Seq(Digit) /\ One.digits # <<>>
  BY <1>1, DecimalType
<1>3. value = One /\ significant_digits = One.digits /\ adjusted_exponent = 0
      /\ writing = FALSE /\ answer = "text" /\ written = {}
  BY DEF DecimalInit
<1>4. DecimalTypeOK
  <2>1. writing \in BOOLEAN
    BY <1>3
  <2> QED BY <1>1, <1>2, <1>3, <2>1 DEF DecimalTypeOK
<1>5. Loop /\ Described
  BY <1>3 DEF Loop, Described
<1> QED BY <1>4, <1>5 DEF IInv

\* A call begins, and a zero or a special value ends it at once.
LEMMA BeginKeeps ==
  ASSUME IInv, NEW d \in Decimal, BeginText(d)
  PROVE  IInv'
<1>1. d \in Decimal /\ d.digits \in Seq(Digit) /\ d.digits # <<>> /\ d.exponent \in Int
      /\ Len(d.digits) \in Nat \ {0} /\ DOMAIN d.digits = 1..Len(d.digits)
  BY DecimalType
<1>2. ~writing /\ value' = d /\ significant_digits' = d.digits
      /\ adjusted_exponent' = d.exponent
  BY DEF BeginText
<1>3. CASE ~d.finite
  <2>1. answer' = "error" /\ writing' = FALSE /\ written' = written
    BY <1>3 DEF BeginText
  <2> QED BY <1>1, <1>2, <2>1 DEF IInv, DecimalTypeOK, Loop, Described
<1>4. CASE d.finite /\ IsZero(d)
  <2>1. answer' = "text" /\ written' = written \cup {<<d, ZeroText>>} /\ writing' = FALSE
    BY <1>4 DEF BeginText
  <2>2. ZeroText \in Text
    BY DEF ZeroText, Text, Digit
  <2>3. Describes(d, ZeroText)
    BY <1>4 DEF Describes
  <2>4. DecimalTypeOK'
    <3>1. \A w \in written' : w[1] \in Decimal /\ w[1].finite /\ w[2] \in Text
      <4>1. \A w \in written : w[1] \in Decimal /\ w[1].finite /\ w[2] \in Text
        BY DEF IInv, DecimalTypeOK
      <4>2. <<d, ZeroText>>[1] = d /\ <<d, ZeroText>>[2] = ZeroText
        OBVIOUS
      <4> QED BY <1>4, <2>1, <2>2, <4>1, <4>2
    <3>2. /\ writing' \in BOOLEAN /\ value' \in Decimal
          /\ significant_digits' \in Seq(Digit) /\ significant_digits' # <<>>
          /\ adjusted_exponent' \in Int /\ answer' \in {"text", "error"}
      BY <1>1, <1>2, <2>1
    <3> QED BY <3>1, <3>2 DEF DecimalTypeOK
  <2>5. Loop' /\ Described'
    BY <2>1, <2>3 DEF IInv, Loop, Described
  <2> QED BY <2>4, <2>5 DEF IInv
<1>5. CASE d.finite /\ ~IsZero(d)
  <2>1. writing' = TRUE /\ answer' = "text" /\ written' = written
    BY <1>5 DEF BeginText
  <2>2. SubSeq(d.digits, 1, Len(d.digits)) = d.digits
    BY <1>1
  <2>3. Loop'
    BY <1>1, <1>2, <1>5, <2>1, <2>2 DEF Loop
  <2> QED BY <1>1, <1>2, <2>1, <2>3 DEF IInv, DecimalTypeOK, Described
<1>6. d.finite \in BOOLEAN
  BY DecimalType
<1> QED BY <1>3, <1>4, <1>5, <1>6

\* One trailing zero less.  The first digit is not zero, so one is left.
LEMMA StripKeeps ==
  ASSUME IInv, StripZero
  PROVE  IInv'
<1> DEFINE n == Len(significant_digits)
<1>1. /\ writing /\ value \in Decimal /\ significant_digits \in Seq(Digit)
      /\ n \in 1..Len(value.digits) /\ adjusted_exponent \in Int
      /\ value.finite /\ ~IsZero(value)
      /\ significant_digits = SubSeq(value.digits, 1, n)
      /\ \A i \in (n + 1)..Len(value.digits) : value.digits[i] = 0
      /\ adjusted_exponent = value.exponent + Len(value.digits) - n
      /\ significant_digits[n] = 0
      /\ UNCHANGED <<writing, value, answer, written>>
      /\ significant_digits' = SubSeq(significant_digits, 1, n - 1)
      /\ adjusted_exponent' = adjusted_exponent + 1
  BY DEF IInv, DecimalTypeOK, Loop, StripZero, LastIsZero
<1> HIDE DEF n
<1>2. /\ value.digits \in Seq(Digit) /\ Len(value.digits) \in Nat \ {0}
      /\ DOMAIN value.digits = 1..Len(value.digits) /\ value.exponent \in Int
      /\ value.digits[1] = 0 => Len(value.digits) = 1
  BY <1>1, DecimalType
<1>3. n \in Nat /\ n >= 1 /\ n <= Len(value.digits) /\ value.digits[n] = 0
  BY <1>1, <1>2
<1>4. n > 1
  <2> SUFFICES ASSUME n = 1 PROVE FALSE
    BY <1>3
  <2>1. Len(value.digits) = 1 /\ value.digits[1] = 0
    BY <1>2, <1>3
  <2> QED BY <1>1, <1>2, <2>1 DEF IsZero
<1>5. /\ significant_digits' = SubSeq(value.digits, 1, n - 1)
      /\ significant_digits' \in Seq(Digit)
      /\ Len(significant_digits') = n - 1
  <2>1. SubSeq(SubSeq(value.digits, 1, n), 1, n - 1) = SubSeq(value.digits, 1, n - 1)
    BY <1>2, <1>3, <1>4
  <2>2. SubSeq(value.digits, 1, n - 1) \in Seq(Digit)
        /\ Len(SubSeq(value.digits, 1, n - 1)) = n - 1
    BY <1>2, <1>3, <1>4
  <2> QED BY <1>1, <2>1, <2>2
<1>6. \A i \in n..Len(value.digits) : value.digits[i] = 0
  BY <1>1, <1>2, <1>3
<1>7. significant_digits' # <<>> /\ adjusted_exponent' \in Int
  <2>1. Len(significant_digits') >= 1
    BY <1>3, <1>4, <1>5
  <2>2. Len(<<>>) = 0
    OBVIOUS
  <2>3. adjusted_exponent' \in Int
    BY <1>1
  <2> QED BY <2>1, <2>2, <2>3
<1>8. DecimalTypeOK'
  BY <1>1, <1>5, <1>7 DEF IInv, DecimalTypeOK
<1>9. Loop'
  <2>1. value' = value /\ value.finite /\ ~IsZero(value) /\ (n - 1) + 1 = n
    BY <1>1, <1>3
  <2>2. n - 1 \in 1..Len(value.digits)
    BY <1>2, <1>3, <1>4
  <2>3. adjusted_exponent' = value.exponent + Len(value.digits) - (n - 1)
    <3> DEFINE x == Len(value.digits)
               p == value.exponent
    <3>1. /\ x \in Nat /\ p \in Int /\ n \in Nat
          /\ adjusted_exponent = p + x - n /\ adjusted_exponent' = adjusted_exponent + 1
      BY <1>1, <1>2, <1>3
    <3> HIDE DEF x, p
    <3>2. adjusted_exponent' = p + x - (n - 1)
      BY <3>1
    <3> QED BY <3>2 DEF x, p
  <2>4. \A i \in ((n - 1) + 1)..Len(value.digits) : value.digits[i] = 0
    BY <1>6, <2>1
  <2> QED BY <1>5, <2>1, <2>2, <2>3, <2>4 DEF Loop
<1> QED BY <1>1, <1>8, <1>9 DEF IInv, Described

\* The text that is returned describes its decimal.
LEMMA FinishKeeps ==
  ASSUME IInv, FinishText
  PROVE  IInv'
<1> DEFINE n == Len(significant_digits)
           t == [ sign |-> value.sign, coefficient |-> significant_digits,
                  exponent |-> adjusted_exponent ]
<1>1. /\ writing /\ writing' = FALSE /\ answer' = "text"
      /\ written' = written \cup {<<value, t>>}
      /\ UNCHANGED <<value, significant_digits, adjusted_exponent>>
      /\ significant_digits # <<>> /\ significant_digits[n] # 0
  BY DEF FinishText, LastIsZero
<1>2. /\ value \in Decimal /\ value.finite /\ ~IsZero(value)
      /\ significant_digits \in Seq(Digit) /\ adjusted_exponent \in Int
      /\ n \in 1..Len(value.digits)
      /\ significant_digits = SubSeq(value.digits, 1, n)
      /\ \A i \in (n + 1)..Len(value.digits) : value.digits[i] = 0
      /\ adjusted_exponent = value.exponent + Len(value.digits) - n
  BY <1>1 DEF IInv, DecimalTypeOK, Loop
<1>3. value.sign \in {0, 1} /\ value.digits \in Seq(Digit) /\ Len(value.digits) \in Nat
  BY <1>2, DecimalType
<1>4. t \in Text
  BY <1>2, <1>3 DEF Text
<1>5. Describes(value, t)
  <2>1. value.digits[n] # 0
    BY <1>1, <1>2, <1>3
  <2> QED BY <1>2, <2>1 DEF Describes, Strips
<1>6. DecimalTypeOK'
  <2>1. writing' \in BOOLEAN
    BY <1>1
  <2>2. \A w \in written' : w[1] \in Decimal /\ w[1].finite /\ w[2] \in Text
    BY <1>1, <1>2, <1>4 DEF IInv, DecimalTypeOK
  <2>3. answer' \in {"text", "error"}
    BY <1>1
  <2> QED BY <1>1, <1>2, <2>1, <2>2, <2>3 DEF DecimalTypeOK
<1>7. Loop' /\ Described'
  BY <1>1, <1>5 DEF IInv, Loop, Described
<1> QED BY <1>6, <1>7 DEF IInv

\* Every step keeps the inductive invariant.
LEMMA NextKeeps == IInv /\ [DecimalNext]_decimalVars => IInv'
<1> SUFFICES ASSUME IInv, [DecimalNext]_decimalVars PROVE IInv'
  OBVIOUS
<1>1. CASE \E d \in Decimal : BeginText(d)
  BY <1>1, BeginKeeps
<1>2. CASE StripZero
  BY <1>2, StripKeeps
<1>3. CASE FinishText
  BY <1>3, FinishKeeps
<1>4. CASE UNCHANGED decimalVars
  BY <1>4 DEF decimalVars, IInv, DecimalTypeOK, Loop, Described
<1> QED BY <1>1, <1>2, <1>3, <1>4 DEF DecimalNext

\* The conjuncts of IInv hold in every reachable state.
LEMMA Soundness == DecimalSpec => []IInv
<1> QED BY InitInv, NextKeeps, PTL DEF DecimalSpec
-----------------------------------------------------------------------------
(* Equal texts, equal values *)

\* A text that describes a value that is not zero is not the text of zero.
LEMMA ZeroTextIsZero ==
  ASSUME NEW d \in Decimal, NEW t, Describes(d, t), ~IsZero(d)
  PROVE  t # ZeroText
<1>1. PICK n \in 1..Len(d.digits) :
        d.digits[n] # 0 /\ t.coefficient = SubSeq(d.digits, 1, n)
  BY DEF Describes, Strips
<1>2. d.digits \in Seq(Digit) /\ Len(d.digits) \in Nat /\ n \in Nat
      /\ n >= 1 /\ n <= Len(d.digits)
  BY <1>1, DecimalType
<1>3. Len(SubSeq(d.digits, 1, n)) = n /\ SubSeq(d.digits, 1, n)[n] = d.digits[n]
  BY <1>2
<1>4. CASE t.coefficient = <<0>>
  <2>1. n = 1
    BY <1>1, <1>3, <1>4
  <2> QED BY <1>1, <1>3, <1>4, <2>1
<1> QED BY <1>4 DEF ZeroText

\* The padded digits of a value that is not zero end in zeros from the same place
\* on as its own, at whatever place they are cut off.
LEMMA PaddedDigits ==
  ASSUME NEW d \in Decimal, NEW e \in Int, e <= d.exponent,
         NEW n \in 1..Len(d.digits),
         \A i \in (n + 1)..Len(d.digits) : d.digits[i] = 0
  PROVE  LET k == Len(d.digits) + d.exponent - e
         IN  /\ k \in Nat /\ n <= k
             /\ DOMAIN Padded(d, e) = 1..k
             /\ \A i \in 1..n : Padded(d, e)[i] = d.digits[i]
             /\ \A i \in (n + 1)..k : Padded(d, e)[i] = 0
<1> DEFINE k == Len(d.digits) + d.exponent - e
<1>1. Len(d.digits) \in Nat /\ d.exponent \in Int /\ n \in Nat /\ n >= 1 /\ n <= Len(d.digits)
  BY DecimalType
<1>2. k \in Nat /\ n <= k /\ Len(d.digits) <= k
  BY <1>1
<1>3. Padded(d, e) = [ i \in 1..k |-> IF i <= Len(d.digits) THEN d.digits[i] ELSE 0 ]
  BY DEF Padded
<1> HIDE DEF k
<1>4. \A i \in 1..n : i \in 1..k /\ i <= Len(d.digits)
  BY <1>1, <1>2
<1>5. \A i \in (n + 1)..k : i \in 1..k /\ (i <= Len(d.digits) => i \in (n + 1)..Len(d.digits))
  BY <1>1, <1>2
<1> QED BY <1>2, <1>3, <1>4, <1>5 DEF k

\* Two values that are not zero have one text when and only when they are equal.
LEMMA SameTextNonZero ==
  ASSUME NEW c \in Decimal, NEW d \in Decimal, NEW t \in Text, NEW u \in Text,
         ~IsZero(c), ~IsZero(d), Strips(c, t), Strips(d, u)
  PROVE  t = u <=> SameValue(c, d)
<1> DEFINE e == IF c.exponent <= d.exponent THEN c.exponent ELSE d.exponent
           x == Len(c.digits)
           y == Len(d.digits)
           p == c.exponent
           q == d.exponent
           k == x + p - e
           l == y + q - e
<1>1. PICK n \in 1..Len(c.digits) :
        /\ c.digits[n] # 0
        /\ \A i \in (n + 1)..Len(c.digits) : c.digits[i] = 0
        /\ t.sign = c.sign
        /\ t.coefficient = SubSeq(c.digits, 1, n)
        /\ t.exponent = p + x - n
  BY DEF Strips
<1>2. PICK m \in 1..Len(d.digits) :
        /\ d.digits[m] # 0
        /\ \A i \in (m + 1)..Len(d.digits) : d.digits[i] = 0
        /\ u.sign = d.sign
        /\ u.coefficient = SubSeq(d.digits, 1, m)
        /\ u.exponent = q + y - m
  BY DEF Strips
<1>3. /\ c.digits \in Seq(Digit) /\ x = Len(c.digits) /\ x \in Nat /\ p \in Int
      /\ d.digits \in Seq(Digit) /\ y = Len(d.digits) /\ y \in Nat /\ q \in Int
  BY DecimalType
<1>4. /\ n \in Nat /\ n >= 1 /\ n <= x
      /\ m \in Nat /\ m >= 1 /\ m <= y
  BY <1>3
<1>5. e \in Int /\ e <= p /\ e <= q
  BY <1>3
<1> HIDE DEF e
<1>6. /\ k \in Nat /\ n <= k /\ DOMAIN Padded(c, e) = 1..k
      /\ \A i \in 1..n : Padded(c, e)[i] = c.digits[i]
      /\ \A i \in (n + 1)..k : Padded(c, e)[i] = 0
  BY <1>1, <1>5, PaddedDigits
<1>7. /\ l \in Nat /\ m <= l /\ DOMAIN Padded(d, e) = 1..l
      /\ \A i \in 1..m : Padded(d, e)[i] = d.digits[i]
      /\ \A i \in (m + 1)..l : Padded(d, e)[i] = 0
  BY <1>2, <1>5, PaddedDigits
<1>8. SameValue(c, d) <=> c.sign = d.sign /\ Padded(c, e) = Padded(d, e)
  BY DEF SameValue, e
<1> HIDE DEF x, y, p, q
<1>9. /\ Len(SubSeq(c.digits, 1, n)) = n
      /\ \A i \in 1..n : SubSeq(c.digits, 1, n)[i] = c.digits[i]
      /\ Len(SubSeq(d.digits, 1, m)) = m
      /\ \A i \in 1..m : SubSeq(d.digits, 1, m)[i] = d.digits[i]
      /\ SubSeq(c.digits, 1, n) \in Seq(Digit) /\ SubSeq(d.digits, 1, m) \in Seq(Digit)
  BY <1>3, <1>4
<1>10. ASSUME t = u PROVE SameValue(c, d)
  <2>1. n = m /\ \A i \in 1..n : c.digits[i] = d.digits[i]
    BY <1>1, <1>2, <1>9, <1>10
  <2>2. k = l
    <3>1. p + x - n = q + y - n
      BY <1>1, <1>2, <1>10, <2>1
    <3> QED BY <1>3, <1>4, <1>5, <3>1
  <2>3. ASSUME NEW i \in 1..k PROVE Padded(c, e)[i] = Padded(d, e)[i]
    <3>1. CASE i <= n
      <4>1. i \in 1..n /\ i \in 1..m
        BY <1>4, <1>6, <2>1, <3>1
      <4> QED BY <1>6, <1>7, <2>1, <4>1
    <3>2. CASE i > n
      <4>1. i \in (n + 1)..k /\ i \in (m + 1)..l
        BY <1>4, <1>6, <2>1, <2>2, <3>2
      <4> QED BY <1>6, <1>7, <4>1
    <3> QED BY <1>4, <1>6, <3>1, <3>2
  <2>4. Padded(c, e) = Padded(d, e)
    <3>1. /\ Padded(c, e) = [i \in 1..k |-> Padded(c, e)[i]]
          /\ Padded(d, e) = [i \in 1..l |-> Padded(d, e)[i]]
      BY DEF Padded, x, y, p, q
    <3> HIDE DEF k, l
    <3> QED BY <2>2, <2>3, <3>1
  <2> QED BY <1>1, <1>2, <1>8, <1>10, <2>4
<1>11. ASSUME SameValue(c, d) PROVE t = u
  <2>1. c.sign = d.sign /\ Padded(c, e) = Padded(d, e)
    BY <1>8, <1>11
  <2>2. k = l
    <3> HIDE DEF k, l
    <3>1. 1..k = 1..l
      BY <1>6, <1>7, <2>1
    <3> QED BY <1>4, <1>6, <1>7, <3>1
  <2>3. n = m
    <3> HIDE DEF k, l
    <3>1. CASE n < m
      <4>1. m \in (n + 1)..k /\ m \in 1..m
        BY <1>4, <1>7, <2>2, <3>1
      <4> QED BY <1>2, <1>6, <1>7, <2>1, <4>1
    <3>2. CASE m < n
      <4>1. n \in (m + 1)..l /\ n \in 1..n
        BY <1>4, <1>6, <2>2, <3>2
      <4> QED BY <1>1, <1>6, <1>7, <2>1, <4>1
    <3> QED BY <1>4, <3>1, <3>2
  <2>4. \A i \in 1..n : c.digits[i] = d.digits[i]
    BY <1>6, <1>7, <2>1, <2>3
  <2>5. t.coefficient = u.coefficient
    <3> DEFINE a == SubSeq(c.digits, 1, n)
               b == SubSeq(d.digits, 1, m)
    <3>1. a \in Seq(Digit) /\ b \in Seq(Digit) /\ Len(a) = Len(b)
      BY <1>9, <2>3
    <3>2. \A i \in 1..Len(a) : a[i] = b[i]
      BY <1>9, <2>3, <2>4
    <3> HIDE DEF a, b
    <3>3. a = b
      BY <3>1, <3>2, SeqEqual
    <3> QED BY <1>1, <1>2, <3>3 DEF a, b
  <2>6. t.exponent = u.exponent
    <3>1. t.exponent = p + x - n /\ u.exponent = q + y - n
      BY <1>1, <1>2, <2>3
    <3>2. p + x = q + y
      BY <1>3, <1>5, <2>2
    <3> QED BY <1>3, <1>4, <3>1, <3>2
  <2>7. t.sign = u.sign
    BY <1>1, <1>2, <2>1
  <2> QED BY <2>5, <2>6, <2>7 DEF Text
<1> QED BY <1>10, <1>11

\* Two described values have one text when and only when they are equal.
LEMMA SameText ==
  ASSUME NEW c \in Decimal, NEW d \in Decimal, NEW t \in Text, NEW u \in Text,
         Describes(c, t), Describes(d, u)
  PROVE  t = u <=> SameValue(c, d)
<1>1. CASE IsZero(c) /\ IsZero(d)
  BY <1>1 DEF Describes, SameValue
<1>2. CASE IsZero(c) /\ ~IsZero(d)
  BY <1>2, ZeroTextIsZero DEF Describes, SameValue
<1>3. CASE ~IsZero(c) /\ IsZero(d)
  BY <1>3, ZeroTextIsZero DEF Describes, SameValue
<1>4. CASE ~IsZero(c) /\ ~IsZero(d)
  BY <1>4, SameTextNonZero DEF Describes
<1> QED BY <1>1, <1>2, <1>3, <1>4

\* A text that describes a decimal is its canonical text.
LEMMA ClosedForm ==
  ASSUME NEW d \in Decimal, NEW t \in Text, Describes(d, t)
  PROVE  t = CanonicalText(d)
<1>1. CASE IsZero(d)
  BY <1>1 DEF Describes, CanonicalText
<1>2. CASE ~IsZero(d)
  <2>1. PICK n \in 1..Len(d.digits) :
          /\ d.digits[n] # 0
          /\ \A i \in (n + 1)..Len(d.digits) : d.digits[i] = 0
          /\ t.sign = d.sign
          /\ t.coefficient = SubSeq(d.digits, 1, n)
          /\ t.exponent = d.exponent + Len(d.digits) - n
    BY <1>2 DEF Describes, Strips
  <2>2. DOMAIN d.digits = 1..Len(d.digits) /\ Len(d.digits) \in Nat
    BY <2>1, DecimalType
  <2>3. \A i \in DOMAIN d.digits : i > n => d.digits[i] = 0
    BY <2>1, <2>2
  <2>4. ASSUME NEW m \in DOMAIN d.digits, d.digits[m] # 0,
               \A i \in DOMAIN d.digits : i > m => d.digits[i] = 0
        PROVE  m = n
    <3>1. ~(m > n) /\ ~(n > m)
      BY <2>1, <2>2, <2>3, <2>4
    <3> QED BY <2>1, <2>2, <3>1
  <2>5. LastNonZero(d.digits) = n
    BY <2>1, <2>2, <2>3, <2>4 DEF LastNonZero
  <2> QED BY <1>2, <2>1, <2>5 DEF CanonicalText, Text
<1> QED BY <1>1, <1>2

-----------------------------------------------------------------------------
(* Theorems about the loop that writes a decimal *)

\* The type invariant: the loop never runs out of digits.
THEOREM TypeCorrect == DecimalSpec => []DecimalTypeOK
<1>1. IInv => DecimalTypeOK
  BY DEF IInv
<1> QED BY <1>1, Soundness, PTL

\* Numerically equal decimals are written alike and different ones differently,
\* for any number of digits and any exponents.
THEOREM TextTheorem == DecimalSpec => []OneTextPerValue
<1>1. IInv => OneTextPerValue
  <2> SUFFICES ASSUME IInv, NEW v \in written, NEW w \in written
               PROVE  v[2] = w[2] <=> SameValue(v[1], w[1])
    BY DEF OneTextPerValue
  <2>1. /\ v[1] \in Decimal /\ v[2] \in Text /\ Describes(v[1], v[2])
        /\ w[1] \in Decimal /\ w[2] \in Text /\ Describes(w[1], w[2])
    BY DEF IInv, DecimalTypeOK, Described
  <2> QED BY <2>1, SameText
<1> QED BY <1>1, Soundness, PTL

\* The loop returns the closed form, for any number of digits and any exponent.
THEOREM LoopTheorem == DecimalSpec => []WritesCanonicalText
<1>1. IInv => WritesCanonicalText
  <2> SUFFICES ASSUME IInv, NEW w \in written PROVE w[2] = CanonicalText(w[1])
    BY DEF WritesCanonicalText
  <2>1. w[1] \in Decimal /\ w[2] \in Text /\ Describes(w[1], w[2])
    BY DEF IInv, DecimalTypeOK, Described
  <2> QED BY <2>1, ClosedForm
<1> QED BY <1>1, Soundness, PTL

-----------------------------------------------------------------------------
(* An integer is a decimal *)

\* A nonempty set of numbers has a least one.
LEMMA LeastNumber ==
  ASSUME NEW S \in SUBSET Nat, S # {}
  PROVE  \E m \in S : \A k \in S : m <= k
<1> DEFINE R == OpToRel(<, Nat)
<1>1. IsWellFoundedOn(R, Nat)
  BY NatLessThanWellFounded
<1>2. R = { ss \in Nat \X Nat : ss[1] < ss[2] }
  BY DEF OpToRel
<1> HIDE DEF R
<1>3. PICK x \in S : \A y \in S : ~ (<<y, x>> \in R)
  <2>1. \E x \in S : \A y \in S : ~ (<<y, x>> \in R)
    BY <1>1, WFMin
  <2> QED BY <2>1
<1>4. \A y \in S : <<y, x>> \in Nat \X Nat /\ <<y, x>>[1] = y /\ <<y, x>>[2] = x
  OBVIOUS
<1>5. \A y \in S : ~(y < x)
  BY <1>2, <1>3, <1>4
<1> QED BY <1>5

\* The digits of m, from those of smaller numbers
DigitTurn(f, m) == IF m < 10 THEN <<m>> ELSE Append(f[m \div 10], m % 10)

LEMMA Tenth ==
  ASSUME NEW m \in Nat, ~(m < 10)
  PROVE  m \div 10 \in Nat /\ m \div 10 < m /\ m \div 10 # 0 /\ m % 10 \in 0..9
OBVIOUS

\* The function that DigitsOf describes exists.
LEMMA DigitsAreDefined ==
  ASSUME NEW n \in Nat
  PROVE  \E f : f = [m \in 0..n |-> DigitTurn(f, m)]
<1> DEFINE Upto(k, f) == f = [m \in 0..k |-> DigitTurn(f, m)]
           S == { k \in 0..n : ~\E f : Upto(k, f) }
<1>1. SUFFICES ASSUME S # {} PROVE FALSE
  OBVIOUS
<1>2. S \in SUBSET Nat
  OBVIOUS
<1>3. PICK k \in S : \A j \in S : k <= j
  <2> HIDE DEF S
  <2> QED BY <1>1, <1>2, LeastNumber
<1>4. k # 0
  <2>1. Upto(0, [m \in 0..0 |-> <<m>>])
    BY DEF DigitTurn
  <2> QED BY <1>3, <2>1
<1>5. PICK f : Upto(k - 1, f)
  <2>1. k - 1 \in 0..n /\ ~(k <= k - 1)
    BY <1>3, <1>4
  <2> QED BY <1>3, <2>1
<1> DEFINE g == [m \in 0..k |-> IF m = k THEN DigitTurn(f, k) ELSE f[m]]
<1>6. ASSUME NEW m \in 0..k
      PROVE  DigitTurn(g, m) = g[m]
  <2>1. k \in Nat /\ (m # k => m \in 0..(k - 1))
    BY <1>3
  <2>2. CASE m < 10
    <3>1. DigitTurn(g, m) = <<m>> /\ DigitTurn(f, m) = <<m>>
      BY <2>2 DEF DigitTurn
    <3> QED BY <1>5, <2>1, <3>1
  <2>3. CASE ~(m < 10)
    <3>1. m \div 10 \in 0..(k - 1) /\ m \div 10 \in 0..k /\ m \div 10 # k
      BY <2>1, <2>3, Tenth
    <3>2. g[m \div 10] = f[m \div 10]
      BY <3>1
    <3>3. DigitTurn(g, m) = DigitTurn(f, m)
      BY <2>3, <3>2 DEF DigitTurn
    <3> QED BY <1>5, <2>1, <3>3
  <2> QED BY <2>2, <2>3
<1>7. Upto(k, g)
  BY <1>6
<1> QED BY <1>3, <1>7

\* DigitsOf gives what as_tuple() has: digits, and no leading zeros.
LEMMA DigitsOfNumber ==
  ASSUME NEW n \in Nat
  PROVE  /\ DigitsOf(n) \in Seq(Digit) /\ DigitsOf(n) # <<>>
         /\ DigitsOf(n)[1] = 0 => Len(DigitsOf(n)) = 1
<1> DEFINE d == CHOOSE f : f = [m \in 0..n |-> DigitTurn(f, m)]
           Good(m) == /\ d[m] \in Seq(Digit) /\ d[m] # <<>>
                      /\ d[m][1] = 0 => m = 0
                      /\ m = 0 => Len(d[m]) = 1
           S == { m \in 0..n : ~Good(m) }
<1>1. DigitsOf(n) = d[n]
  BY DEF DigitsOf, DigitTurn
<1>2. d = [m \in 0..n |-> DigitTurn(d, m)]
  BY DigitsAreDefined
<1> HIDE DEF d
<1>3. \A m \in 0..n : d[m] = DigitTurn(d, m)
  BY <1>2
<1>4. S = {}
  <2> SUFFICES ASSUME S # {} PROVE FALSE
    OBVIOUS
  <2>1. S \in SUBSET Nat
    OBVIOUS
  <2>2. PICK m \in S : \A j \in S : m <= j
    <3> HIDE DEF S
    <3> QED BY <2>1, LeastNumber
  <2>3. m \in 0..n /\ ~Good(m) /\ m \in Nat
    BY <2>2
  <2>4. CASE m < 10
    <3>1. m \in Digit
      BY <2>3, <2>4 DEF Digit
    <3>2. d[m] = <<m>>
      <4>1. d[m] = DigitTurn(d, m)
        BY <1>3, <2>3
      <4> QED BY <2>4, <4>1 DEF DigitTurn
    <3>3. Good(m)
      BY <3>1, <3>2
    <3> QED BY <2>3, <3>3
  <2>5. CASE ~(m < 10)
    <3>1. m \div 10 \in 0..n /\ m \div 10 < m /\ m \div 10 # 0 /\ m % 10 \in Digit
      BY <2>3, <2>5, Tenth DEF Digit
    <3>2. Good(m \div 10)
      BY <2>2, <2>3, <3>1
    <3>3. d[m] = Append(d[m \div 10], m % 10)
      BY <1>3, <2>3, <2>5 DEF DigitTurn
    <3>4. d[m \div 10] \in Seq(Digit) /\ d[m \div 10] # <<>> /\ d[m \div 10][1] # 0
      BY <3>1, <3>2
    <3>5. d[m] \in Seq(Digit) /\ d[m] # <<>> /\ d[m][1] # 0
      <4>1. \A q \in Seq(Digit), x \in Digit :
              q # <<>> => /\ Append(q, x) \in Seq(Digit) /\ Append(q, x) # <<>>
                          /\ Append(q, x)[1] = q[1]
        <5> HIDE DEF S, Good
        <5> QED OBVIOUS
      <4> QED BY <3>1, <3>3, <3>4, <4>1
    <3>6. Good(m)
      BY <2>3, <2>5, <3>5
    <3> QED BY <2>3, <3>6
  <2> QED BY <2>4, <2>5
<1>5. Good(n)
  BY <1>4
<1> QED BY <1>1, <1>5

LEMMA FromIntOk ==
  ASSUME NEW n \in Int
  PROVE  FromInt(n) \in Decimal /\ FromInt(n).finite
<1> DEFINE k == IF n < 0 THEN -n ELSE n
           s == IF n < 0 THEN 1 ELSE 0
<1>1. k \in Nat /\ s \in {0, 1}
  OBVIOUS
<1>2. FromInt(n) = [finite |-> TRUE, sign |-> s, digits |-> DigitsOf(k), exponent |-> 0]
  BY DEF FromInt, Finite
<1>3. /\ DigitsOf(k) \in Seq(Digit) /\ DigitsOf(k) # <<>>
      /\ DigitsOf(k)[1] = 0 => Len(DigitsOf(k)) = 1
  BY <1>1, DigitsOfNumber
<1> HIDE DEF k, s
<1> QED BY <1>1, <1>2, <1>3 DEF Decimal

-----------------------------------------------------------------------------
(* What the code accepts in a field and what the policy permits are the same *)

Flag == { "enabled", "require_independent_validation", "leverage_enabled",
          "short_selling_enabled" }

\* Each field has one kind.
LEMMA Kinds ==
  /\ \A f \in IntegerField : f \notin DecimalField /\ f # "symbols" /\ f \notin Flag
  /\ \A f \in DecimalField : f \notin IntegerField /\ f # "symbols" /\ f \notin Flag
  /\ \A f \in Flag : f \notin IntegerField /\ f \notin DecimalField /\ f # "symbols"
  /\ "symbols" \notin IntegerField /\ "symbols" \notin DecimalField
BY DEF IntegerField, DecimalField, Flag

\* The fields of the sections
LEMMA SectionFields ==
  /\ FieldsOf("research_budget") =
       {"max_experiments", "max_parameter_combinations", "max_runtime_seconds"}
  /\ FieldsOf("instrument_universe") = {"symbols"}
  /\ FieldsOf("promotion_gates") =
       { "require_independent_validation", "minimum_observations",
         "minimum_out_of_sample_fraction", "maximum_drawdown_fraction" }
  /\ FieldsOf("paper") =
       { "enabled", "starting_cash", "max_position_fraction", "max_open_positions",
         "leverage_enabled", "short_selling_enabled" }
  /\ FieldsOf("live") = {"enabled", "leverage_enabled", "short_selling_enabled"}
  /\ DOMAIN Fields = {"research_budget", "instrument_universe", "promotion_gates", "paper", "live"}
<1>1. FieldsOf("research_budget") =
        {"max_experiments", "max_parameter_combinations", "max_runtime_seconds"}
  BY DEF FieldsOf, Fields
<1>2. FieldsOf("instrument_universe") = {"symbols"}
  BY DEF FieldsOf, Fields
<1>3. FieldsOf("promotion_gates") =
        { "require_independent_validation", "minimum_observations",
          "minimum_out_of_sample_fraction", "maximum_drawdown_fraction" }
  BY DEF FieldsOf, Fields
<1>4. FieldsOf("paper") =
        { "enabled", "starting_cash", "max_position_fraction", "max_open_positions",
          "leverage_enabled", "short_selling_enabled" }
  BY DEF FieldsOf, Fields
<1>5. FieldsOf("live") = {"enabled", "leverage_enabled", "short_selling_enabled"}
  BY DEF FieldsOf, Fields
<1>6. DOMAIN Fields =
        {"research_budget", "instrument_universe", "promotion_gates", "paper", "live"}
  BY DEF Fields
<1> QED BY <1>1, <1>2, <1>3, <1>4, <1>5, <1>6

LEMMA IntegerPermitted ==
  ASSUME NEW f \in IntegerField, NEW table, f \in DOMAIN table, table[f] \in TomlValue
  PROVE  /\ Permitted(f, table[f]) <=> Readable(f, table) /\ Read(f, table[f]) > 0
         /\ Readable(f, table) => Read(f, table[f]) \in Int
<1> DEFINE v == table[f]
<1>1. f \notin DecimalField /\ f # "symbols" /\ f \in IntegerField
  BY Kinds
<1>2. Readable(f, table) <=> v[1] = "int"
  BY <1>1 DEF Readable
<1>3. Read(f, v) = v[2]
  BY <1>1 DEF Read
<1>4. v[1] = "int" => v[2] \in Int
  BY TomlAssumption
<1>5. Permitted(f, v) <=> v[1] = "int" /\ v[2] > 0
  <2>1. f # "enabled" /\ f # "require_independent_validation"
    BY DEF IntegerField
  <2> HIDE DEF v
  <2> QED BY <1>1, <2>1 DEF Permitted
<1> HIDE DEF v
<1>6. /\ Permitted(f, v) <=> Readable(f, table) /\ Read(f, v) > 0
      /\ Readable(f, table) => Read(f, v) \in Int
  BY <1>2, <1>3, <1>4, <1>5
<1> QED BY <1>6 DEF v

LEMMA DecimalPermitted ==
  ASSUME NEW f \in DecimalField, NEW table, f \in DOMAIN table, table[f] \in TomlValue
  PROVE  LET d == Read(f, table[f])
         IN  /\ Permitted(f, table[f]) <=>
                  /\ Readable(f, table) /\ d.finite
                  /\ IF f = "maximum_drawdown_fraction" THEN AtLeastZero(d) ELSE AboveZero(d)
                  /\ f # "starting_cash" => AtMostOne(d)
             /\ Readable(f, table) => d \in Decimal
<1> DEFINE v == table[f]
           d == Read(f, v)
<1>1. f \notin IntegerField /\ f # "symbols" /\ f \in DecimalField
  BY Kinds
<1>2. Readable(f, table) <=> v[1] \in {"int", "float"}
  BY <1>1 DEF Readable
<1>3. d = IF v[1] = "int" THEN FromInt(v[2]) ELSE v[2]
  BY <1>1 DEF Read
<1>4. v[1] = "int" => d.finite /\ d \in Decimal
  BY <1>3, TomlAssumption, FromIntOk
<1>5. v[1] = "float" => d = v[2] /\ d \in Decimal
  BY <1>3, TomlAssumption
<1>6. Permitted(f, v) <=>
        /\ v[1] \in {"int", "float"}
        /\ v[1] = "float" => v[2].finite
        /\ IF f = "maximum_drawdown_fraction" THEN AtLeastZero(d) ELSE AboveZero(d)
        /\ f # "starting_cash" => AtMostOne(d)
  <2>1. f # "enabled" /\ f # "require_independent_validation"
    BY DEF DecimalField
  <2> HIDE DEF v, d
  <2> QED BY <1>1, <1>3, <2>1 DEF Permitted
<1> HIDE DEF d, v
<1>7. /\ Permitted(f, v) <=>
            /\ Readable(f, table) /\ d.finite
            /\ IF f = "maximum_drawdown_fraction" THEN AtLeastZero(d) ELSE AboveZero(d)
            /\ f # "starting_cash" => AtMostOne(d)
      /\ Readable(f, table) => d \in Decimal
  BY <1>2, <1>4, <1>5, <1>6
<1> QED BY <1>7 DEF d, v

LEMMA FlagPermitted ==
  ASSUME NEW f \in Flag, NEW table, f \in DOMAIN table, table[f] \in TomlValue
  PROVE  /\ Permitted(f, table[f]) <=>
              /\ Readable(f, table)
              /\ f = "require_independent_validation" => Read(f, table[f])
              /\ f \in {"leverage_enabled", "short_selling_enabled"} => ~Read(f, table[f])
         /\ Readable(f, table) => Read(f, table[f]) \in BOOLEAN
<1> DEFINE v == table[f]
<1>1. f \notin IntegerField /\ f \notin DecimalField /\ f # "symbols"
  BY Kinds
<1>2. Readable(f, table) <=> v[1] = "bool"
  BY <1>1 DEF Readable
<1>3. Read(f, v) = v[2]
  BY <1>1 DEF Read
<1>4. v = <<v[1], v[2]>> /\ (v[1] = "bool" => v[2] \in BOOLEAN)
  BY TomlAssumption
<1>5. Permitted(f, v) <=>
        IF f = "enabled" THEN v[1] = "bool"
        ELSE IF f = "require_independent_validation" THEN v = <<"bool", TRUE>>
        ELSE v = <<"bool", FALSE>>
  BY <1>1 DEF Permitted
<1> HIDE DEF v
<1>6. v = <<"bool", TRUE>> <=> v[1] = "bool" /\ v[2] = TRUE
  <2>1. <<"bool", TRUE>>[1] = "bool" /\ <<"bool", TRUE>>[2] = TRUE
    OBVIOUS
  <2> QED BY <1>4, <2>1, Zenon
<1>7. v = <<"bool", FALSE>> <=> v[1] = "bool" /\ v[2] = FALSE
  <2>1. <<"bool", FALSE>>[1] = "bool" /\ <<"bool", FALSE>>[2] = FALSE
    OBVIOUS
  <2> QED BY <1>4, <2>1, Zenon
<1> QED BY <1>2, <1>3, <1>4, <1>5, <1>6, <1>7, Zenon DEF Flag, v

\* No value twice in a list: as many values as places.
LEMMA Distinct ==
  ASSUME NEW S, NEW seq \in Seq(S)
  PROVE  (Cardinality({ seq[i] : i \in DOMAIN seq }) = Len(seq)) <=> NoDuplicates(seq)
<1> DEFINE R == { seq[i] : i \in DOMAIN seq }
           f == [i \in 1..Len(seq) |-> seq[i]]
<1>1. Len(seq) \in Nat /\ DOMAIN seq = 1..Len(seq)
  OBVIOUS
<1>2. IsFiniteSet(1..Len(seq)) /\ Cardinality(1..Len(seq)) = Len(seq)
  BY <1>1, FS_Interval
<1>3. f \in Surjection(1..Len(seq), R)
  BY <1>1 DEF Surjection
<1>4. ASSUME NoDuplicates(seq)
      PROVE  Cardinality(R) = Len(seq)
  <2>1. f \in Bijection(1..Len(seq), R)
    BY <1>1, <1>3, <1>4 DEF Bijection, Injection, IsInjective, NoDuplicates
  <2>2. ExistsBijection(1..Len(seq), R)
    BY <2>1 DEF ExistsBijection
  <2> HIDE DEF R
  <2> QED BY <1>1, <1>2, <2>2, FS_Bijection
<1>5. ASSUME Cardinality(R) = Len(seq)
      PROVE  NoDuplicates(seq)
  <2>1. f \in Injection(1..Len(seq), R)
    <3> HIDE DEF R, f
    <3> QED BY <1>2, <1>3, <1>5, FS_SurjSameCardinalityImpliesInj
  <2> QED BY <1>1, <2>1 DEF Injection, IsInjective, NoDuplicates
<1> QED BY <1>4, <1>5

LEMMA SymbolsPermitted ==
  ASSUME NEW table, "symbols" \in DOMAIN table, table["symbols"] \in TomlValue,
         NEW s, s.symbols = Read("symbols", table["symbols"])
  PROVE  Permitted("symbols", table["symbols"]) <=>
           Readable("symbols", table) /\ InstrumentUniverse(s)
<1> DEFINE v == table["symbols"]
           seq == v[2]
           w == Read("symbols", v)
<1>1. "symbols" \notin IntegerField /\ "symbols" \notin DecimalField
  BY Kinds
<1>2. Readable("symbols", table) <=> v[1] = "list" /\ \A i \in DOMAIN seq : seq[i][1] = "str"
  BY <1>1 DEF Readable, IsStrings
<1>3. w = [i \in DOMAIN seq |-> seq[i][2]]
  BY DEF Read
<1>4. Permitted("symbols", v) <=>
        /\ v[1] = "list" /\ seq # <<>>
        /\ Cardinality({ seq[i] : i \in DOMAIN seq }) = Len(seq)
        /\ \A i \in DOMAIN seq : \E x \in Symbol : seq[i] = <<"str", x>>
  BY <1>1 DEF Permitted
<1>5. v[1] = "list" => seq \in Seq(TomlValue)
  BY TomlAssumption
<1>6. InstrumentUniverse(s) <=>
        /\ w # <<>> /\ NoDuplicates(w)
        /\ \A i \in DOMAIN w : w[i] \in Symbol
  BY DEF InstrumentUniverse
<1> HIDE DEF v, seq, w
<1>7. CASE v[1] # "list"
  BY <1>2, <1>4, <1>7 DEF v
<1>8. CASE v[1] = "list"
  <2>1. seq \in Seq(TomlValue) /\ DOMAIN w = DOMAIN seq /\ \A i \in DOMAIN seq : w[i] = seq[i][2]
    BY <1>3, <1>5, <1>8
  <2>2. \A i \in DOMAIN seq : seq[i] \in TomlValue
    BY <2>1
  <2>3. \A i \in DOMAIN seq : seq[i] = <<seq[i][1], seq[i][2]>>
    BY <2>2, TomlAssumption
  <2>4. ASSUME NEW i \in DOMAIN seq
        PROVE  (\E x \in Symbol : seq[i] = <<"str", x>>) <=> seq[i][1] = "str" /\ w[i] \in Symbol
    <3>1. \A x : <<"str", x>>[1] = "str" /\ <<"str", x>>[2] = x
      OBVIOUS
    <3> QED BY <2>1, <2>3, <3>1, Zenon
  <2>5. w # <<>> <=> seq # <<>>
    <3>1. seq = <<>> <=> DOMAIN seq = {}
      BY <2>1
    <3>2. w = <<>> <=> DOMAIN w = {}
      BY <1>3
    <3> QED BY <2>1, <3>1, <3>2
  <2>6. ASSUME \A i \in DOMAIN seq : seq[i][1] = "str"
        PROVE  NoDuplicates(w) <=> NoDuplicates(seq)
    <3>1. \A i, j \in DOMAIN seq : w[i] = w[j] <=> seq[i] = seq[j]
      BY <2>1, <2>3, <2>6
    <3> QED BY <2>1, <3>1 DEF NoDuplicates
  <2>7. (Cardinality({ seq[i] : i \in DOMAIN seq }) = Len(seq)) <=> NoDuplicates(seq)
    BY <2>1, Distinct
  <2> HIDE DEF Permitted
  <2>8. Permitted("symbols", v) <=> Readable("symbols", table) /\ InstrumentUniverse(s)
    BY <1>2, <1>4, <1>6, <1>8, <2>1, <2>4, <2>5, <2>6, <2>7
  <2> QED BY <2>8 DEF v
<1> QED BY <1>7, <1>8

\* The values of a section's table
Values(section, table) == [f \in FieldsOf(section) |-> Read(f, table[f])]

\* What a section's constructor is given and lets through is what the policy permits.
Permits(section, table) ==
  /\ \A f \in FieldsOf(section) : Permitted(f, table[f])
  /\ section = "live" => table["enabled"] = <<"bool", FALSE>>

Lets(section, table) ==
  /\ \A f \in FieldsOf(section) : Readable(f, table)
  /\ Accepted(section, Values(section, table))

LEMMA ResearchBudgetPermitted ==
  ASSUME NEW table \in [FieldsOf("research_budget") -> TomlValue]
  PROVE  Permits("research_budget", table) <=> Lets("research_budget", table)
<1> DEFINE s == Values("research_budget", table)
<1>1. Accepted("research_budget", s) <=> \A f \in DOMAIN s : s[f] > 0
  BY DEF Accepted, ResearchBudget
<1>2. DOMAIN s = FieldsOf("research_budget")
      /\ \A f \in FieldsOf("research_budget") : s[f] = Read(f, table[f])
  BY DEF Values
<1>3. \A f \in FieldsOf("research_budget") :
        f \in IntegerField /\ f \in DOMAIN table /\ table[f] \in TomlValue
  BY SectionFields DEF IntegerField
<1>4. \A f \in FieldsOf("research_budget") :
        Permitted(f, table[f]) <=> Readable(f, table) /\ Read(f, table[f]) > 0
  BY <1>3, IntegerPermitted
<1> QED BY <1>1, <1>2, <1>4 DEF Permits, Lets

LEMMA UniversePermitted ==
  ASSUME NEW table \in [FieldsOf("instrument_universe") -> TomlValue]
  PROVE  Permits("instrument_universe", table) <=> Lets("instrument_universe", table)
<1> DEFINE s == Values("instrument_universe", table)
<1>1. "symbols" \in DOMAIN table /\ table["symbols"] \in TomlValue
      /\ FieldsOf("instrument_universe") = {"symbols"}
  BY SectionFields
<1>2. s.symbols = Read("symbols", table["symbols"])
  BY <1>1 DEF Values
<1>3. Accepted("instrument_universe", s) <=> InstrumentUniverse(s)
  BY DEF Accepted
<1> HIDE DEF s
<1>4. Permitted("symbols", table["symbols"]) <=>
        Readable("symbols", table) /\ InstrumentUniverse(s)
  BY <1>1, <1>2, SymbolsPermitted
<1> QED BY <1>1, <1>3, <1>4 DEF Permits, Lets, s

LEMMA GatesPermitted ==
  ASSUME NEW table \in [FieldsOf("promotion_gates") -> TomlValue]
  PROVE  Permits("promotion_gates", table) <=> Lets("promotion_gates", table)
<1> DEFINE s == Values("promotion_gates", table)
           flag == "require_independent_validation"
           count == "minimum_observations"
           least == "minimum_out_of_sample_fraction"
           most == "maximum_drawdown_fraction"
<1>1. FieldsOf("promotion_gates") = {flag, count, least, most}
  BY SectionFields
<1>2. \A f \in {flag, count, least, most} : f \in DOMAIN table /\ table[f] \in TomlValue
  BY <1>1
<1>3. /\ s[flag] = Read(flag, table[flag]) /\ s[count] = Read(count, table[count])
      /\ s[least] = Read(least, table[least]) /\ s[most] = Read(most, table[most])
  BY <1>1 DEF Values
<1>4. Accepted("promotion_gates", s) <=>
        /\ s[flag] /\ s[count] > 0
        /\ s[least].finite /\ AboveZero(s[least]) /\ AtMostOne(s[least])
        /\ s[most].finite /\ AtLeastZero(s[most]) /\ AtMostOne(s[most])
  BY DEF Accepted, PromotionGates, PositiveFraction, Fraction
<1>5. Permitted(flag, table[flag]) <=> Readable(flag, table) /\ Read(flag, table[flag])
  <2>1. flag \in Flag /\ flag \notin {"leverage_enabled", "short_selling_enabled"}
    BY DEF Flag
  <2> QED BY <1>2, <2>1, FlagPermitted
<1>6. Permitted(count, table[count]) <=> Readable(count, table) /\ Read(count, table[count]) > 0
  <2>1. count \in IntegerField
    BY DEF IntegerField
  <2> QED BY <1>2, <2>1, IntegerPermitted
<1>7. Permitted(least, table[least]) <=>
        /\ Readable(least, table) /\ Read(least, table[least]).finite
        /\ AboveZero(Read(least, table[least])) /\ AtMostOne(Read(least, table[least]))
  <2>1. least \in DecimalField /\ least # "maximum_drawdown_fraction" /\ least # "starting_cash"
    BY DEF DecimalField
  <2> QED BY <1>2, <2>1, DecimalPermitted
<1>8. Permitted(most, table[most]) <=>
        /\ Readable(most, table) /\ Read(most, table[most]).finite
        /\ AtLeastZero(Read(most, table[most])) /\ AtMostOne(Read(most, table[most]))
  <2>1. most \in DecimalField /\ most = "maximum_drawdown_fraction" /\ most # "starting_cash"
    BY DEF DecimalField
  <2> QED BY <1>2, <2>1, DecimalPermitted
<1>9. Permits("promotion_gates", table) <=>
        /\ Permitted(flag, table[flag]) /\ Permitted(count, table[count])
        /\ Permitted(least, table[least]) /\ Permitted(most, table[most])
  BY <1>1 DEF Permits
<1>10. (\A f \in FieldsOf("promotion_gates") : Readable(f, table)) <=>
         Readable(flag, table) /\ Readable(count, table) /\ Readable(least, table) /\ Readable(most, table)
  BY <1>1
<1>11. s[flag] <=> Read(flag, table[flag])
  BY <1>3
<1> HIDE DEF s, flag, count, least, most
<1> QED BY <1>3, <1>4, <1>5, <1>6, <1>7, <1>8, <1>9, <1>10, <1>11, Zenon DEF Lets, s

LEMMA PaperPermitted ==
  ASSUME NEW table \in [FieldsOf("paper") -> TomlValue]
  PROVE  Permits("paper", table) <=> Lets("paper", table)
<1> DEFINE s == Values("paper", table)
           cash == "starting_cash"
           part == "max_position_fraction"
           open == "max_open_positions"
           Out == {"leverage_enabled", "short_selling_enabled"}
<1>1. FieldsOf("paper") = {"enabled", cash, part, open} \cup Out
  BY SectionFields
<1>2. \A f \in FieldsOf("paper") :
        f \in DOMAIN table /\ table[f] \in TomlValue /\ s[f] = Read(f, table[f])
  BY DEF Values
<1>3. Accepted("paper", s) <=>
        /\ s[cash].finite /\ AboveZero(s[cash])
        /\ s[part].finite /\ AboveZero(s[part]) /\ AtMostOne(s[part])
        /\ s[open] > 0
        /\ \A f \in Out : ~s[f]
  BY DEF Accepted, PaperSettings, PositiveFraction
<1>4. /\ Permitted("enabled", table["enabled"]) <=> Readable("enabled", table)
      /\ \A f \in Out : Permitted(f, table[f]) <=> Readable(f, table) /\ ~s[f]
  <2>1. "enabled" \in Flag /\ "enabled" \notin Out
        /\ \A f \in Out : f \in Flag /\ f # "require_independent_validation"
    BY DEF Flag
  <2>2. "enabled" # "require_independent_validation"
    OBVIOUS
  <2>3. Permitted("enabled", table["enabled"]) <=> Readable("enabled", table)
    BY <1>1, <1>2, <2>1, <2>2, FlagPermitted
  <2>4. ASSUME NEW f \in Out
        PROVE  Permitted(f, table[f]) <=> Readable(f, table) /\ ~s[f]
    <3>1. f \in Flag /\ f # "require_independent_validation" /\ f \in FieldsOf("paper")
      BY <1>1, <2>1
    <3>2. s[f] = Read(f, table[f]) /\ f \in DOMAIN table /\ table[f] \in TomlValue
      BY <1>2, <3>1
    <3>3. Permitted(f, table[f]) <=> Readable(f, table) /\ ~Read(f, table[f])
      BY <3>1, <3>2, FlagPermitted
    <3> HIDE DEF s
    <3> QED BY <3>2, <3>3, Zenon
  <2> QED BY <2>3, <2>4
<1>5. Permitted(open, table[open]) <=> Readable(open, table) /\ s[open] > 0
  <2>1. open \in IntegerField
    BY DEF IntegerField
  <2> QED BY <1>1, <1>2, <2>1, IntegerPermitted
<1>6. Permitted(cash, table[cash]) <=>
        Readable(cash, table) /\ s[cash].finite /\ AboveZero(s[cash])
  <2>1. cash \in DecimalField /\ cash # "maximum_drawdown_fraction" /\ cash = "starting_cash"
    BY DEF DecimalField
  <2> HIDE DEF s
  <2> QED BY <1>1, <1>2, <2>1, DecimalPermitted
<1>7. Permitted(part, table[part]) <=>
        Readable(part, table) /\ s[part].finite /\ AboveZero(s[part]) /\ AtMostOne(s[part])
  <2>1. part \in DecimalField /\ part # "maximum_drawdown_fraction" /\ part # "starting_cash"
    BY DEF DecimalField
  <2> HIDE DEF s
  <2> QED BY <1>1, <1>2, <2>1, DecimalPermitted
<1>8. Permits("paper", table) <=>
        /\ Permitted("enabled", table["enabled"]) /\ Permitted(cash, table[cash])
        /\ Permitted(part, table[part]) /\ Permitted(open, table[open])
        /\ \A f \in Out : Permitted(f, table[f])
  BY <1>1 DEF Permits
<1>9. (\A f \in FieldsOf("paper") : Readable(f, table)) <=>
        /\ Readable("enabled", table) /\ Readable(cash, table) /\ Readable(part, table)
        /\ Readable(open, table) /\ \A f \in Out : Readable(f, table)
  BY <1>1
<1> HIDE DEF s, cash, part, open, Out
<1> QED BY <1>3, <1>4, <1>5, <1>6, <1>7, <1>8, <1>9, Zenon DEF Lets, s

LEMMA LivePermitted ==
  ASSUME NEW table \in [FieldsOf("live") -> TomlValue]
  PROVE  Permits("live", table) <=> Lets("live", table)
<1> DEFINE s == Values("live", table)
           Out == {"leverage_enabled", "short_selling_enabled"}
<1>1. FieldsOf("live") = {"enabled"} \cup Out
  BY SectionFields
<1>2. \A f \in FieldsOf("live") :
        f \in DOMAIN table /\ table[f] \in TomlValue /\ s[f] = Read(f, table[f])
  BY DEF Values
<1>3. Accepted("live", s) <=> ~s["enabled"] /\ \A f \in Out : ~s[f]
  BY DEF Accepted, LiveSettings
<1>4. ASSUME NEW f \in Out
      PROVE  Permitted(f, table[f]) <=> Readable(f, table) /\ ~s[f]
  <2>1. f \in Flag /\ f # "require_independent_validation" /\ f \in FieldsOf("live")
    BY <1>1 DEF Flag
  <2>2. s[f] = Read(f, table[f]) /\ f \in DOMAIN table /\ table[f] \in TomlValue
    BY <1>2, <2>1
  <2>3. Permitted(f, table[f]) <=> Readable(f, table) /\ ~Read(f, table[f])
    BY <2>1, <2>2, FlagPermitted
  <2> HIDE DEF s
  <2> QED BY <2>2, <2>3, Zenon
<1>5. /\ Permitted("enabled", table["enabled"]) <=> Readable("enabled", table)
      /\ Readable("enabled", table) => s["enabled"] \in BOOLEAN
  <2>1. "enabled" \in Flag /\ "enabled" # "require_independent_validation" /\ "enabled" \notin Out
    BY DEF Flag
  <2> HIDE DEF s
  <2> QED BY <1>1, <1>2, <2>1, FlagPermitted
<1>6. Readable("enabled", table) =>
        (table["enabled"] = <<"bool", FALSE>> <=> ~s["enabled"])
  <2> SUFFICES ASSUME Readable("enabled", table)
               PROVE  table["enabled"] = <<"bool", FALSE>> <=> ~s["enabled"]
    OBVIOUS
  <2> DEFINE v == table["enabled"]
  <2>1. v = <<v[1], v[2]>>
    BY <1>1, <1>2, TomlAssumption
  <2>2. v[1] = "bool" /\ s["enabled"] = v[2]
    <3>1. "enabled" \notin IntegerField /\ "enabled" \notin DecimalField /\ "enabled" # "symbols"
      BY DEF IntegerField, DecimalField
    <3> QED BY <1>1, <1>2, <3>1 DEF Readable, Read
  <2>3. <<"bool", FALSE>>[1] = "bool" /\ <<"bool", FALSE>>[2] = FALSE
    OBVIOUS
  <2>4. s["enabled"] \in BOOLEAN
    BY <1>5
  <2> HIDE DEF s
  <2> QED BY <2>1, <2>2, <2>3, <2>4, Zenon
<1>7. Permits("live", table) <=>
        /\ Permitted("enabled", table["enabled"]) /\ table["enabled"] = <<"bool", FALSE>>
        /\ \A f \in Out : Permitted(f, table[f])
  BY <1>1 DEF Permits
<1>8. (\A f \in FieldsOf("live") : Readable(f, table)) <=>
        Readable("enabled", table) /\ \A f \in Out : Readable(f, table)
  BY <1>1
<1> HIDE DEF s, Out
<1> QED BY <1>3, <1>4, <1>5, <1>6, <1>7, <1>8, Zenon DEF Lets, s

LEMMA SectionPermitted ==
  ASSUME NEW section \in DOMAIN Fields, NEW table \in [FieldsOf(section) -> TomlValue]
  PROVE  Permits(section, table) <=> Lets(section, table)
<1>1. section \in {"research_budget", "instrument_universe", "promotion_gates", "paper", "live"}
  BY SectionFields
<1> QED BY <1>1, ResearchBudgetPermitted, UniversePermitted, GatesPermitted, PaperPermitted,
           LivePermitted

-----------------------------------------------------------------------------
(* The secret references, and the document as a whole *)

SecretField == {"name", "environment_variable"}

\* What the policy permits as secret references
SecretsOk(v) ==
  /\ v[1] = "list"
  /\ \A i \in DOMAIN v[2] :
       /\ v[2][i][1] = "table" /\ DOMAIN v[2][i][2] = SecretField
       /\ \E n \in SecretName : v[2][i][2]["name"] = <<"str", n>>
       /\ \E x \in VariableName : v[2][i][2]["environment_variable"] = <<"str", x>>
  /\ \A i, j \in DOMAIN v[2] : i # j =>
       \A f \in SecretField : v[2][i][2][f] # v[2][j][2][f]

LEMMA SecretPermitted ==
  ASSUME NEW t \in TomlValue
  PROVE  IsSecret(t) <=>
           /\ t[1] = "table" /\ DOMAIN t[2] = SecretField
           /\ \E n \in SecretName : t[2]["name"] = <<"str", n>>
           /\ \E x \in VariableName : t[2]["environment_variable"] = <<"str", x>>
<1> DEFINE table == t[2]
           r == [f \in DOMAIN table |-> table[f][2]]
<1>1. IsSecret(t) <=>
        /\ t[1] = "table" /\ DOMAIN table = SecretField
        /\ \A f \in DOMAIN table : table[f][1] = "str"
        /\ r.name \in SecretName /\ r.environment_variable \in VariableName
  BY DEF IsSecret, SecretField, SecretReference
<1>2. SUFFICES ASSUME t[1] = "table", DOMAIN table = SecretField
               PROVE  IsSecret(t) <=>
                        /\ \E n \in SecretName : table["name"] = <<"str", n>>
                        /\ \E x \in VariableName : table["environment_variable"] = <<"str", x>>
  BY <1>1
<1>3. ASSUME NEW f \in SecretField
      PROVE  table[f] = <<table[f][1], table[f][2]>> /\ r[f] = table[f][2]
  <2>1. table \in [DOMAIN table -> TomlValue]
    BY <1>2, TomlAssumption
  <2>2. table[f] \in TomlValue
    BY <1>2, <2>1
  <2> QED BY <1>2, <2>2, TomlAssumption
<1>4. \A f \in SecretField : \A X :
        (\E x \in X : table[f] = <<"str", x>>) <=> table[f][1] = "str" /\ r[f] \in X
  <2>1. \A x : <<"str", x>>[1] = "str" /\ <<"str", x>>[2] = x
    OBVIOUS
  <2> HIDE DEF table, r
  <2> QED BY <1>3, <2>1, Zenon
<1>5. "name" \in SecretField /\ "environment_variable" \in SecretField
  BY DEF SecretField
<1>6. (\A f \in DOMAIN table : table[f][1] = "str") <=>
        table["name"][1] = "str" /\ table["environment_variable"][1] = "str"
  BY <1>2 DEF SecretField
<1> HIDE DEF table, r
<1> QED BY <1>1, <1>2, <1>4, <1>5, <1>6

LEMMA SecretsPermitted ==
  ASSUME NEW v \in TomlValue
  PROVE  SecretsOk(v) <=>
           /\ v[1] = "list" /\ \A i \in DOMAIN v[2] : IsSecret(v[2][i])
           /\ \A f \in SecretField : NoDuplicates([i \in DOMAIN Secrets(v) |-> Secrets(v)[i][f]])
<1> SUFFICES ASSUME v[1] = "list"
             PROVE  SecretsOk(v) <=>
                      /\ \A i \in DOMAIN v[2] : IsSecret(v[2][i])
                      /\ \A f \in SecretField :
                           NoDuplicates([i \in DOMAIN Secrets(v) |-> Secrets(v)[i][f]])
  BY DEF SecretsOk
<1>1. \A i \in DOMAIN v[2] : v[2][i] \in TomlValue
  BY TomlAssumption
<1>2. (\A i \in DOMAIN v[2] : IsSecret(v[2][i])) <=>
        \A i \in DOMAIN v[2] :
           /\ v[2][i][1] = "table" /\ DOMAIN v[2][i][2] = SecretField
           /\ \E n \in SecretName : v[2][i][2]["name"] = <<"str", n>>
           /\ \E x \in VariableName : v[2][i][2]["environment_variable"] = <<"str", x>>
  BY <1>1, SecretPermitted
<1>3. SUFFICES ASSUME \A i \in DOMAIN v[2] : IsSecret(v[2][i])
               PROVE  (\A i, j \in DOMAIN v[2] : i # j =>
                         \A f \in SecretField : v[2][i][2][f] # v[2][j][2][f]) <=>
                      \A f \in SecretField :
                        NoDuplicates([i \in DOMAIN Secrets(v) |-> Secrets(v)[i][f]])
  BY <1>2 DEF SecretsOk
<1>4. DOMAIN Secrets(v) = DOMAIN v[2]
  BY DEF Secrets
<1>5. ASSUME NEW i \in DOMAIN v[2], NEW f \in SecretField
      PROVE  v[2][i][2][f] = <<"str", Secrets(v)[i][f]>>
  <2> DEFINE t == v[2][i]
  <2>1. t \in TomlValue /\ IsSecret(t)
    BY <1>1, <1>3
  <2>2. t[1] = "table" /\ DOMAIN t[2] = SecretField /\ \A g \in DOMAIN t[2] : t[2][g][1] = "str"
    BY <2>1 DEF IsSecret, SecretField
  <2>3. t[2] \in [DOMAIN t[2] -> TomlValue]
    BY <2>1, <2>2, TomlAssumption
  <2>4. t[2][f] \in TomlValue
    BY <2>2, <2>3
  <2>5. t[2][f] = <<"str", t[2][f][2]>>
    BY <2>2, <2>4, TomlAssumption
  <2>6. Secrets(v)[i][f] = t[2][f][2]
    BY <2>2 DEF Secrets
  <2> QED BY <2>5, <2>6
<1>6. ASSUME NEW i \in DOMAIN v[2], NEW j \in DOMAIN v[2], NEW f \in SecretField
      PROVE  v[2][i][2][f] = v[2][j][2][f] <=> Secrets(v)[i][f] = Secrets(v)[j][f]
  <2> DEFINE a == Secrets(v)[i][f]
             b == Secrets(v)[j][f]
  <2>1. v[2][i][2][f] = <<"str", a>> /\ v[2][j][2][f] = <<"str", b>>
    BY <1>5
  <2>2. <<"str", a>>[2] = a /\ <<"str", b>>[2] = b
    OBVIOUS
  <2> HIDE DEF a, b
  <2>3. v[2][i][2][f] = v[2][j][2][f] <=> a = b
    BY <2>1, <2>2, Zenon
  <2> QED BY <2>3 DEF a, b
<1> DEFINE Same(i, j, f) == v[2][i][2][f] = v[2][j][2][f]
           Once(f) == NoDuplicates([i \in DOMAIN Secrets(v) |-> Secrets(v)[i][f]])
<1>7. ASSUME NEW f \in SecretField
      PROVE  Once(f) <=> \A i, j \in DOMAIN v[2] : Same(i, j, f) => i = j
  <2>1. Once(f) <=> \A i, j \in DOMAIN v[2] : Secrets(v)[i][f] = Secrets(v)[j][f] => i = j
    BY <1>4 DEF NoDuplicates
  <2> QED BY <1>6, <2>1
<1>8. SUFFICES (\A i, j \in DOMAIN v[2] : i # j => \A f \in SecretField : ~Same(i, j, f)) <=>
                 \A f \in SecretField : Once(f)
  OBVIOUS
<1> HIDE DEF Same, Once
<1> QED BY <1>7

\* A section's table, with exactly its fields
Exact(d, section) ==
  /\ section \in DOMAIN d /\ d[section][1] = "table"
  /\ DOMAIN d[section][2] = FieldsOf(section)

\* A document conforms when each part of it does.
LEMMA ConformsInParts ==
  ASSUME NEW f, NEW e
  PROVE  Conforms(f, e) <=>
           /\ e \in Environment /\ f[1] = "table" /\ DOMAIN f[2] = RootField
           /\ f[2]["schema_version"] = <<"int", 1>> /\ f[2]["environment"] = <<"str", e>>
           /\ \A section \in DOMAIN Fields :
                Exact(f[2], section) /\ Permits(section, f[2][section][2])
           /\ f[2]["paper"][2]["enabled"] = <<"bool", e = "paper">>
           /\ SecretsOk(f[2]["secret_references"])
<1> DEFINE d == f[2]
<1>1. ASSUME DOMAIN d = RootField
      PROVE  \A section \in DOMAIN Fields :
               Exact(d, section) <=> d[section][1] = "table" /\ DOMAIN d[section][2] = FieldsOf(section)
  BY <1>1 DEF Exact, RootField
<1>2. (\A section \in DOMAIN Fields : Permits(section, d[section][2])) <=>
        /\ \A section \in DOMAIN Fields :
             \A field \in FieldsOf(section) : Permitted(field, d[section][2][field])
        /\ d["live"][2]["enabled"] = <<"bool", FALSE>>
  <2>1. "live" \in DOMAIN Fields
    BY SectionFields
  <2> HIDE DEF d
  <2> QED BY <2>1, Zenon DEF Permits
<1>3. Conforms(f, e) <=>
        /\ e \in Environment /\ f[1] = "table" /\ DOMAIN d = RootField
        /\ d["schema_version"] = <<"int", 1>> /\ d["environment"] = <<"str", e>>
        /\ \A section \in DOMAIN Fields :
             /\ d[section][1] = "table" /\ DOMAIN d[section][2] = FieldsOf(section)
             /\ \A field \in FieldsOf(section) : Permitted(field, d[section][2][field])
        /\ d["live"][2]["enabled"] = <<"bool", FALSE>>
        /\ d["paper"][2]["enabled"] = <<"bool", e = "paper">>
        /\ SecretsOk(d["secret_references"])
  BY Zenon DEF Conforms, SecretsOk, SecretField
<1> HIDE DEF d
<1>4. Conforms(f, e) <=>
        /\ e \in Environment /\ f[1] = "table" /\ DOMAIN d = RootField
        /\ d["schema_version"] = <<"int", 1>> /\ d["environment"] = <<"str", e>>
        /\ \A section \in DOMAIN Fields : Exact(d, section) /\ Permits(section, d[section][2])
        /\ d["paper"][2]["enabled"] = <<"bool", e = "paper">>
        /\ SecretsOk(d["secret_references"])
  BY <1>1, <1>2, <1>3, Zenon
<1> QED BY <1>4 DEF d

-----------------------------------------------------------------------------
(* The inductive invariant: what the parts of load_configuration that are over *)
(* have established, and what became of the calls that ended.                  *)

Parts == { "idle", "decode", "root", "environment", "require", "version", "construct",
           "secrets", "snapshot" }

\* The passes over the sections begin at the first one.
LoaderTypeOK ==
  /\ pc \in Parts
  /\ file \in File /\ expected \in Environment \cup {NoEnvironment}
  /\ next \in Nat \ {0}
  /\ pc \in {"require", "construct"} => next \in 1..Len(Section)
  /\ pc \in {"decode", "root", "environment", "version", "secrets"} => next = 1
  /\ pc \in {"decode", "root", "environment", "require", "version"} => sections = <<>>

\* A decimal is written for a snapshot only.
Quiet == writing => pc = "snapshot"

MatchesEnvironment ==
  Is(Document, "environment", "str") /\ Document["environment"][2] = expected

\* Each check is made in its order, and its result is good until the call ends.
Checked ==
  /\ pc \in Parts \ {"idle", "decode", "snapshot"} => file[1] = "table" /\ expected \in Environment
  /\ pc \in {"environment", "require", "version", "construct", "secrets"} =>
       DOMAIN Document = RootField
  /\ pc \in {"require", "version", "construct", "secrets"} => MatchesEnvironment
  /\ pc = "require" => \A i \in 1..(next - 1) : Exact(Document, Section[i])
  /\ pc \in {"version", "construct", "secrets"} =>
       \A i \in 1..Len(Section) : Exact(Document, Section[i])
  /\ pc \in {"construct", "secrets"} => Is(Document, "schema_version", "int")

\* The sections that are constructed are the first ones, with the document's values.
Constructed ==
  /\ pc = "construct" => DOMAIN sections = { Section[i] : i \in 1..(next - 1) }
  /\ pc = "secrets" => DOMAIN sections = DOMAIN Fields
  /\ pc \in {"construct", "secrets"} =>
       /\ sections = [section \in DOMAIN sections |-> sections[section]]
       /\ \A section \in DOMAIN sections :
            /\ Lets(section, Document[section][2])
            /\ sections[section] = Values(section, Document[section][2])

\* A configuration has all its fields, and decimals where it should.
ConfigurationOk(c) ==
  /\ c = [ schema_version |-> c.schema_version, environment |-> c.environment,
           sections |-> c.sections, secret_references |-> c.secret_references ]
  /\ c.sections = [section \in DOMAIN Fields |-> c.sections[section]]
  /\ \A section \in DOMAIN Fields :
       /\ c.sections[section] = [f \in FieldsOf(section) |-> c.sections[section][f]]
       /\ \A f \in FieldsOf(section) \cap DecimalField :
            c.sections[section][f] \in Decimal /\ c.sections[section][f].finite

\* The snapshot is taken of a configuration that a good document describes, and the
\* decimals that the loop has come to have been written, or one is being written.  The
\* document is one that is named here, so that a step that keeps file and expected keeps
\* what is said of it.
Returning ==
  pc = "snapshot" =>
    /\ \E f, e : f = file /\ e = expected /\ Conforms(f, e)
    /\ ConfigurationOk(made)
    /\ \A i \in 1..(next - 1) : i <= Len(DecimalsOf(made)) =>
         \/ \E w \in written : w[1] = DecimalsOf(made)[i]
         \/ writing /\ value = DecimalsOf(made)[i]

\* What taking a snapshot yields, with the canonical text of every decimal
TakenOf(c) == IF Writable(c) THEN SnapshotOf(c) ELSE <<"ValueError">>

Snapshots ==
  \A l \in loaded : ConfigurationOk(l.configuration) /\ l.snapshot = TakenOf(l.configuration)

\* Together with the invariant of the loop, which the loader only starts.
LoaderInv ==
  /\ LoaderTypeOK /\ Quiet /\ Checked /\ Constructed /\ Returning
  /\ FailsClosed /\ LoadsThePolicy /\ Snapshots
  /\ IInv

-----------------------------------------------------------------------------
(* Facts about the parts of a document *)

LEMMA SectionOrder ==
  /\ Len(Section) = 5 /\ 1..Len(Section) = {1, 2, 3, 4, 5}
  /\ \A i \in 1..Len(Section) : Section[i] \in DOMAIN Fields
  /\ { Section[i] : i \in 1..Len(Section) } = DOMAIN Fields
  /\ \A i, j \in 1..Len(Section) : Section[i] = Section[j] => i = j
<1>1. Len(Section) = 5 /\ 1..Len(Section) = {1, 2, 3, 4, 5}
  BY DEF Section
<1>2. /\ Section[1] = "research_budget" /\ Section[2] = "instrument_universe"
      /\ Section[3] = "promotion_gates" /\ Section[4] = "paper" /\ Section[5] = "live"
  BY DEF Section
<1> QED BY <1>1, <1>2, SectionFields

LEMMA DocumentOk ==
  ASSUME file \in File, file[1] = "table"
  PROVE  /\ Document \in [DOMAIN Document -> TomlValue]
         /\ \A f \in DOMAIN Document : Document[f] \in TomlValue
         /\ \A section \in DOMAIN Fields :
              Exact(Document, section) => Document[section][2] \in [FieldsOf(section) -> TomlValue]
<1>1. file \in TomlValue
  BY DEF File, FailingFile
<1>2. Document \in [DOMAIN Document -> TomlValue]
  BY <1>1, TomlAssumption DEF Document
<1>3. \A f \in DOMAIN Document : Document[f] \in TomlValue
  BY <1>2
<1>4. ASSUME NEW section \in DOMAIN Fields, Exact(Document, section)
      PROVE  Document[section][2] \in [FieldsOf(section) -> TomlValue]
  <2>1. Document[section] \in TomlValue /\ Document[section][1] = "table"
    BY <1>3, <1>4 DEF Exact
  <2>2. Document[section][2] \in [DOMAIN Document[section][2] -> TomlValue]
    BY <2>1, TomlAssumption
  <2> QED BY <1>4, <2>2 DEF Exact
<1> QED BY <1>2, <1>3, <1>4

\* A document with exactly the root's fields has each of them.
LEMMA RootFields ==
  ASSUME DOMAIN Document = RootField
  PROVE  /\ "schema_version" \in DOMAIN Document /\ "environment" \in DOMAIN Document
         /\ "secret_references" \in DOMAIN Document
         /\ \A section \in DOMAIN Fields : section \in DOMAIN Document
BY DEF RootField

\* A call that raises is refused with cause, and with an error that is expected.
LEMMA RaiseKeeps ==
  ASSUME LoaderInv, NEW error, Raise(error), UNCHANGED decimalVars,
         pc # "snapshot", ~Conforms(file, expected),
         \/ error = "ConfigurationError"
         \/ error = "ValueError" /\ file = <<"invalid_path">>
         \/ error = "RecursionError" /\ file = <<"nested_too_deep">>
  PROVE  LoaderInv'
<1>1. /\ pc' = "idle" /\ loaded' = loaded
      /\ refused' = refused \cup {[file |-> file, expected |-> expected, error |-> error]}
      /\ UNCHANGED <<file, expected, next, sections, made, written, writing>>
  BY DEF Raise, decimalVars
<1>2. LoaderTypeOK' /\ Quiet' /\ Checked' /\ Constructed' /\ Returning'
  <2>1. LoaderTypeOK'
    BY <1>1 DEF LoaderInv, LoaderTypeOK, Parts
  <2>2. Quiet'
    BY <1>1 DEF LoaderInv, Quiet
  <2>3. Checked' /\ Constructed' /\ Returning'
    BY <1>1 DEF Checked, Constructed, Returning
  <2> QED BY <2>1, <2>2, <2>3
<1>3. FailsClosed' /\ LoadsThePolicy'
  <2> DEFINE r == [file |-> file, expected |-> expected, error |-> error]
  <2>1. r.file = file /\ r.expected = expected /\ r.error = error
    OBVIOUS
  <2>2. refused' = refused \cup {r}
    BY <1>1
  <2> HIDE DEF r
  <2>3. FailsClosed'
    BY <2>1, <2>2 DEF LoaderInv, FailsClosed
  <2>4. LoadsThePolicy'
    BY <1>1, <2>1, <2>2 DEF LoaderInv, LoadsThePolicy
  <2> QED BY <2>3, <2>4
<1>4. Snapshots'
  BY <1>1 DEF LoaderInv, Snapshots
<1>5. IInv'
  BY DEF LoaderInv, IInv, DecimalTypeOK, Loop, Described, decimalVars
<1> QED BY <1>2, <1>3, <1>4, <1>5 DEF LoaderInv

\* What the calls that ended have left stays as it is while a call runs on.
LEMMA HistoryKeeps ==
  ASSUME LoaderInv, UNCHANGED <<loaded, refused>>
  PROVE  FailsClosed' /\ LoadsThePolicy' /\ Snapshots'
<1>1. FailsClosed' /\ LoadsThePolicy'
  BY DEF LoaderInv, FailsClosed, LoadsThePolicy
<1>2. Snapshots'
  BY DEF LoaderInv, Snapshots
<1> QED BY <1>1, <1>2

LEMMA DecimalsKeep ==
  ASSUME LoaderInv, UNCHANGED decimalVars
  PROVE  IInv' /\ UNCHANGED <<writing, value, written>>
BY DEF LoaderInv, IInv, DecimalTypeOK, Loop, Described, decimalVars

-----------------------------------------------------------------------------
(* The parts of load_configuration *)

LEMMA OpenKeeps ==
  ASSUME LoaderInv, NEW in \in Input, pc = "idle", Open(in), UNCHANGED decimalVars
  PROVE  LoaderInv'
<1>1. /\ pc' = "decode" /\ file' = in[1] /\ expected' = in[2]
      /\ next' = 1 /\ sections' = <<>> /\ UNCHANGED <<made, loaded, refused>>
  BY DEF Open
<1>2. in[1] \in File /\ in[2] \in Environment \cup {NoEnvironment}
  BY DEF Input
<1>3. LoaderTypeOK'
  BY <1>1, <1>2 DEF LoaderTypeOK, Parts
<1>4. ~writing
  BY DEF LoaderInv, Quiet
<1>5. Quiet' /\ Checked' /\ Constructed' /\ Returning'
  BY <1>1, <1>4, DecimalsKeep DEF Quiet, Checked, Constructed, Returning, Parts
<1> QED BY <1>1, <1>3, <1>5, HistoryKeeps, DecimalsKeep DEF LoaderInv

LEMMA DecodeKeeps ==
  ASSUME LoaderInv, Decode, UNCHANGED decimalVars
  PROVE  LoaderInv'
<1>1. pc = "decode" /\ ~writing
  BY DEF Decode, LoaderInv, Quiet
<1>2. file \in File /\ expected \in Environment \cup {NoEnvironment} /\ NoEnvironment \notin Environment
  BY DEF LoaderInv, LoaderTypeOK, NoEnvironment, Environment
<1>3. Conforms(file, expected) => file[1] = "table" /\ expected \in Environment
  BY DEF Conforms
<1>4. ASSUME \/ file[1] = "unreadable" \/ expected = NoEnvironment
             \/ file[1] \in {"not_utf8", "not_toml"},
             Raise("ConfigurationError")
      PROVE  LoaderInv'
  <2>1. ~Conforms(file, expected)
    BY <1>2, <1>3, <1>4
  <2> QED BY <1>1, <1>4, <2>1, RaiseKeeps
<1>5. ASSUME file[1] = "nested_too_deep", Raise("RecursionError")
      PROVE  LoaderInv'
  <2>1. file = <<"nested_too_deep">>
    BY <1>2, <1>5 DEF File, FailingFile
  <2>2. ~Conforms(file, expected)
    BY <1>3, <1>5
  <2> QED BY <1>1, <1>5, <2>1, <2>2, RaiseKeeps
<1>6. ASSUME file[1] = "invalid_path", Raise("ValueError")
      PROVE  LoaderInv'
  <2>1. file = <<"invalid_path">>
    BY <1>2, <1>6 DEF File, FailingFile
  <2>2. ~Conforms(file, expected)
    BY <1>3, <1>6
  <2> QED BY <1>1, <1>6, <2>1, <2>2, RaiseKeeps
<1>7. ASSUME file[1] = "table", expected # NoEnvironment, Go("root"), UNCHANGED <<next, sections>>
      PROVE  LoaderInv'
  <2>1. pc' = "root" /\ UNCHANGED <<file, expected, made, loaded, refused, next, sections>>
    BY <1>7 DEF Go
  <2>2. LoaderTypeOK'
    BY <1>1, <2>1 DEF LoaderInv, LoaderTypeOK, Parts
  <2>3. Checked'
    BY <1>2, <1>7, <2>1 DEF Checked, Parts
  <2>4. Quiet' /\ Constructed' /\ Returning'
    BY <1>1, <2>1, DecimalsKeep DEF Quiet, Constructed, Returning
  <2> QED BY <2>1, <2>2, <2>3, <2>4, HistoryKeeps, DecimalsKeep DEF LoaderInv
<1> QED BY <1>4, <1>5, <1>6, <1>7 DEF Decode

LEMMA RootKeeps ==
  ASSUME LoaderInv, RequireRootFields, UNCHANGED decimalVars
  PROVE  LoaderInv'
<1>1. pc = "root" /\ ~writing /\ file[1] = "table" /\ expected \in Environment
  BY DEF RequireRootFields, LoaderInv, Quiet, Checked, Parts
<1>2. ASSUME DOMAIN Document # RootField, Raise("ConfigurationError")
      PROVE  LoaderInv'
  <2>1. ~Conforms(file, expected)
    BY <1>2 DEF Conforms, Document
  <2> QED BY <1>1, <1>2, <2>1, RaiseKeeps
<1>3. ASSUME DOMAIN Document = RootField, Go("environment"), UNCHANGED <<next, sections>>
      PROVE  LoaderInv'
  <2>1. pc' = "environment" /\ UNCHANGED <<file, expected, made, loaded, refused, next, sections>>
    BY <1>3 DEF Go
  <2>2. LoaderTypeOK'
    BY <1>1, <2>1 DEF LoaderInv, LoaderTypeOK, Parts
  <2>3. Checked'
    BY <1>1, <1>3, <2>1 DEF Checked, Document
  <2>4. Quiet' /\ Constructed' /\ Returning'
    BY <1>1, <2>1, DecimalsKeep DEF Quiet, Constructed, Returning
  <2> QED BY <2>1, <2>2, <2>3, <2>4, HistoryKeeps, DecimalsKeep DEF LoaderInv
<1> QED BY <1>2, <1>3 DEF RequireRootFields

LEMMA EnvironmentKeeps ==
  ASSUME LoaderInv, MatchEnvironment, UNCHANGED decimalVars
  PROVE  LoaderInv'
<1>1. pc = "environment" /\ ~writing /\ file[1] = "table" /\ expected \in Environment
      /\ DOMAIN Document = RootField
  BY DEF MatchEnvironment, LoaderInv, Quiet, Checked, Parts
<1>2. ASSUME ~MatchesEnvironment, Raise(ErrorOf(Document, "environment"))
      PROVE  LoaderInv'
  <2>1. ErrorOf(Document, "environment") = "ConfigurationError"
    BY <1>1, RootFields DEF ErrorOf
  <2>2. ASSUME Document["environment"] = <<"str", expected>>
        PROVE  MatchesEnvironment
    BY <1>1, <2>2, RootFields DEF MatchesEnvironment, Is
  <2>3. ~Conforms(file, expected)
    BY <1>2, <2>2 DEF Conforms, Document
  <2> QED BY <1>1, <1>2, <2>1, <2>3, RaiseKeeps
<1>3. ASSUME MatchesEnvironment, Go("require"), UNCHANGED <<next, sections>>
      PROVE  LoaderInv'
  <2>1. pc' = "require" /\ UNCHANGED <<file, expected, made, loaded, refused, next, sections>>
    BY <1>3 DEF Go
  <2>2. next = 1 /\ 1 \in 1..Len(Section)
    BY <1>1, SectionOrder DEF LoaderInv, LoaderTypeOK
  <2>3. LoaderTypeOK'
    BY <1>1, <2>1, <2>2 DEF LoaderInv, LoaderTypeOK, Parts
  <2>4. Checked'
    BY <1>1, <1>3, <2>1, <2>2 DEF Checked, Document, MatchesEnvironment
  <2>5. Quiet' /\ Constructed' /\ Returning'
    BY <1>1, <2>1, DecimalsKeep DEF Quiet, Constructed, Returning
  <2> QED BY <2>1, <2>3, <2>4, <2>5, HistoryKeeps, DecimalsKeep DEF LoaderInv
<1> QED BY <1>2, <1>3 DEF MatchEnvironment, MatchesEnvironment

LEMMA RequireKeeps ==
  ASSUME LoaderInv, RequireTable, UNCHANGED decimalVars
  PROVE  LoaderInv'
<1> DEFINE section == Section[next]
<1>1. /\ pc = "require" /\ ~writing /\ file[1] = "table" /\ expected \in Environment
      /\ DOMAIN Document = RootField /\ MatchesEnvironment
      /\ \A i \in 1..(next - 1) : Exact(Document, Section[i])
      /\ next \in 1..Len(Section) /\ sections = <<>>
  BY DEF RequireTable, LoaderInv, Quiet, Checked, Parts, LoaderTypeOK
<1>2. section \in DOMAIN Fields /\ section \in DOMAIN Document
  BY <1>1, SectionOrder, RootFields
<1>3. ASSUME ~Exact(Document, section), Raise(ErrorOf(Document, section))
      PROVE  LoaderInv'
  <2>1. ErrorOf(Document, section) = "ConfigurationError"
    BY <1>2 DEF ErrorOf
  <2>2. ~Conforms(file, expected)
    BY <1>2, <1>3, ConformsInParts DEF Document
  <2> QED BY <1>1, <1>3, <2>1, <2>2, RaiseKeeps
<1>4. ASSUME Exact(Document, section), Following("require", "version"), UNCHANGED sections
      PROVE  LoaderInv'
  <2>1. UNCHANGED <<file, expected, made, loaded, refused, sections>>
    BY <1>4 DEF Following, Go
  <2>2. CASE next < Len(Section)
    <3>1. pc' = "require" /\ next' = next + 1
      BY <1>4, <2>2 DEF Following, Go
    <3>2. next' \in 1..Len(Section) /\ 1..(next' - 1) = 1..(next - 1) \cup {next}
      BY <1>1, <2>2, <3>1, SectionOrder
    <3>3. LoaderTypeOK'
      BY <1>1, <2>1, <3>1, <3>2 DEF LoaderInv, LoaderTypeOK, Parts
    <3>4. Checked'
      BY <1>1, <1>4, <2>1, <3>1, <3>2 DEF Checked, Document, MatchesEnvironment
    <3>5. Quiet' /\ Constructed' /\ Returning'
      BY <1>1, <3>1, DecimalsKeep DEF Quiet, Constructed, Returning
    <3> QED BY <2>1, <3>3, <3>4, <3>5, HistoryKeeps, DecimalsKeep DEF LoaderInv
  <2>3. CASE ~(next < Len(Section))
    <3>1. pc' = "version" /\ next' = 1
      BY <1>4, <2>3 DEF Following, Go
    <3>2. 1..Len(Section) = 1..(next - 1) \cup {next}
      BY <1>1, <2>3, SectionOrder
    <3>3. LoaderTypeOK'
      BY <1>1, <2>1, <3>1 DEF LoaderInv, LoaderTypeOK, Parts
    <3>4. Checked'
      BY <1>1, <1>4, <2>1, <3>1, <3>2 DEF Checked, Document, MatchesEnvironment
    <3>5. Quiet' /\ Constructed' /\ Returning'
      BY <1>1, <3>1, DecimalsKeep DEF Quiet, Constructed, Returning
    <3> QED BY <2>1, <3>3, <3>4, <3>5, HistoryKeeps, DecimalsKeep DEF LoaderInv
  <2> QED BY <2>2, <2>3
<1>5. Exact(Document, section) <=>
        Is(Document, section, "table") /\ DOMAIN Document[section][2] = FieldsOf(section)
  BY DEF Exact, Is
<1> QED BY <1>3, <1>4, <1>5 DEF RequireTable

LEMMA VersionKeeps ==
  ASSUME LoaderInv, ReadVersion, UNCHANGED decimalVars
  PROVE  LoaderInv'
<1>1. /\ pc = "version" /\ ~writing /\ file[1] = "table" /\ expected \in Environment
      /\ DOMAIN Document = RootField /\ MatchesEnvironment
      /\ \A i \in 1..Len(Section) : Exact(Document, Section[i])
      /\ next = 1 /\ sections = <<>>
  BY DEF ReadVersion, LoaderInv, Quiet, Checked, Parts, LoaderTypeOK
<1>2. ASSUME ~Is(Document, "schema_version", "int"), Raise(ErrorOf(Document, "schema_version"))
      PROVE  LoaderInv'
  <2>1. ErrorOf(Document, "schema_version") = "ConfigurationError"
    BY <1>1, RootFields DEF ErrorOf
  <2>2. Document["schema_version"] # <<"int", 1>>
    BY <1>1, <1>2, RootFields DEF Is
  <2>3. ~Conforms(file, expected)
    BY <2>2 DEF Conforms, Document
  <2> QED BY <1>1, <1>2, <2>1, <2>3, RaiseKeeps
<1>3. ASSUME Is(Document, "schema_version", "int"), Go("construct"), UNCHANGED <<next, sections>>
      PROVE  LoaderInv'
  <2>1. pc' = "construct" /\ UNCHANGED <<file, expected, made, loaded, refused, next, sections>>
    BY <1>3 DEF Go
  <2>2. LoaderTypeOK'
    BY <1>1, <2>1, SectionOrder DEF LoaderInv, LoaderTypeOK, Parts
  <2>3. Checked'
    BY <1>1, <1>3, <2>1 DEF Checked, Document, MatchesEnvironment
  <2>4. DOMAIN sections = {} /\ { Section[i] : i \in 1..(next - 1) } = {}
    BY <1>1
  <2>5. Constructed'
    <3>1. sections = [section \in DOMAIN sections |-> sections[section]]
      BY <1>1
    <3> QED BY <2>1, <2>4, <3>1 DEF Constructed
  <2>6. Quiet' /\ Returning'
    BY <1>1, <2>1, DecimalsKeep DEF Quiet, Returning
  <2> QED BY <2>1, <2>2, <2>3, <2>5, <2>6, HistoryKeeps, DecimalsKeep DEF LoaderInv
<1> QED BY <1>2, <1>3 DEF ReadVersion

LEMMA SectionKeeps ==
  ASSUME LoaderInv, ConstructSection, UNCHANGED decimalVars
  PROVE  LoaderInv'
<1> DEFINE section == Section[next]
           fields == Fields[section]
           table == Document[section][2]
           values == Values(section, table)
           Fails(i) == ~Readable(fields[i], table)
<1>1. /\ pc = "construct" /\ ~writing /\ file[1] = "table" /\ expected \in Environment
      /\ DOMAIN Document = RootField /\ MatchesEnvironment
      /\ \A i \in 1..Len(Section) : Exact(Document, Section[i])
      /\ Is(Document, "schema_version", "int")
      /\ next \in 1..Len(Section) /\ file \in File
  BY DEF ConstructSection, LoaderInv, Quiet, Checked, Parts, LoaderTypeOK
<1>2. /\ DOMAIN sections = { Section[i] : i \in 1..(next - 1) }
      /\ sections = [x \in DOMAIN sections |-> sections[x]]
      /\ \A x \in DOMAIN sections :
           /\ Lets(x, Document[x][2])
           /\ sections[x] = Values(x, Document[x][2])
  BY <1>1 DEF LoaderInv, Constructed
<1>3. section \in DOMAIN Fields /\ Exact(Document, section)
  BY <1>1, SectionOrder
<1>4. DOMAIN table = FieldsOf(section) /\ table \in [FieldsOf(section) -> TomlValue]
  BY <1>1, <1>3, DocumentOk DEF Exact
<1>5. (\A i \in DOMAIN fields : ~Fails(i)) <=> \A f \in FieldsOf(section) : Readable(f, table)
  BY DEF FieldsOf
<1>6. ASSUME ~Lets(section, table)
      PROVE  ~Conforms(file, expected)
  <2>1. ~Permits(section, table)
    BY <1>3, <1>4, <1>6, SectionPermitted
  <2> QED BY <1>3, <2>1, ConformsInParts DEF Document
<1>7. ASSUME NEW i \in DOMAIN fields, Fails(i), Raise(ErrorOf(table, fields[i]))
      PROVE  LoaderInv'
  <2>1. fields[i] \in DOMAIN table
    BY <1>4 DEF FieldsOf
  <2>2. ErrorOf(table, fields[i]) = "ConfigurationError"
    BY <2>1 DEF ErrorOf
  <2>3. ~Lets(section, table)
    BY <1>5, <1>7 DEF Lets
  <2>4. Raise("ConfigurationError")
    BY <1>7, <2>2
  <2> QED BY <1>1, <1>6, <2>3, <2>4, RaiseKeeps
<1>8. ASSUME ~Accepted(section, values), Raise("ConfigurationError")
      PROVE  LoaderInv'
  <2>1. ~Lets(section, table)
    BY <1>8 DEF Lets
  <2> QED BY <1>1, <1>6, <1>8, <2>1, RaiseKeeps
<1>9. ASSUME \A i \in DOMAIN fields : ~Fails(i), Accepted(section, values),
             sections' = [ s \in DOMAIN sections \cup {section} |->
                             IF s = section THEN values ELSE sections[s] ],
             Following("construct", "secrets")
      PROVE  LoaderInv'
  <2>1. UNCHANGED <<file, expected, made, loaded, refused>>
    BY <1>9 DEF Following, Go
  <2>2. Lets(section, table)
    BY <1>5, <1>9 DEF Lets
  <2>3. section \notin DOMAIN sections
    <3>1. \A i \in 1..(next - 1) : i \in 1..Len(Section) /\ i # next
      BY <1>1, SectionOrder
    <3> QED BY <1>1, <1>2, <3>1, SectionOrder
  <2>4. /\ sections' = [x \in DOMAIN sections' |-> sections'[x]]
        /\ DOMAIN sections' = DOMAIN sections \cup {section} /\ sections'[section] = values
        /\ \A x \in DOMAIN sections : sections'[x] = sections[x]
    <3> HIDE DEF section, values
    <3> QED BY <1>9, <2>3
  <2>5. DOMAIN sections' = { Section[i] : i \in 1..next }
    <3>1. 1..next = 1..(next - 1) \cup {next}
      BY <1>1, SectionOrder
    <3> QED BY <1>2, <2>4, <3>1
  <2>6. \A x \in DOMAIN sections' :
          /\ Lets(x, Document[x][2])
          /\ sections'[x] = Values(x, Document[x][2])
    <3> HIDE DEF Lets, Values
    <3> QED BY <1>2, <2>2, <2>4
  <2>7. CASE next < Len(Section)
    <3>1. pc' = "construct" /\ next' = next + 1
      BY <1>9, <2>7 DEF Following, Go
    <3>2. next' \in 1..Len(Section) /\ next' - 1 = next
      BY <1>1, <2>7, <3>1, SectionOrder
    <3>3. LoaderTypeOK'
      BY <1>1, <2>1, <3>1, <3>2 DEF LoaderInv, LoaderTypeOK, Parts
    <3>4. Checked'
      BY <1>1, <2>1, <3>1 DEF Checked, Document, MatchesEnvironment
    <3>5. Constructed'
      <4> HIDE DEF Lets, Values
      <4> QED BY <2>1, <2>4, <2>5, <2>6, <3>1, <3>2 DEF Constructed, Document
    <3>6. Quiet' /\ Returning'
      BY <1>1, <3>1, DecimalsKeep DEF Quiet, Returning
    <3> QED BY <2>1, <3>3, <3>4, <3>5, <3>6, HistoryKeeps, DecimalsKeep DEF LoaderInv
  <2>8. CASE ~(next < Len(Section))
    <3>1. pc' = "secrets" /\ next' = 1
      BY <1>9, <2>8 DEF Following, Go
    <3>2. DOMAIN sections' = DOMAIN Fields
      <4>1. next = Len(Section)
        BY <1>1, <2>8, SectionOrder
      <4> QED BY <2>5, <4>1, SectionOrder
    <3>3. LoaderTypeOK'
      BY <1>1, <2>1, <3>1 DEF LoaderInv, LoaderTypeOK, Parts
    <3>4. Checked'
      BY <1>1, <2>1, <3>1 DEF Checked, Document, MatchesEnvironment
    <3>5. Constructed'
      <4> HIDE DEF Lets, Values
      <4> QED BY <2>1, <2>4, <2>6, <3>1, <3>2 DEF Constructed, Document
    <3>6. Quiet' /\ Returning'
      BY <1>1, <3>1, DecimalsKeep DEF Quiet, Returning
    <3> QED BY <2>1, <3>3, <3>4, <3>5, <3>6, HistoryKeeps, DecimalsKeep DEF LoaderInv
  <2> QED BY <2>7, <2>8
<1> QED BY <1>7, <1>8, <1>9 DEF ConstructSection, Values

\* The Configuration that is constructed of what was read
Assembled == [ schema_version    |-> Document["schema_version"][2],
                        environment       |-> Document["environment"][2],
                        sections          |-> sections,
                        secret_references |-> Secrets(Document["secret_references"]) ]

\* When the secret references are read, everything else conforms but the version
\* and the environment of the paper section; Configuration's checks decide.
LEMMA ConsistentIsConforming ==
  ASSUME LoaderInv, pc = "secrets"
  PROVE  Conforms(file, expected) <=>
           /\ Is(Document, "secret_references", "list")
           /\ \A i \in DOMAIN Document["secret_references"][2] :
                IsSecret(Document["secret_references"][2][i])
           /\ Consistent(Assembled)
<1> DEFINE d == Document
           refs == d["secret_references"]
           flag == d["paper"][2]["enabled"]
           c == Assembled
<1>1. /\ file \in File /\ file[1] = "table" /\ expected \in Environment
      /\ DOMAIN d = RootField /\ MatchesEnvironment
      /\ \A i \in 1..Len(Section) : Exact(d, Section[i])
      /\ Is(d, "schema_version", "int")
      /\ DOMAIN sections = DOMAIN Fields
      /\ \A x \in DOMAIN sections :
           /\ Lets(x, d[x][2])
           /\ sections[x] = Values(x, d[x][2])
  BY DEF LoaderInv, Checked, Parts, LoaderTypeOK, Constructed
<1>2. /\ \A f \in DOMAIN d : d[f] \in TomlValue
      /\ \A section \in DOMAIN Fields :
           Exact(d, section) /\ d[section][2] \in [FieldsOf(section) -> TomlValue]
  <2>1. \A section \in DOMAIN Fields : Exact(d, section)
    BY <1>1, SectionOrder
  <2> QED BY <1>1, <2>1, DocumentOk
<1>3. /\ refs \in TomlValue /\ "secret_references" \in DOMAIN d
      /\ d["schema_version"] \in TomlValue /\ d["environment"] \in TomlValue
  BY <1>1, <1>2, RootFields
<1>4. \A section \in DOMAIN Fields : Exact(d, section) /\ Permits(section, d[section][2])
  <2>1. ASSUME NEW section \in DOMAIN Fields
        PROVE  Permits(section, d[section][2])
    <3>1. Lets(section, d[section][2]) /\ d[section][2] \in [FieldsOf(section) -> TomlValue]
      BY <1>1, <1>2
    <3> QED BY <3>1, SectionPermitted
  <2> QED BY <1>2, <2>1
<1>5. d["environment"] = <<"str", expected>> /\ d["environment"][2] = expected
  BY <1>1, <1>3, TomlAssumption DEF MatchesEnvironment, Is
<1>6. d["schema_version"] = <<"int", 1>> <=> c.schema_version = 1
  <2>1. d["schema_version"] = <<"int", d["schema_version"][2]>>
    BY <1>1, <1>3, TomlAssumption DEF Is
  <2>2. c.schema_version = d["schema_version"][2]
    BY DEF Assembled
  <2> QED BY <2>1, <2>2
<1>7. flag = <<"bool", expected = "paper">> <=> (c.sections.paper.enabled <=> c.environment = "paper")
  <2>1. "paper" \in DOMAIN Fields /\ "enabled" \in FieldsOf("paper")
    BY SectionFields
  <2>2. Lets("paper", d["paper"][2]) /\ sections["paper"] = Values("paper", d["paper"][2])
    BY <1>1, <2>1
  <2>3. Readable("enabled", d["paper"][2]) /\ flag \in TomlValue
        /\ sections["paper"]["enabled"] = Read("enabled", flag)
    BY <1>2, <2>1, <2>2 DEF Lets, Values
  <2>4. flag[1] = "bool" /\ Read("enabled", flag) = flag[2]
    <3>1. "enabled" \notin IntegerField /\ "enabled" \notin DecimalField /\ "enabled" # "symbols"
      BY DEF IntegerField, DecimalField
    <3> QED BY <2>3, <3>1 DEF Readable, Read
  <2>5. flag = <<"bool", flag[2]>> /\ flag[2] \in BOOLEAN
    BY <2>3, <2>4, TomlAssumption
  <2>6. c.sections.paper.enabled = flag[2] /\ c.environment = expected
    BY <1>5, <2>3, <2>4 DEF Assembled
  <2> DEFINE b == expected = "paper"
  <2>7. <<"bool", b>>[2] = b /\ b \in BOOLEAN
    OBVIOUS
  <2>8. (c.environment = "paper") <=> b
    BY <2>6
  <2> HIDE DEF b, flag, c
  <2>9. flag = <<"bool", b>> <=> (c.sections.paper.enabled <=> b)
    BY <2>5, <2>6, <2>7, Zenon
  <2> QED BY <2>8, <2>9, Zenon DEF b
<1>8. SecretsOk(refs) <=>
        /\ refs[1] = "list" /\ \A i \in DOMAIN refs[2] : IsSecret(refs[2][i])
        /\ \A f \in SecretField :
             NoDuplicates([i \in DOMAIN c.secret_references |-> c.secret_references[i][f]])
  <2>1. c.secret_references = Secrets(refs)
    BY DEF Assembled
  <2> HIDE DEF refs, c
  <2> QED BY <1>3, <2>1, SecretsPermitted DEF refs
<1>9. Conforms(file, expected) <=>
        /\ d["schema_version"] = <<"int", 1>> /\ flag = <<"bool", expected = "paper">>
        /\ SecretsOk(refs)
  BY <1>1, <1>4, <1>5, ConformsInParts, Zenon DEF Document
<1>10. Is(d, "secret_references", "list") <=> refs[1] = "list"
  BY <1>3 DEF Is
<1>11. Consistent(c) <=>
         /\ c.schema_version = 1
         /\ \A f \in SecretField :
              NoDuplicates([i \in DOMAIN c.secret_references |-> c.secret_references[i][f]])
         /\ c.sections.paper.enabled <=> c.environment = "paper"
  <2> HIDE DEF c
  <2> QED BY Zenon DEF Consistent, SecretField
<1> HIDE DEF refs, flag, c, d
<1>12. Conforms(file, expected) <=>
         /\ Is(d, "secret_references", "list") /\ \A i \in DOMAIN refs[2] : IsSecret(refs[2][i])
         /\ Consistent(c)
  BY <1>6, <1>7, <1>8, <1>9, <1>10, <1>11, Zenon
<1> QED BY <1>12, Zenon DEF refs, c, d

LEMMA ConfigurationKeeps ==
  ASSUME LoaderInv, ConstructConfiguration, UNCHANGED decimalVars
  PROVE  LoaderInv'
<1> DEFINE refs == Document["secret_references"]
           good == /\ Is(Document, "secret_references", "list")
                   /\ \A i \in DOMAIN refs[2] : IsSecret(refs[2][i])
                   /\ Consistent(Assembled)
           c == Assembled
<1>1. /\ pc = "secrets" /\ ~writing /\ file[1] = "table" /\ expected \in Environment
      /\ DOMAIN Document = RootField /\ file \in File /\ next = 1
      /\ \A i \in 1..Len(Section) : Exact(Document, Section[i])
      /\ DOMAIN sections = DOMAIN Fields
      /\ sections = [x \in DOMAIN sections |-> sections[x]]
      /\ \A x \in DOMAIN sections :
           /\ Lets(x, Document[x][2])
           /\ sections[x] = Values(x, Document[x][2])
  BY DEF ConstructConfiguration, LoaderInv, Quiet, Checked, Parts, LoaderTypeOK, Constructed
<1>2. Conforms(file, expected) <=> good
  BY <1>1, ConsistentIsConforming
<1>3. ASSUME ~good, Raise(ErrorOf(Document, "secret_references"))
      PROVE  LoaderInv'
  <2>1. Raise("ConfigurationError")
    BY <1>1, <1>3, RootFields DEF ErrorOf
  <2>2. ~Conforms(file, expected)
    BY <1>2, <1>3
  <2> QED BY <1>1, <2>1, <2>2, RaiseKeeps
<1>4. ASSUME good, made' = c, pc' = "snapshot",
             UNCHANGED <<file, expected, next, sections, loaded, refused>>
      PROVE  LoaderInv'
  <2>1. Conforms(file, expected)
    BY <1>2, <1>4
  <2>2. ConfigurationOk(c)
    <3>1. c = [ schema_version |-> c.schema_version, environment |-> c.environment,
                sections |-> c.sections, secret_references |-> c.secret_references ]
          /\ c.sections = sections
      BY DEF Assembled
    <3>2. ASSUME NEW x \in DOMAIN Fields
          PROVE  /\ sections[x] = [f \in FieldsOf(x) |-> sections[x][f]]
                 /\ \A f \in FieldsOf(x) \cap DecimalField :
                      sections[x][f] \in Decimal /\ sections[x][f].finite
      <4> DEFINE table == Document[x][2]
      <4>1. Lets(x, table) /\ sections[x] = Values(x, table)
        BY <1>1
      <4>2. Exact(Document, x)
        BY <1>1, SectionOrder
      <4>3. table \in [FieldsOf(x) -> TomlValue]
        BY <1>1, <4>2, DocumentOk
      <4>4. Permits(x, table)
        BY <4>1, <4>3, SectionPermitted
      <4>5. sections[x] = [f \in FieldsOf(x) |-> sections[x][f]]
            /\ \A f \in FieldsOf(x) : sections[x][f] = Read(f, table[f])
        BY <4>1 DEF Values
      <4>6. ASSUME NEW f \in FieldsOf(x), f \in DecimalField
            PROVE  sections[x][f] \in Decimal /\ sections[x][f].finite
        <5>1. Permitted(f, table[f]) /\ f \in DOMAIN table /\ table[f] \in TomlValue
          BY <4>3, <4>4 DEF Permits
        <5>2. Read(f, table[f]) \in Decimal /\ Read(f, table[f]).finite
          BY <4>6, <5>1, DecimalPermitted
        <5> QED BY <4>5, <5>2
      <4> QED BY <4>5, <4>6
    <3> HIDE DEF c
    <3> QED BY <1>1, <3>1, <3>2 DEF ConfigurationOk
  <2>3. LoaderTypeOK'
    BY <1>1, <1>4 DEF LoaderInv, LoaderTypeOK, Parts
  <2>4. Quiet' /\ Checked' /\ Constructed'
    BY <1>4 DEF Quiet, Checked, Constructed, Parts
  <2>5. Returning'
    <3>1. /\ \E f, e : f = file' /\ e = expected' /\ Conforms(f, e)
          /\ ConfigurationOk(made)'
      <4> HIDE DEF c
      <4>1. file' = file /\ expected' = expected /\ made' = c
        BY <1>4
      <4>2. \E f, e : f = file' /\ e = expected' /\ Conforms(f, e)
        BY <2>1, <4>1, Zenon
      <4>3. ConfigurationOk(made)'
        BY <2>2, <4>1 DEF ConfigurationOk
      <4> QED BY <4>2, <4>3
    <3>2. 1..(next' - 1) = {}
      BY <1>1, <1>4
    <3> QED BY <3>1, <3>2 DEF Returning
  <2> QED BY <1>4, <2>3, <2>4, <2>5, HistoryKeeps, DecimalsKeep DEF LoaderInv
<1>5. \/ ~good /\ Raise(ErrorOf(Document, "secret_references"))
      \/ /\ good /\ made' = c /\ pc' = "snapshot"
         /\ UNCHANGED <<file, expected, next, sections, loaded, refused>>
  BY DEF ConstructConfiguration, Assembled, Secrets
<1> HIDE DEF good, c
<1> QED BY <1>3, <1>4, <1>5

-----------------------------------------------------------------------------
(* The decimals of a snapshot *)

\* The loop over the decimals comes to every one of a configuration's.
LEMMA DecimalsListed ==
  ASSUME NEW c, ConfigurationOk(c)
  PROVE  /\ Len(DecimalsOf(c)) = 4
         /\ \A i \in 1..4 : DecimalsOf(c)[i] \in Decimal /\ DecimalsOf(c)[i].finite
         /\ \A section \in DOMAIN Fields : \A f \in FieldsOf(section) \cap DecimalField :
              \E i \in 1..4 : DecimalsOf(c)[i] = c.sections[section][f]
<1> DEFINE paper == c.sections["paper"]
           gates == c.sections["promotion_gates"]
<1>1. /\ DecimalsOf(c)[1] = paper["max_position_fraction"]
      /\ DecimalsOf(c)[2] = paper["starting_cash"]
      /\ DecimalsOf(c)[3] = gates["maximum_drawdown_fraction"]
      /\ DecimalsOf(c)[4] = gates["minimum_out_of_sample_fraction"]
      /\ Len(DecimalsOf(c)) = 4
  BY DEF DecimalsOf
<1>2. /\ \A f \in {"max_position_fraction", "starting_cash"} :
           "paper" \in DOMAIN Fields /\ f \in FieldsOf("paper") \cap DecimalField
      /\ \A f \in {"maximum_drawdown_fraction", "minimum_out_of_sample_fraction"} :
           "promotion_gates" \in DOMAIN Fields /\ f \in FieldsOf("promotion_gates") \cap DecimalField
  BY SectionFields DEF DecimalField
<1>3. /\ \A f \in {"max_position_fraction", "starting_cash"} : paper[f] \in Decimal /\ paper[f].finite
      /\ \A f \in {"maximum_drawdown_fraction", "minimum_out_of_sample_fraction"} :
           gates[f] \in Decimal /\ gates[f].finite
  BY <1>2 DEF ConfigurationOk
<1>4. \A i \in 1..4 : i \in {1, 2, 3, 4}
  OBVIOUS
<1>5. \A i \in 1..4 : DecimalsOf(c)[i] \in Decimal /\ DecimalsOf(c)[i].finite
  BY <1>1, <1>3, <1>4
<1>6. ASSUME NEW section \in DOMAIN Fields, NEW f \in FieldsOf(section), f \in DecimalField
      PROVE  \E i \in 1..4 : DecimalsOf(c)[i] = c.sections[section][f]
  <2>1. \/ section = "paper" /\ f \in {"max_position_fraction", "starting_cash"}
        \/ /\ section = "promotion_gates"
           /\ f \in {"maximum_drawdown_fraction", "minimum_out_of_sample_fraction"}
    BY <1>6, SectionFields DEF DecimalField
  <2>2. 1 \in 1..4 /\ 2 \in 1..4 /\ 3 \in 1..4 /\ 4 \in 1..4
    OBVIOUS
  <2> HIDE DEF DecimalsOf
  <2> QED BY <1>1, <2>1, <2>2
<1> QED BY <1>1, <1>5, <1>6

\* The parts of the invariant that the loop over the digits leaves alone.
LEMMA WritingKeeps ==
  ASSUME LoaderInv, pc = "snapshot", pc' = "snapshot", next' \in Nat \ {0},
         UNCHANGED <<file, expected, sections, made, loaded, refused>>
  PROVE  /\ LoaderTypeOK' /\ Quiet' /\ Checked' /\ Constructed'
         /\ FailsClosed' /\ LoadsThePolicy' /\ Snapshots'
         /\ \E f, e : f = file' /\ e = expected' /\ Conforms(f, e)
         /\ ConfigurationOk(made)'
<1>1. LoaderTypeOK'
  BY DEF LoaderInv, LoaderTypeOK, Parts
<1>2. Quiet' /\ Checked' /\ Constructed'
  BY DEF Quiet, Checked, Constructed, Parts
<1>3. /\ \E f, e : f = file' /\ e = expected' /\ Conforms(f, e)
      /\ ConfigurationOk(made)
  BY DEF LoaderInv, Returning
<1>4. ConfigurationOk(made)'
  BY <1>3 DEF ConfigurationOk
<1> QED BY <1>1, <1>2, <1>3, <1>4, HistoryKeeps

LEMMA WriteKeeps ==
  ASSUME LoaderInv, WriteDecimal
  PROVE  LoaderInv'
<1> DEFINE d == DecimalsOf(made)[next]
<1>1. /\ pc = "snapshot" /\ next <= Len(DecimalsOf(made)) /\ BeginText(d) /\ next' = next + 1
      /\ UNCHANGED <<pc, file, expected, sections, made, loaded, refused>>
  BY DEF WriteDecimal
<1>2. /\ next \in Nat \ {0} /\ ConfigurationOk(made) /\ Len(DecimalsOf(made)) = 4
      /\ \A i \in 1..(next - 1) : i <= Len(DecimalsOf(made)) =>
           \/ \E w \in written : w[1] = DecimalsOf(made)[i]
           \/ writing /\ value = DecimalsOf(made)[i]
  BY <1>1, DecimalsListed DEF LoaderInv, LoaderTypeOK, Returning
<1>3. d \in Decimal /\ d.finite
  BY <1>1, <1>2, DecimalsListed
<1>4. IInv'
  BY <1>1, <1>3, BeginKeeps DEF LoaderInv
<1>5. /\ ~writing /\ value' = d /\ written \subseteq written'
      /\ (writing' \/ <<d, ZeroText>> \in written')
  BY <1>1, <1>3 DEF BeginText
<1>6. next' \in Nat \ {0} /\ next' - 1 = next
  BY <1>1, <1>2
<1>7. ASSUME NEW i \in 1..next, i <= 4
      PROVE  \/ \E w \in written' : w[1] = DecimalsOf(made)[i]
             \/ writing' /\ value' = DecimalsOf(made)[i]
  <2>1. CASE i = next
    <3>1. <<d, ZeroText>>[1] = d
      OBVIOUS
    <3> QED BY <1>5, <2>1, <3>1
  <2>2. CASE i # next
    <3>1. i \in 1..(next - 1)
      BY <1>2, <2>2
    <3> QED BY <1>2, <1>5, <1>7, <3>1
  <2> QED BY <2>1, <2>2
<1>8. DecimalsOf(made') = DecimalsOf(made)
  BY <1>1
<1>9. Returning'
  <2>1. \A i \in 1..(next' - 1) : i <= Len(DecimalsOf(made')) =>
          \/ \E w \in written' : w[1] = DecimalsOf(made')[i]
          \/ writing' /\ value' = DecimalsOf(made')[i]
    <3> HIDE DEF d
    <3> QED BY <1>2, <1>6, <1>7, <1>8
  <2> QED BY <1>1, <1>6, <2>1, WritingKeeps DEF Returning, DecimalsOf
<1> QED BY <1>1, <1>4, <1>6, <1>9, WritingKeeps DEF LoaderInv

LEMMA TextKeeps ==
  ASSUME LoaderInv, WriteText
  PROVE  LoaderInv'
<1>1. (StripZero \/ FinishText) /\ UNCHANGED loaderVars
  BY DEF WriteText
<1>2. writing /\ pc = "snapshot"
  BY <1>1 DEF StripZero, FinishText, LoaderInv, Quiet
<1>3. IInv'
  BY <1>1, StripKeeps, FinishKeeps DEF LoaderInv
<1>4. /\ pc' = "snapshot" /\ next' = next /\ next \in Nat \ {0}
      /\ UNCHANGED <<file, expected, sections, made, loaded, refused>>
  BY <1>1, <1>2 DEF loaderVars, LoaderInv, LoaderTypeOK
<1>5. \/ writing' = writing /\ value' = value /\ written' = written
      \/ written \subseteq written' /\ \E w \in written' : w[1] = value
  <2>1. CASE StripZero
    BY <2>1 DEF StripZero
  <2>2. CASE FinishText
    <3> DEFINE t == [ sign |-> value.sign, coefficient |-> significant_digits,
                      exponent |-> adjusted_exponent ]
    <3>1. written' = written \cup {<<value, t>>}
      BY <2>2 DEF FinishText
    <3>2. <<value, t>>[1] = value
      OBVIOUS
    <3> HIDE DEF t
    <3> QED BY <3>1, <3>2
  <2> QED BY <1>1, <2>1, <2>2
<1>6. \A i \in 1..(next - 1) : i <= Len(DecimalsOf(made)) =>
        \/ \E w \in written' : w[1] = DecimalsOf(made)[i]
        \/ writing' /\ value' = DecimalsOf(made)[i]
  <2>1. \A i \in 1..(next - 1) : i <= Len(DecimalsOf(made)) =>
          \/ \E w \in written : w[1] = DecimalsOf(made)[i]
          \/ writing /\ value = DecimalsOf(made)[i]
    BY <1>2 DEF LoaderInv, Returning
  <2> QED BY <1>5, <2>1
<1>7. Returning'
  BY <1>2, <1>4, <1>6, WritingKeeps DEF Returning, DecimalsOf
<1> QED BY <1>2, <1>3, <1>4, <1>7, WritingKeeps DEF LoaderInv

LEMMA SnapshotKeeps ==
  ASSUME LoaderInv, TakeSnapshot, UNCHANGED decimalVars
  PROVE  LoaderInv'
<1> DEFINE l == [ file |-> file, expected |-> expected, configuration |-> made,
                  snapshot |-> Snapshot(made) ]
<1>1. /\ pc = "snapshot" /\ next > Len(DecimalsOf(made)) /\ ~writing
      /\ loaded' = loaded \cup {l} /\ pc' = "idle"
      /\ UNCHANGED <<file, expected, next, sections, made, refused>>
  BY DEF TakeSnapshot
<1>2. /\ next \in Nat \ {0} /\ ConfigurationOk(made) /\ Len(DecimalsOf(made)) = 4
      /\ \A i \in 1..(next - 1) : i <= Len(DecimalsOf(made)) =>
           \E w \in written : w[1] = DecimalsOf(made)[i]
      /\ Conforms(file, expected)
  BY <1>1, DecimalsListed DEF LoaderInv, LoaderTypeOK, Returning
<1>3. \A w \in written : w[1] \in Decimal /\ w[2] = CanonicalText(w[1])
  <2>1. \A w \in written : w[1] \in Decimal /\ w[2] \in Text /\ Describes(w[1], w[2])
    BY DEF LoaderInv, IInv, DecimalTypeOK, Described
  <2> QED BY <2>1, ClosedForm
<1>4. ASSUME NEW section \in DOMAIN Fields, NEW f \in FieldsOf(section), f \in DecimalField
      PROVE  TextOf(made.sections[section][f]) = CanonicalText(made.sections[section][f])
  <2> DEFINE d == made.sections[section][f]
  <2>1. PICK i \in 1..4 : DecimalsOf(made)[i] = d
    BY <1>2, <1>4, DecimalsListed
  <2>2. i \in 1..(next - 1) /\ i <= Len(DecimalsOf(made))
    BY <1>1, <1>2
  <2>3. \E w \in written : w[1] = d
    BY <1>2, <2>1, <2>2
  <2> DEFINE v == CHOOSE w \in written : w[1] = d
  <2> HIDE DEF d
  <2>4. v \in written /\ v[1] = d
    BY <2>3
  <2>5. TextOf(d) = v[2]
    BY DEF TextOf
  <2> HIDE DEF v
  <2> QED BY <1>3, <2>4, <2>5 DEF d
<1>5. Snapshot(made) = TakenOf(made)
  <2>1. Payload(made) =
          [ made EXCEPT !.sections =
              [ section \in DOMAIN Fields |->
                  [ f \in FieldsOf(section) |->
                      IF f \in DecimalField THEN CanonicalText(made.sections[section][f])
                                            ELSE made.sections[section][f] ] ] ]
    BY <1>4 DEF Payload
  <2> QED BY <2>1, Zenon DEF Snapshot, SnapshotOf, TakenOf
<1>6. l.file = file /\ l.expected = expected /\ l.configuration = made
      /\ l.snapshot = TakenOf(made)
  BY <1>5
<1> HIDE DEF l
<1>7. FailsClosed' /\ LoadsThePolicy'
  <2>1. FailsClosed'
    BY <1>1 DEF LoaderInv, FailsClosed
  <2>2. LoadsThePolicy'
    BY <1>1, <1>2, <1>6 DEF LoaderInv, LoadsThePolicy
  <2> QED BY <2>1, <2>2
<1>8. Snapshots'
  <2>1. \A k \in loaded' : ConfigurationOk(k.configuration) /\ k.snapshot = TakenOf(k.configuration)
    <3>1. \A k \in loaded : ConfigurationOk(k.configuration) /\ k.snapshot = TakenOf(k.configuration)
      BY DEF LoaderInv, Snapshots
    <3>2. ConfigurationOk(l.configuration) /\ l.snapshot = TakenOf(l.configuration)
      BY <1>2, <1>6
    <3> QED BY <1>1, <3>1, <3>2
  <2> QED BY <2>1 DEF Snapshots
<1>9. LoaderTypeOK' /\ Quiet' /\ Checked' /\ Constructed' /\ Returning'
  <2>1. LoaderTypeOK'
    BY <1>1, <1>2 DEF LoaderInv, LoaderTypeOK, Parts
  <2>2. Quiet'
    BY <1>1, DecimalsKeep DEF Quiet
  <2>3. Checked' /\ Constructed' /\ Returning'
    BY <1>1 DEF Checked, Constructed, Returning, Parts
  <2> QED BY <2>1, <2>2, <2>3
<1> QED BY <1>7, <1>8, <1>9, DecimalsKeep DEF LoaderInv

-----------------------------------------------------------------------------
(* Equal configurations, equal snapshots *)

\* The canonical text of a decimal describes it.
LEMMA CanonicalDescribes ==
  ASSUME NEW d \in Decimal
  PROVE  CanonicalText(d) \in Text /\ Describes(d, CanonicalText(d))
<1>1. CASE IsZero(d)
  <2>1. <<0>> \in Seq(Digit)
    BY DEF Digit
  <2> QED BY <1>1, <2>1 DEF CanonicalText, Describes, ZeroText, Text
<1>2. CASE ~IsZero(d)
  <2> DEFINE N == Len(d.digits)
             S == { m \in 0..N : N - m \in 1..N /\ d.digits[N - m] # 0 }
             n == LastNonZero(d.digits)
  <2>1. d.digits \in Seq(Digit) /\ N \in Nat \ {0} /\ DOMAIN d.digits = 1..N
        /\ d.exponent \in Int /\ d.sign \in {0, 1}
    BY DecimalType
  <2>2. PICK i \in 1..N : d.digits[i] # 0
    BY <1>2, <2>1 DEF IsZero
  <2>3. N - i \in S
    BY <2>1, <2>2
  <2>4. PICK m \in S : \A k \in S : m <= k
    <3>1. S \in SUBSET Nat
      BY <2>1
    <3>2. S # {}
      <4> HIDE DEF S
      <4> QED BY <2>3
    <3> HIDE DEF S
    <3> QED BY <3>1, <3>2, LeastNumber
  <2>5. /\ N - m \in 1..N /\ d.digits[N - m] # 0
        /\ \A j \in 1..N : j > N - m => d.digits[j] = 0
    <3>1. m \in 0..N /\ N - m \in 1..N /\ d.digits[N - m] # 0
      BY <2>4
    <3>2. ASSUME NEW j \in 1..N, j > N - m, d.digits[j] # 0
          PROVE  FALSE
      <4>1. N - j \in 0..N /\ N - (N - j) = j /\ ~(m <= N - j)
        BY <2>1, <3>1, <3>2
      <4>2. N - j \in S
        BY <3>2, <4>1
      <4> QED BY <2>4, <4>1, <4>2
    <3> QED BY <3>1, <3>2
  <2>6. n \in 1..N /\ d.digits[n] # 0 /\ \A j \in 1..N : j > n => d.digits[j] = 0
    <3>1. \E k \in DOMAIN d.digits :
            d.digits[k] # 0 /\ \A j \in DOMAIN d.digits : j > k => d.digits[j] = 0
      BY <2>1, <2>5
    <3> QED BY <2>1, <3>1 DEF LastNonZero
  <2> HIDE DEF n
  <2>7. CanonicalText(d) =
          [ sign |-> d.sign, coefficient |-> SubSeq(d.digits, 1, n), exponent |-> d.exponent + N - n ]
    BY <1>2 DEF CanonicalText, n
  <2>8. SubSeq(d.digits, 1, n) \in Seq(Digit)
    BY <2>1, <2>6
  <2>9. CanonicalText(d) \in Text
    BY <2>1, <2>6, <2>7, <2>8 DEF Text
  <2>10. Strips(d, CanonicalText(d))
    <3>1. \A j \in (n + 1)..N : d.digits[j] = 0
      BY <2>1, <2>6
    <3> QED BY <2>6, <2>7, <3>1 DEF Strips
  <2> QED BY <1>2, <2>9, <2>10 DEF Describes
<1> QED BY <1>1, <1>2

\* The payload in which each decimal has its text
TextsOf(c) ==
  [ section \in DOMAIN Fields |->
      [ f \in FieldsOf(section) |->
          IF f \in DecimalField THEN CanonicalText(c.sections[section][f])
                                ELSE c.sections[section][f] ] ]

\* Configurations are equal when and only when their payloads are.
LEMMA SamePayload ==
  ASSUME NEW c, ConfigurationOk(c), NEW d, ConfigurationOk(d)
  PROVE  [c EXCEPT !.sections = TextsOf(c)] = [d EXCEPT !.sections = TextsOf(d)] <=> Equal(c, d)
<1> DEFINE p(k) == [k EXCEPT !.sections = TextsOf(k)]
           same(section, f) ==
             LET u == c.sections[section][f]
                 v == d.sections[section][f]
             IN  IF f \in DecimalField THEN SameValue(u, v) ELSE u = v
<1>1. ASSUME NEW k, ConfigurationOk(k)
      PROVE  p(k) = [ schema_version |-> k.schema_version, environment |-> k.environment,
                      sections |-> TextsOf(k), secret_references |-> k.secret_references ]
  <2>1. k = [ schema_version |-> k.schema_version, environment |-> k.environment,
              sections |-> k.sections, secret_references |-> k.secret_references ]
    BY <1>1 DEF ConfigurationOk
  <2> QED BY <2>1
<1>2. p(c) = p(d) <=>
        /\ c.schema_version = d.schema_version /\ c.environment = d.environment
        /\ c.secret_references = d.secret_references /\ TextsOf(c) = TextsOf(d)
  BY <1>1
<1>3. ASSUME NEW section \in DOMAIN Fields, NEW f \in FieldsOf(section)
      PROVE  TextsOf(c)[section][f] = TextsOf(d)[section][f] <=> same(section, f)
  <2> DEFINE u == c.sections[section][f]
             v == d.sections[section][f]
  <2>1. CASE f \in DecimalField
    <3>1. u \in Decimal /\ v \in Decimal
      BY <2>1 DEF ConfigurationOk
    <3>2. TextsOf(c)[section][f] = CanonicalText(u) /\ TextsOf(d)[section][f] = CanonicalText(v)
      BY <2>1 DEF TextsOf
    <3> HIDE DEF u, v
    <3>3. CanonicalText(u) = CanonicalText(v) <=> SameValue(u, v)
      BY <3>1, CanonicalDescribes, SameText
    <3> QED BY <2>1, <3>2, <3>3 DEF u, v
  <2>2. CASE f \notin DecimalField
    BY <2>2 DEF TextsOf
  <2> QED BY <2>1, <2>2
<1>4. TextsOf(c) = TextsOf(d) <=>
        \A section \in DOMAIN Fields : \A f \in FieldsOf(section) :
          TextsOf(c)[section][f] = TextsOf(d)[section][f]
  <2>1. \A k : /\ TextsOf(k) = [section \in DOMAIN Fields |-> TextsOf(k)[section]]
               /\ \A section \in DOMAIN Fields :
                    TextsOf(k)[section] = [f \in FieldsOf(section) |-> TextsOf(k)[section][f]]
    BY DEF TextsOf
  <2>2. ASSUME \A section \in DOMAIN Fields : \A f \in FieldsOf(section) :
                 TextsOf(c)[section][f] = TextsOf(d)[section][f]
        PROVE  TextsOf(c) = TextsOf(d)
    <3>1. ASSUME NEW section \in DOMAIN Fields
          PROVE  TextsOf(c)[section] = TextsOf(d)[section]
      <4>1. /\ TextsOf(c)[section] = [f \in FieldsOf(section) |-> TextsOf(c)[section][f]]
            /\ TextsOf(d)[section] = [f \in FieldsOf(section) |-> TextsOf(d)[section][f]]
        BY <2>1
      <4> QED BY <2>2, <4>1
    <3>2. /\ TextsOf(c) = [section \in DOMAIN Fields |-> TextsOf(c)[section]]
          /\ TextsOf(d) = [section \in DOMAIN Fields |-> TextsOf(d)[section]]
      BY <2>1
    <3> QED BY <3>1, <3>2
  <2> QED BY <2>2
<1>5. Equal(c, d) <=>
        /\ c.schema_version = d.schema_version /\ c.environment = d.environment
        /\ c.secret_references = d.secret_references
        /\ \A section \in DOMAIN Fields : \A f \in FieldsOf(section) : same(section, f)
  BY DEF Equal
<1> HIDE DEF p, same
<1>6. p(c) = p(d) <=> Equal(c, d)
  BY <1>2, <1>3, <1>4, <1>5
<1> QED BY <1>6 DEF p

LEMMA LoaderInitOk == Init => LoaderInv
<1> SUFFICES ASSUME Init PROVE LoaderInv
  OBVIOUS
<1>1. IInv /\ ~writing
  BY InitInv DEF Init, DecimalInit
<1>2. LoaderTypeOK
  <2>1. <<"unreadable">> \in File
    BY DEF File, FailingFile
  <2> QED BY <2>1 DEF Init, LoaderTypeOK, Parts
<1>3. Quiet /\ Checked /\ Constructed /\ Returning
  BY <1>1 DEF Init, Quiet, Checked, Constructed, Returning, Parts
<1>4. FailsClosed /\ LoadsThePolicy /\ Snapshots
  BY DEF Init, FailsClosed, LoadsThePolicy, Snapshots
<1> QED BY <1>1, <1>2, <1>3, <1>4 DEF LoaderInv

LEMMA LoaderNextOk == LoaderInv /\ [Next]_vars => LoaderInv'
<1> SUFFICES ASSUME LoaderInv, [Next]_vars PROVE LoaderInv'
  OBVIOUS
<1>1. ASSUME DoOpen, UNCHANGED decimalVars
      PROVE  LoaderInv'
  BY <1>1, OpenKeeps DEF DoOpen
<1>2. ASSUME Load, UNCHANGED decimalVars
      PROVE  LoaderInv'
  BY <1>2, DecodeKeeps, RootKeeps, EnvironmentKeeps, RequireKeeps, VersionKeeps, SectionKeeps,
     ConfigurationKeeps, SnapshotKeeps DEF Load
<1>3. CASE UNCHANGED vars
  <2>1. UNCHANGED <<pc, file, expected, next, sections, made, loaded, refused>>
        /\ UNCHANGED decimalVars
    BY <1>3 DEF vars, loaderVars
  <2>2. IInv' /\ UNCHANGED <<writing, value, written>>
    BY <2>1, DecimalsKeep
  <2>3. LoaderTypeOK' /\ Quiet' /\ Checked' /\ Constructed'
    BY <2>1, <2>2 DEF LoaderInv, LoaderTypeOK, Quiet, Checked, Constructed, Document,
                      MatchesEnvironment
  <2>4. Returning'
    BY <2>1, <2>2 DEF LoaderInv, Returning, ConfigurationOk, DecimalsOf
  <2> QED BY <2>1, <2>2, <2>3, <2>4, HistoryKeeps DEF LoaderInv
<1> QED BY <1>1, <1>2, <1>3, WriteKeeps, TextKeeps DEF Next

-----------------------------------------------------------------------------
(* The theorems *)

\* Whatever files are loaded one after the other, each part of load_configuration finds
\* established what it takes for granted of the parts before it.
THEOREM LoaderSoundness == Spec => []LoaderInv
<1> QED BY LoaderInitOk, LoaderNextOk, PTL DEF Spec

\* A call that does not return a configuration raises ConfigurationError, whatever
\* the file holds and the caller expects (load_configuration): the only other errors are
\* those of a path that no file can have and of a document nested too deeply.
THEOREM FailsClosedTheorem == Spec => []FailsClosed
<1>1. LoaderInv => FailsClosed
  BY DEF LoaderInv
<1> QED BY <1>1, LoaderSoundness, PTL

\* A call returns a configuration when and only when the document is one that the
\* policy describes, for the environment that is expected (load_configuration and the
\* constructors that it calls).
THEOREM PolicyTheorem == Spec => []LoadsThePolicy
<1>1. LoaderInv => LoadsThePolicy
  BY DEF LoaderInv
<1> QED BY <1>1, LoaderSoundness, PTL

\* Two configurations are equal exactly when their snapshots are, however the files
\* write their decimals (snapshot and _canonical_decimal).
THEOREM SnapshotTheorem == Spec => []EqualIffSameSnapshot
<1>1. LoaderInv => EqualIffSameSnapshot
  <2> SUFFICES ASSUME LoaderInv, NEW k \in loaded, NEW l \in loaded,
                      "snapshot" = k.snapshot[1], "snapshot" = l.snapshot[1]
               PROVE  k.snapshot = l.snapshot <=> Equal(k.configuration, l.configuration)
    BY DEF EqualIffSameSnapshot
  <2>1. ASSUME NEW m \in loaded, "snapshot" = m.snapshot[1]
        PROVE  /\ ConfigurationOk(m.configuration)
               /\ m.snapshot =
                    <<"snapshot", [m.configuration EXCEPT !.sections = TextsOf(m.configuration)]>>
    <3>1. ConfigurationOk(m.configuration) /\ m.snapshot = TakenOf(m.configuration)
      BY DEF LoaderInv, Snapshots
    <3>2. <<"ValueError">>[1] = "ValueError" /\ "ValueError" # "snapshot"
      OBVIOUS
    <3>3. m.snapshot # <<"ValueError">>
      BY <2>1, <3>2
    <3> QED BY <3>1, <3>3, Zenon DEF TakenOf, SnapshotOf, TextsOf
  <2> DEFINE p(c) == [c EXCEPT !.sections = TextsOf(c)]
  <2>2. k.snapshot = <<"snapshot", p(k.configuration)>> /\ l.snapshot = <<"snapshot", p(l.configuration)>>
    BY <2>1
  <2>3. p(k.configuration) = p(l.configuration) <=> Equal(k.configuration, l.configuration)
    BY <2>1, SamePayload
  <2> HIDE DEF p
  <2> QED BY <2>2, <2>3
<1> QED BY <1>1, LoaderSoundness, PTL

\* The decimals of a snapshot are written alike when and only when they are equal.
THEOREM SnapshotTextsTheorem == Spec => []OneTextPerValue
<1>1. LoaderInv => OneTextPerValue
  <2> SUFFICES ASSUME LoaderInv, NEW v \in written, NEW w \in written
               PROVE  v[2] = w[2] <=> SameValue(v[1], w[1])
    BY DEF OneTextPerValue
  <2>1. /\ v[1] \in Decimal /\ v[2] \in Text /\ Describes(v[1], v[2])
        /\ w[1] \in Decimal /\ w[2] \in Text /\ Describes(w[1], w[2])
    BY DEF LoaderInv, IInv, DecimalTypeOK, Described
  <2> QED BY <2>1, SameText
<1> QED BY <1>1, LoaderSoundness, PTL

-----------------------------------------------------------------------------
(* The loader keeps the contract: what a snapshot is taken of is what the file *)
(* says.                                                                       *)

Made == pc = "snapshot" => made = ConfigurationOf(file)

\* What is read part by part is what the file says as a whole.
LEMMA AssembledOk ==
  ASSUME LoaderInv, pc = "secrets",
         \A i \in DOMAIN Document["secret_references"][2] :
           IsSecret(Document["secret_references"][2][i])
  PROVE  Assembled = ConfigurationOf(file)
<1> DEFINE d == Document
           refs == d["secret_references"]
           said == [ section \in DOMAIN Fields |->
                       [ field \in FieldsOf(section) |-> Read(field, d[section][2][field]) ] ]
           listed == [ i \in DOMAIN refs[2] |->
                         [ field \in {"name", "environment_variable"} |-> refs[2][i][2][field][2] ] ]
<1>1. /\ sections = [section \in DOMAIN Fields |-> sections[section]]
      /\ \A section \in DOMAIN Fields : sections[section] = Values(section, d[section][2])
  BY DEF LoaderInv, Constructed
<1>2. sections = said
  BY <1>1 DEF Values
<1>3. \A i \in DOMAIN refs[2] : DOMAIN refs[2][i][2] = {"name", "environment_variable"}
  BY DEF IsSecret
<1>4. Secrets(refs) = listed
  BY <1>3 DEF Secrets
<1>5. ConfigurationOf(file) =
        [ schema_version |-> d["schema_version"][2], environment |-> d["environment"][2],
          sections |-> said, secret_references |-> listed ]
  BY DEF ConfigurationOf, Document
<1>6. Assembled =
        [ schema_version |-> d["schema_version"][2], environment |-> d["environment"][2],
          sections |-> sections, secret_references |-> Secrets(refs) ]
  BY DEF Assembled
<1> HIDE DEF said, listed, refs, d
<1> QED BY <1>2, <1>4, <1>5, <1>6

\* What a step of the loader does to the result, and to the answers
LEMMA MadeKeeps == LoaderInv /\ Made /\ [Next]_vars => Made'
<1> SUFFICES ASSUME LoaderInv, Made, [Next]_vars, pc' = "snapshot"
             PROVE  made' = ConfigurationOf(file')
  BY DEF Made, ConfigurationOf
<1>1. CASE ConstructConfiguration
  <2>1. /\ pc = "secrets" /\ made' = Assembled /\ file' = file
        /\ \A i \in DOMAIN Document["secret_references"][2] :
             IsSecret(Document["secret_references"][2][i])
    BY <1>1 DEF ConstructConfiguration, Raise, Assembled
  <2> QED BY <2>1, AssembledOk
<1>2. CASE WriteDecimal \/ WriteText \/ UNCHANGED vars
  <2>1. pc' = pc /\ made' = made /\ file' = file
    BY <1>2 DEF WriteDecimal, WriteText, vars, loaderVars
  <2> QED BY <2>1 DEF Made
<1>3. CASE DoOpen \/ Decode \/ RequireRootFields \/ MatchEnvironment \/ RequireTable
           \/ ReadVersion \/ ConstructSection \/ TakeSnapshot
  BY <1>3 DEF DoOpen, Open, Decode, RequireRootFields, MatchEnvironment, RequireTable, ReadVersion,
              ConstructSection, TakeSnapshot, Raise, Go, Following
<1> QED BY <1>1, <1>2, <1>3 DEF Next, Load

\* A step between the beginning and the end of a call changes nothing its caller sees.
Inside == UNCHANGED <<pc # "idle", file, expected, loaded, refused>>

\* An answer joins those of the ordinary calls, or no ordinary call ran.
LEMMA OrdinaryAnswer ==
  ASSUME NEW answers, NEW r
  PROVE  /\ Ordinary(r.file, r.expected) => OrdinaryOf(answers \cup {r}) = OrdinaryOf(answers) \cup {r}
         /\ ~Ordinary(r.file, r.expected) => OrdinaryOf(answers \cup {r}) = OrdinaryOf(answers)
BY DEF OrdinaryOf

\* An ordinary call that raises is refused, and with ConfigurationError.
LEMMA RaiseRefuses ==
  ASSUME LoaderInv', pc # "idle", NEW error, Raise(error)
  PROVE  [Contract!Next]_Contract!vars
<1> DEFINE r == [file |-> file, expected |-> expected, error |-> error]
<1>1. /\ pc' = "idle" /\ refused' = refused \cup {r}
      /\ UNCHANGED <<file, expected, loaded>>
  BY DEF Raise
<1>2. r.file = file /\ r.expected = expected /\ r.error = error
  OBVIOUS
<1> HIDE DEF r
<1>3. ~Conforms(file, expected)
  BY <1>1, <1>2 DEF LoaderInv, LoadsThePolicy
<1>4. CASE Ordinary(file, expected)
  <2>1. error = "ConfigurationError"
    <3>1. file # <<"invalid_path">> /\ file # <<"nested_too_deep">>
      BY <1>4 DEF Ordinary
    <3> QED BY <1>1, <1>2, <3>1 DEF LoaderInv, FailsClosed
  <2>2. OrdinaryOf(refused') = OrdinaryOf(refused) \cup {r}
    BY <1>1, <1>2, <1>4, OrdinaryAnswer
  <2>3. r = [file |-> file, expected |-> expected, error |-> "ConfigurationError"]
    BY <2>1 DEF r
  <2>4. Contract!Refuse
    <3> DEFINE c == <<file, expected>>
    <3>1. c # <<>> /\ c[1] = file /\ c[2] = expected
      OBVIOUS
    <3> HIDE DEF c
    <3> QED BY <1>1, <1>3, <1>4, <2>2, <2>3, <3>1 DEF Contract!Refuse, c
  <2> QED BY <2>4 DEF Contract!Next
<1>5. CASE ~Ordinary(file, expected)
  <2>1. OrdinaryOf(refused') = OrdinaryOf(refused)
    BY <1>1, <1>2, <1>5, OrdinaryAnswer
  <2> QED BY <1>1, <1>5, <2>1 DEF Contract!vars
<1> QED BY <1>4, <1>5

LEMMA OpenCalls ==
  ASSUME DoOpen
  PROVE  [Contract!Next]_Contract!vars
<1>1. PICK in \in Input : Open(in)
  BY DEF DoOpen
<1>2. in = <<in[1], in[2]>> /\ file' = in[1] /\ expected' = in[2]
  BY <1>1 DEF Open, Input
<1>3. <<file', expected'>> \in Input
  BY <1>2
<1>4. pc = "idle" /\ pc' = "decode" /\ UNCHANGED <<loaded, refused>>
  BY <1>1 DEF DoOpen, Open
<1>5. CASE Ordinary(file', expected')
  BY <1>3, <1>4, <1>5 DEF Contract!Call, Contract!Next
<1>6. CASE ~Ordinary(file', expected')
  BY <1>4, <1>6 DEF Contract!vars
<1> QED BY <1>5, <1>6

LEMMA SnapshotReturns ==
  ASSUME LoaderInv', Made, TakeSnapshot
  PROVE  [Contract!Next]_Contract!vars
<1> DEFINE l == [ file |-> file, expected |-> expected, configuration |-> made,
                  snapshot |-> Snapshot(made) ]
<1>1. /\ pc = "snapshot" /\ pc' = "idle" /\ loaded' = loaded \cup {l}
      /\ UNCHANGED <<file, expected, refused>>
  BY DEF TakeSnapshot
<1>2. /\ l.file = file /\ l.expected = expected /\ l.configuration = made
      /\ l.snapshot = Snapshot(made)
  OBVIOUS
<1>3. made = ConfigurationOf(file)
  BY <1>1 DEF Made
<1> HIDE DEF l
<1>4. Conforms(file, expected) /\ Snapshot(made) = TakenOf(made)
  BY <1>1, <1>2 DEF LoaderInv, LoadsThePolicy, Snapshots
<1>5. CASE Ordinary(file, expected)
  <2>1. Snapshot(made) = SnapshotOf(made)
    BY <1>3, <1>4, <1>5 DEF Ordinary, TakenOf
  <2>2. OrdinaryOf(loaded') = OrdinaryOf(loaded) \cup {l}
    BY <1>1, <1>2, <1>5, OrdinaryAnswer
  <2>3. l = [ file |-> file, expected |-> expected, configuration |-> ConfigurationOf(file),
              snapshot |-> SnapshotOf(ConfigurationOf(file)) ]
    BY <1>3, <2>1 DEF l
  <2>4. Contract!Return
    <3> DEFINE c == <<file, expected>>
    <3>1. c # <<>> /\ c[1] = file /\ c[2] = expected
      OBVIOUS
    <3> HIDE DEF c
    <3> QED BY <1>1, <1>4, <1>5, <2>2, <2>3, <3>1 DEF Contract!Return, c
  <2> QED BY <2>4 DEF Contract!Next
<1>6. CASE ~Ordinary(file, expected)
  <2>1. OrdinaryOf(loaded') = OrdinaryOf(loaded)
    BY <1>1, <1>2, <1>6, OrdinaryAnswer
  <2> QED BY <1>1, <1>6, <2>1 DEF Contract!vars
<1> QED BY <1>5, <1>6

LEMMA ContractStep ==
  ASSUME LoaderInv, LoaderInv', Made, [Next]_vars
  PROVE  [Contract!Next]_Contract!vars
<1>1. ASSUME pc # "idle", NEW error, Raise(error) PROVE [Contract!Next]_Contract!vars
  BY <1>1, RaiseRefuses
<1>2. ASSUME NEW part, part # "idle", pc # "idle", Go(part) PROVE Inside
  BY <1>2 DEF Go, Inside
<1>3. Inside => UNCHANGED Contract!vars
  BY DEF Inside, Contract!vars
<1>4. CASE Decode
  BY <1>1, <1>2, <1>3, <1>4 DEF Decode
<1>5. CASE RequireRootFields
  BY <1>1, <1>2, <1>3, <1>5 DEF RequireRootFields
<1>6. CASE MatchEnvironment
  BY <1>1, <1>2, <1>3, <1>6 DEF MatchEnvironment
<1>7. CASE RequireTable
  BY <1>1, <1>2, <1>3, <1>7 DEF RequireTable, Following
<1>8. CASE ReadVersion
  BY <1>1, <1>2, <1>3, <1>8 DEF ReadVersion
<1>9. CASE ConstructSection
  BY <1>1, <1>2, <1>3, <1>9 DEF ConstructSection, Following
<1>10. CASE ConstructConfiguration
  <2>1. pc # "idle" /\ ((\E error : Raise(error)) \/ Inside)
    BY <1>10 DEF ConstructConfiguration, Inside
  <2> QED BY <1>1, <1>3, <2>1
<1>11. CASE WriteDecimal \/ WriteText \/ UNCHANGED vars
  <2>1. Inside
    BY <1>11 DEF WriteDecimal, WriteText, vars, loaderVars, Inside
  <2> QED BY <1>3, <2>1
<1> QED BY <1>4, <1>5, <1>6, <1>7, <1>8, <1>9, <1>10, <1>11, OpenCalls, SnapshotReturns
        DEF Next, Load

\* Every ordinary call of load_configuration, with the snapshot of its result, is to its
\* caller one call with one answer, the answer that docs/configuration.md promises for the
\* file and the expectation: passes over the sections, constructors and loops over digits
\* do not show, and neither do the calls before it that are not ordinary.
THEOREM ContractTheorem == Spec => ImplementsContract
<1>1. Init => Contract!Init /\ Made
  BY DEF Init, Contract!Init, Made, OrdinaryOf
<1> QED BY <1>1, MadeKeeps, ContractStep, LoaderSoundness, PTL
        DEF Spec, ImplementsContract, Contract!Spec

-----------------------------------------------------------------------------
(* CallsEnd, as far as it can be proved: two natural numbers, of which each    *)
(* step of a call makes the first smaller, or leaves it and makes the second   *)
(* smaller; and no part of a call from which there is no way on.               *)

\* The parts of a call that are to come; those with a pass over the sections count as
\* many as there are sections, that of the snapshot one for each decimal.
PartsLeft ==
  CASE pc = "decode"      -> 20
    [] pc = "root"        -> 19
    [] pc = "environment" -> 18
    [] pc = "require"     -> 18 - next
    [] pc = "version"     -> 12
    [] pc = "construct"   -> 12 - next
    [] pc = "secrets"     -> 6
    [] pc = "snapshot"    -> 6 - next
    [] OTHER              -> 0

\* The turns of the loop that writes a decimal, with the one that ends it
TurnsLeft == IF writing THEN Len(significant_digits) ELSE 0

CloserToEnd == PartsLeft' < PartsLeft \/ (PartsLeft' = PartsLeft /\ TurnsLeft' < TurnsLeft)

\* One of the outcomes of decoding is met; a section whose fields cannot all be read has
\* a first one that cannot; the loop does not run out of digits.
WayOn ==
  /\ pc = "decode" => file[1] \in {"invalid_path", "unreadable", "not_utf8", "not_toml",
                              "nested_too_deep", "table"}
  /\ pc = "construct" =>
       LET fields == Fields[Section[next]]
           table == Document[Section[next]][2]
       IN  \/ \A i \in DOMAIN fields : Readable(fields[i], table)
           \/ \E i \in DOMAIN fields : /\ ~Readable(fields[i], table)
                                       /\ \A j \in 1..(i - 1) : Readable(fields[j], table)
  /\ writing => significant_digits # <<>>

\* The snapshot's pass over the decimals ends after the last of them.
Passing == pc = "snapshot" => next <= 5

LEMMA PassingOk == LoaderInv /\ Passing /\ [Next]_vars => Passing'
<1> SUFFICES ASSUME LoaderInv, Passing, [Next]_vars, pc' = "snapshot" PROVE next' <= 5
  BY DEF Passing
<1>1. CASE UNCHANGED <<pc, next>>
  BY <1>1 DEF Passing
<1>2. CASE ConstructConfiguration
  BY <1>2 DEF ConstructConfiguration, Raise, LoaderInv, LoaderTypeOK
<1>3. CASE WriteDecimal
  <2>1. next <= Len(DecimalsOf(made)) /\ Len(DecimalsOf(made)) = 4 /\ next' = next + 1
    BY <1>3 DEF WriteDecimal, DecimalsOf
  <2> QED BY <2>1 DEF LoaderInv, LoaderTypeOK
<1>4. CASE DoOpen \/ Decode \/ RequireRootFields \/ MatchEnvironment \/ RequireTable
           \/ ReadVersion \/ ConstructSection \/ TakeSnapshot
  BY <1>4 DEF DoOpen, Open, Decode, RequireRootFields, MatchEnvironment, RequireTable, ReadVersion,
              ConstructSection, TakeSnapshot, Raise, Go, Following
<1>5. WriteText \/ UNCHANGED vars => UNCHANGED <<pc, next>>
  BY DEF WriteText, vars, loaderVars
<1> QED BY <1>1, <1>2, <1>3, <1>4, <1>5 DEF Next, Load

\* Both numbers are natural ones, and no part is to come exactly when no call runs.
LEMMA PartsAreNumbers ==
  ASSUME LoaderInv, Passing
  PROVE  PartsLeft \in Nat /\ TurnsLeft \in Nat /\ (PartsLeft = 0 <=> pc = "idle")
<1>1. /\ pc \in Parts /\ next \in Nat \ {0}
      /\ pc \in {"require", "construct"} => next \in 1..5
  BY SectionOrder DEF LoaderInv, LoaderTypeOK
<1>2. significant_digits \in Seq(Digit)
  BY DEF LoaderInv, IInv, DecimalTypeOK
<1>3. TurnsLeft \in Nat
  BY <1>2 DEF TurnsLeft
<1>4. pc = "snapshot" => next \in 1..5
  BY <1>1 DEF Passing
<1> QED BY <1>1, <1>3, <1>4 DEF PartsLeft, Parts

\* Each step of a call brings it closer to its end.
LEMMA StepsCloser ==
  ASSUME LoaderInv, Passing, Next, pc # "idle"
  PROVE  CloserToEnd
<1>0. /\ PartsLeft \in Nat /\ PartsLeft # 0 /\ next \in Nat \ {0}
      /\ pc \in {"require", "construct"} => next \in 1..5
      /\ pc \in {"decode", "root", "environment", "version", "secrets"} => next = 1
      /\ Len(Section) = 5
  BY PartsAreNumbers, SectionOrder DEF LoaderInv, LoaderTypeOK
<1>1. ASSUME pc' = "idle" PROVE CloserToEnd
  BY <1>0, <1>1 DEF PartsLeft, CloserToEnd
<1>2. CASE Decode
  BY <1>0, <1>1, <1>2 DEF Decode, Raise, Go, PartsLeft, CloserToEnd
<1>3. CASE RequireRootFields
  BY <1>0, <1>1, <1>3 DEF RequireRootFields, Raise, Go, PartsLeft, CloserToEnd
<1>4. CASE MatchEnvironment
  BY <1>0, <1>1, <1>4 DEF MatchEnvironment, Raise, Go, PartsLeft, CloserToEnd
<1>5. CASE RequireTable
  <2>1. pc = "require" /\ (pc' = "idle" \/ Following("require", "version"))
    BY <1>5 DEF RequireTable, Raise
  <2> QED BY <1>0, <1>1, <2>1 DEF Following, Go, PartsLeft, CloserToEnd
<1>6. CASE ReadVersion
  BY <1>0, <1>1, <1>6 DEF ReadVersion, Raise, Go, PartsLeft, CloserToEnd
<1>7. CASE ConstructSection
  <2>1. pc = "construct" /\ (pc' = "idle" \/ Following("construct", "secrets"))
    BY <1>7 DEF ConstructSection, Raise
  <2> QED BY <1>0, <1>1, <2>1 DEF Following, Go, PartsLeft, CloserToEnd
<1>8. CASE ConstructConfiguration
  <2>1. pc = "secrets" /\ (pc' = "idle" \/ (pc' = "snapshot" /\ next' = next))
    BY <1>8 DEF ConstructConfiguration, Raise
  <2> QED BY <1>0, <1>1, <2>1 DEF PartsLeft, CloserToEnd
<1>9. CASE TakeSnapshot
  BY <1>1, <1>9 DEF TakeSnapshot
<1>10. CASE WriteDecimal
  BY <1>0, <1>10 DEF WriteDecimal, PartsLeft, CloserToEnd
<1>11. CASE WriteText
  <2>1. PartsLeft' = PartsLeft
    BY <1>11 DEF WriteText, loaderVars, PartsLeft
  <2>2. /\ writing /\ significant_digits \in Seq(Digit) /\ Len(significant_digits) \in Nat \ {0}
    BY <1>11 DEF WriteText, StripZero, FinishText, LoaderInv, IInv, DecimalTypeOK
  <2>3. CASE StripZero
    <3>1. Len(significant_digits') = Len(significant_digits) - 1 /\ writing'
      <4>1. /\ significant_digits' = SubSeq(significant_digits, 1, Len(significant_digits) - 1)
            /\ writing' = writing
        BY <2>3 DEF StripZero
      <4>2. ASSUME NEW n \in Nat \ {0}, NEW s \in Seq(Digit), Len(s) = n
            PROVE  Len(SubSeq(s, 1, n - 1)) = n - 1
        BY <4>2
      <4> QED BY <2>2, <4>1, <4>2
    <3>2. TurnsLeft' = Len(significant_digits') /\ TurnsLeft = Len(significant_digits)
      BY <2>2, <3>1 DEF TurnsLeft
    <3> QED BY <2>1, <2>2, <3>1, <3>2 DEF CloserToEnd
  <2>4. CASE FinishText
    <3>1. ~writing'
      BY <2>4 DEF FinishText
    <3>2. TurnsLeft' = 0 /\ TurnsLeft = Len(significant_digits)
      BY <2>2, <3>1 DEF TurnsLeft
    <3> QED BY <2>1, <2>2, <3>2 DEF CloserToEnd
  <2> QED BY <1>11, <2>3, <2>4 DEF WriteText
<1>12. ~DoOpen
  BY DEF DoOpen
<1> QED BY <1>2, <1>3, <1>4, <1>5, <1>6, <1>7, <1>8, <1>9, <1>10, <1>11, <1>12 DEF Next, Load

LEMMA NoPartIsStuck == LoaderInv => WayOn
<1> SUFFICES ASSUME LoaderInv PROVE WayOn
  OBVIOUS
<1>1. file[1] \in {"invalid_path", "unreadable", "not_utf8", "not_toml",
                              "nested_too_deep", "table"}
  <2>1. /\ <<"invalid_path">>[1] = "invalid_path" /\ <<"unreadable">>[1] = "unreadable" /\ <<"not_utf8">>[1] = "not_utf8"
        /\ <<"not_toml">>[1] = "not_toml" /\ <<"nested_too_deep">>[1] = "nested_too_deep"
    OBVIOUS
  <2>2. file \in File
    BY DEF LoaderInv, LoaderTypeOK
  <2> QED BY <2>1, <2>2 DEF File, FailingFile
<1>2. writing => significant_digits # <<>>
  BY DEF LoaderInv, IInv, DecimalTypeOK
<1> DEFINE fields == Fields[Section[next]]
           table == Document[Section[next]][2]
           unread == {i \in DOMAIN fields : ~Readable(fields[i], table)}
<1>3. ASSUME pc = "construct", unread # {}
      PROVE  \E i \in unread : \A j \in 1..(i - 1) : j \notin unread /\ j \in DOMAIN fields
  <2>1. Section[next] \in DOMAIN Fields
    BY <1>3, SectionOrder DEF LoaderInv, LoaderTypeOK
  <2>2. DOMAIN fields = 1..Len(fields) /\ Len(fields) \in Nat
    BY <2>1, SectionFields DEF Fields
  <2> HIDE DEF fields, table
  <2>3. unread \in SUBSET Nat
    BY <2>2
  <2>4. PICK i \in unread : \A k \in unread : i <= k
    BY <1>3, <2>3, LeastNumber
  <2>5. \A j \in 1..(i - 1) : j \notin unread /\ j \in DOMAIN fields
    BY <2>2, <2>3, <2>4
  <2> QED BY <2>5
<1>4. ASSUME pc = "construct"
      PROVE  \/ \A i \in DOMAIN fields : Readable(fields[i], table)
             \/ \E i \in DOMAIN fields : /\ ~Readable(fields[i], table)
                                         /\ \A j \in 1..(i - 1) : Readable(fields[j], table)
  <2> HIDE DEF fields, table
  <2> QED BY <1>3, <1>4
<1> QED BY <1>1, <1>2, <1>4 DEF WayOn

\* A call of load_configuration, with the snapshot of its result, takes finitely many
\* steps, for any document and decimals of any length, and no part of it is stuck.  With
\* fairness this is CallsEnd.
THEOREM EndTheorem ==
  Spec => /\ [](PartsLeft \in Nat /\ TurnsLeft \in Nat /\ (PartsLeft = 0 <=> pc = "idle"))
          /\ []WayOn
          /\ [][pc = "idle" \/ CloserToEnd]_vars
<1>1. Init => Passing
  BY DEF Init, Passing
<1>2. LoaderInv /\ Passing => PartsLeft \in Nat /\ TurnsLeft \in Nat /\ (PartsLeft = 0 <=> pc = "idle")
  BY PartsAreNumbers
<1>3. LoaderInv /\ Passing /\ [Next]_vars => [pc = "idle" \/ CloserToEnd]_vars
  BY StepsCloser
<1> QED BY <1>1, <1>2, <1>3, PassingOk, NoPartIsStuck, LoaderSoundness, PTL DEF Spec
=============================================================================
