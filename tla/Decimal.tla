------------------------------ MODULE Decimal -------------------------------
(***************************************************************************)
(* Decimal (src/src/types/decimal.rs): exact decimal numbers as a sign, a  *)
(* scale and significant digits.  A text is what FromStr takes apart: a    *)
(* sign, the digits before and after the point, and an exponent.  One      *)
(* behaviour takes a text through from_str (or its number through          *)
(* from_parts), to_payload, from_payload and Display, and compares the     *)
(* number with the one of a second text; another reads a payload that      *)
(* somebody else wrote.  The references are the numbers themselves.        *)
(***************************************************************************)
EXTENDS Integers, Sequences, SequencesExt

CONSTANTS
  Digit,        \* digits the texts are made of
  MaxPart,      \* bound: digits before, and after, the point
  Exponents,    \* exponents the texts have
  MaxDigits,    \* Decimal::MAX_DIGITS, 38 in the code
  MaxScale      \* scales are in -(MaxScale + 1) .. MaxScale, i32 in the code

\* What the constants have to be.
DecimalBounds == /\ Digit \subseteq 0 .. 9
                 /\ MaxPart \in Nat
                 /\ Exponents \subseteq Int
                 /\ MaxDigits \in Nat
                 /\ MaxScale \in Nat

VARIABLES
  text,     \* the text parsed
  other,    \* a second one, to compare with
  stage,    \* how far the first one is
  number,   \* what from_str made of text
  payload,  \* what to_payload made of number, or what arrived
  back,     \* what from_payload made of payload
  shown     \* what Display made of back

vars == <<text, other, stage, number, payload, back, shown>>

Digits == UNION {[1 .. n -> Digit] : n \in 0 .. MaxPart}
Text == [negative : BOOLEAN, int : Digits, frac : Digits, exponent : Exponents]

Zero == [negative |-> FALSE, scale |-> 0, digits |-> <<0>>]
Error == [negative |-> FALSE, scale |-> 0, digits |-> <<>>]
NoText == [negative |-> FALSE, int |-> <<>>, frac |-> <<>>, exponent |-> 0]
NoPayload == [readable |-> TRUE, scale |-> 0, bytes |-> <<>>]

-----------------------------------------------------------------------------
(* The code *)

IsZero(d) == d.digits = <<0>>

LeadingZeros(s) == SelectInSeq(s \o <<1>>, LAMBDA x : x # 0) - 1
TrailingZeros(s) == LeadingZeros(Reverse(s))
Zeros(n) == [i \in 1 .. n |-> 0]

\* Decimal::assemble.
Assemble(negative, scale, digits) ==
  LET kept == SubSeq(digits, LeadingZeros(digits) + 1, Len(digits))
  IN IF kept = <<>> THEN Zero
     ELSE IF Len(kept) > MaxDigits THEN Error
     ELSE [negative |-> negative, scale |-> scale, digits |-> kept]

\* FromStr for Decimal.
FromStr(t) ==
  LET scale == Len(t.frac) - t.exponent
  IN IF t.int = <<>> /\ t.frac = <<>> THEN Error
     ELSE IF scale > MaxScale \/ scale < -(MaxScale + 1) THEN Error
     ELSE Assemble(t.negative, scale, t.int \o t.frac)

\* Decimal::from_parts, which every integer type and rust_decimal go through; the
\* digits are those of the magnitude's to_string.
ToDigits(n) ==
  LET width == CHOOSE w \in 1 .. 2 * MaxPart + 1 : n < 10 ^ w /\ (w = 1 \/ n >= 10 ^ (w - 1))
  IN [i \in 1 .. width |-> (n \div 10 ^ (width - i)) % 10]
FromParts(mantissa, scale) ==
  Assemble(mantissa < 0, scale, ToDigits(IF mantissa < 0 THEN -mantissa ELSE mantissa))

\* Decimal::mantissa.
Natural(s) == FoldLeft(LAMBDA n, d : 10 * n + d, 0, s)
Mantissa(d) == IF d.negative THEN -Natural(d.digits) ELSE Natural(d.digits)

\* Decimal::to_payload: packed digits with the sign in the last nibble.
ToPayload(d) ==
  LET nibbles == (IF Len(d.digits) % 2 = 0 THEN <<0>> ELSE <<>>)
                   \o d.digits \o <<IF d.negative THEN 13 ELSE 12>>
  IN [readable |-> TRUE, scale |-> d.scale,
      bytes |-> [i \in 1 .. (Len(nibbles) \div 2) |-> nibbles[2 * i - 1] * 16 + nibbles[2 * i]]]

\* Decimal::from_payload: the scale is an integer that fits i32, and nibbles
\* follow, the last of which is the sign.
FromPayload(p) ==
  LET nibbles == FlattenSeq([i \in 1 .. Len(p.bytes) |-> <<p.bytes[i] \div 16, p.bytes[i] % 16>>])
  IN IF ~ p.readable \/ p.scale \notin -(MaxScale + 1) .. MaxScale THEN Error
     ELSE IF nibbles = <<>> \/ Last(nibbles) < 10 THEN Error
     ELSE IF \E i \in 1 .. Len(nibbles) - 1 : nibbles[i] > 9 THEN Error
     ELSE Assemble(Last(nibbles) \in {11, 13}, p.scale, Front(nibbles))

\* Display for Decimal.
Display(d) ==
  [negative |-> d.negative,
   int |-> IF d.scale <= 0 THEN d.digits \o Zeros(-d.scale)
           ELSE IF Len(d.digits) > d.scale THEN SubSeq(d.digits, 1, Len(d.digits) - d.scale)
           ELSE <<0>>,
   frac |-> IF d.scale <= 0 THEN <<>>
            ELSE IF Len(d.digits) > d.scale
            THEN SubSeq(d.digits, Len(d.digits) - d.scale + 1, Len(d.digits))
            ELSE Zeros(d.scale - Len(d.digits)) \o d.digits,
   exponent |-> 0]

\* Decimal::canonical, which equality and hashing use.
Canonical(d) ==
  LET zeros == TrailingZeros(d.digits)
  IN IF IsZero(d) THEN <<FALSE, 0, <<0>>>>
     ELSE <<d.negative, d.scale - zeros, SubSeq(d.digits, 1, Len(d.digits) - zeros)>>

IntegerLen(d) == Len(d.digits) - d.scale

Sign(n) == IF n < 0 THEN -1 ELSE IF n > 0 THEN 1 ELSE 0

\* Comparison of two digit sequences padded with zeros to the same width.
CompareDigits(a, b) ==
  LET width == IF Len(a) > Len(b) THEN Len(a) ELSE Len(b)
      x == a \o Zeros(width - Len(a))
      y == b \o Zeros(width - Len(b))
      at == SelectInSeq([i \in 1 .. width |-> x[i] # y[i]], LAMBDA differ : differ)
  IN IF at = 0 THEN 0 ELSE Sign(x[at] - y[at])

\* Mutant: the digits are compared whatever their weight.
CmpMagnitude_IgnoresWeight(a, b) == CompareDigits(a.digits, b.digits)

\* Decimal::cmp_magnitude.
CmpMagnitude(a, b) ==
  IF IntegerLen(a) # IntegerLen(b)
  THEN Sign(IntegerLen(a) - IntegerLen(b))
  ELSE CompareDigits(a.digits, b.digits)

\* Ord for Decimal.
Cmp(a, b) ==
  IF IsZero(a) /\ IsZero(b) THEN 0
  ELSE IF IsZero(a) THEN (IF b.negative THEN 1 ELSE -1)
  ELSE IF IsZero(b) THEN (IF a.negative THEN -1 ELSE 1)
  ELSE IF a.negative # b.negative THEN (IF a.negative THEN -1 ELSE 1)
  ELSE IF a.negative THEN CmpMagnitude(b, a) ELSE CmpMagnitude(a, b)

-----------------------------------------------------------------------------

Payload == [readable : BOOLEAN, scale : Int, bytes : Seq(0 .. 255)]

\* What may arrive: a scale within, at and beyond the limits or none at all, and
\* nibbles that are digits, signs of both kinds, or out of place.
Bytes == {16 * h + l : h, l \in {0, 5, 12, 13}}
Arrivals ==
  [readable : {TRUE}, scale : {-(MaxScale + 2), -(MaxScale + 1), 0, MaxScale, MaxScale + 1},
   bytes : UNION {[1 .. n -> Bytes] : n \in 0 .. MaxPart + 1}]
  \cup {[readable |-> FALSE, scale |-> 0, bytes |-> <<92>>]}

Number == [negative : BOOLEAN, scale : -(MaxScale + 1) .. MaxScale, digits : Seq(0 .. 9)]

\* A Decimal has no leading zeros, at most MaxDigits digits, and no negative zero.
WellFormed(d) ==
  \/ d \in {Error, Zero}
  \/ d.digits[1] # 0 /\ Len(d.digits) <= MaxDigits

\* The type of every variable, the invariant of Decimal's fields included.
TypeOK == /\ text \in Text
          /\ other \in Text
          /\ stage \in {"text", "number", "payload", "back", "shown", "arrived", "read"}
          /\ number \in Number /\ WellFormed(number)
          /\ payload \in Payload
          /\ back \in Number /\ WellFormed(back)

Init == /\ text \in Text
        /\ other \in Text
        /\ stage = "text"
        /\ number = Error
        /\ payload = NoPayload
        /\ back = Error
        /\ shown = NoText

Parse == /\ stage = "text"
         /\ stage' = "number"
         /\ number' = FromStr(text)
         /\ UNCHANGED <<text, other, payload, back, shown>>

\* From an integer mantissa and a scale: the number that text stands for.
Build == LET magnitude == Natural(text.int \o text.frac)
             scale == Len(text.frac) - text.exponent
         IN /\ stage = "text"
            /\ stage' = "number"
            /\ scale \in -(MaxScale + 1) .. MaxScale
            /\ number' = FromParts(IF text.negative THEN -magnitude ELSE magnitude, scale)
            /\ UNCHANGED <<text, other, payload, back, shown>>

Serialize == /\ stage = "number" /\ number # Error
             /\ stage' = "payload"
             /\ payload' = ToPayload(number)
             /\ UNCHANGED <<text, other, number, back, shown>>

\* A payload written by somebody else; there is no text.
Arrive == /\ stage = "text" /\ text = NoText /\ other = NoText
          /\ stage' = "arrived"
          /\ payload' \in Arrivals
          /\ UNCHANGED <<text, other, number, back, shown>>

Deserialize == /\ stage \in {"payload", "arrived"}
               /\ stage' = IF stage = "payload" THEN "back" ELSE "read"
               /\ back' = FromPayload(payload)
               /\ UNCHANGED <<text, other, number, payload, shown>>

Format == /\ stage = "back" /\ back # Error
          /\ stage' = "shown"
          /\ shown' = Display(back)
          /\ UNCHANGED <<text, other, number, payload, back>>

Next == Parse \/ Build \/ Arrive \/ Serialize \/ Deserialize \/ Format

Spec == Init /\ [][Next]_vars

-----------------------------------------------------------------------------
(* Properties *)

\* The number t stands for, in units of 10^-Fine.
Fine == MaxScale
ValueOf(t) ==
  LET magnitude == Natural(t.int \o t.frac) * 10 ^ (Fine - (Len(t.frac) - t.exponent))
  IN IF t.negative THEN -magnitude ELSE magnitude

\* The payload carries every number the client can parse: what comes back from
\* the wire is the same number with the same scale.
PayloadRoundTrip == stage = "back" => back = number

\* mantissa and scale are the number, whether it was parsed or built.
MantissaIsValue ==
  (stage = "number" /\ number # Error) => Mantissa(number) * 10 ^ (Fine - number.scale) = ValueOf(text)

\* A payload is refused exactly when its scale cannot be read or does not fit,
\* the sign is missing, a digit is none, or there are too many of them; otherwise
\* it is the number its nibbles spell.
ReadsPayload ==
  stage = "read" =>
    LET last == 2 * Len(payload.bytes)
        nibble == [i \in 1 .. last |-> LET byte == payload.bytes[(i + 1) \div 2]
                                       IN IF i % 2 = 1 THEN byte \div 16 ELSE byte % 16]
        magnitude == Natural(SubSeq(nibble, 1, last - 1))
        proper == /\ payload.readable /\ payload.scale \in -(MaxScale + 1) .. MaxScale
                  /\ last > 0 /\ nibble[last] > 9
                  /\ \A i \in 1 .. last - 1 : nibble[i] <= 9
                  /\ magnitude < 10 ^ MaxDigits
    IN IF proper
       THEN /\ back # Error
            /\ Mantissa(back) = IF nibble[last] \in {11, 13} THEN -magnitude ELSE magnitude
            /\ magnitude # 0 => back.scale = payload.scale
       ELSE back = Error

\* What is displayed after the round trip is the number that was read, with the
\* scale it was written with: Display keeps trailing zeros, a zero's apart.
ShowsItsValue ==
  stage = "shown" =>
    /\ ValueOf(shown) = ValueOf(text)
    /\ number # Zero => Len(shown.frac) = IF number.scale > 0 THEN Len(text.frac) - text.exponent ELSE 0

\* Ordering is numeric, and equality (and so hashing) is the ordering's equality,
\* whatever scales two numbers were written with.
OrderIsNumeric ==
  (stage = "number" /\ number # Error /\ FromStr(other) # Error) =>
    /\ Cmp(number, FromStr(other)) = Sign(ValueOf(text) - ValueOf(other))
    /\ Canonical(number) = Canonical(FromStr(other)) <=> Cmp(number, FromStr(other)) = 0
=============================================================================
