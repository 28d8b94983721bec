-------------------------------- MODULE Uuid --------------------------------
(***************************************************************************)
(* Uuid's text form (src/src/types/uuid.rs): Display writes 36 characters, *)
(* FromStr reads the hyphenated and the bare form.  A character is its     *)
(* digit 0 .. 15, 16 more for a capital letter, or one of two others.  A   *)
(* text starts in one of the accepted forms and is damaged a character at  *)
(* a time before it is read.                                               *)
(***************************************************************************)
EXTENDS Integers, Sequences

CONSTANTS
  Uuids,        \* sequences of 16 bytes
  MaxEdits      \* how many characters are damaged

\* What the constants have to be.
UuidBounds == /\ Uuids \subseteq [1 .. 16 -> 0 .. 255]
              /\ MaxEdits \in Nat

VARIABLES
  uuid,       \* the value the text was written for
  text,       \* what is read
  edits,      \* how often it was damaged
  outcome     \* what from_str did: [kind, bytes]

vars == <<uuid, text, edits, outcome>>

Hyphen == -1
Other == -2

Unread == [kind |-> "unread", bytes |-> <<>>]
UuidError == [kind |-> "err", bytes |-> <<>>]

-----------------------------------------------------------------------------
(* The code *)

\* The digits of Display, without the hyphens.
Digits(u) == [i \in 1 .. 32 |-> IF i % 2 = 1 THEN u[(i + 1) \div 2] \div 16 ELSE u[i \div 2] % 16]

\* Display: a hyphen before bytes 4, 6, 8 and 10.
Display(u) ==
  LET d == Digits(u)
  IN SubSeq(d, 1, 8) \o <<Hyphen>> \o SubSeq(d, 9, 12) \o <<Hyphen>> \o SubSeq(d, 13, 16)
       \o <<Hyphen>> \o SubSeq(d, 17, 20) \o <<Hyphen>> \o SubSeq(d, 21, 32)

\* nibble: the value of a hex digit in either case, none for anything else.
Nibble(c) == IF c \in 0 .. 15 THEN {c} ELSE IF c \in 26 .. 31 THEN {c - 16} ELSE {}

\* The characters from_str takes for digits; none when the length or the place
\* of a hyphen is wrong.
Hex(t) ==
  IF Len(t) = 36 /\ \A i \in {9, 14, 19, 24} : t[i] = Hyphen
  THEN {SelectSeq(t, LAMBDA c : c # Hyphen)}
  ELSE IF Len(t) = 32 THEN {t} ELSE {}

\* Mutant: the digits of a byte are swapped.
ReadDigits_Swapped(hex) ==
  IF \E i \in 1 .. Len(hex) : Nibble(hex[i]) = {} THEN UuidError
  ELSE [kind |-> "ok",
        bytes |-> [b \in 1 .. 16 |-> (CHOOSE n \in Nibble(hex[2 * b]) : TRUE) * 16
                                       + CHOOSE n \in Nibble(hex[2 * b - 1]) : TRUE]]

\* The loop over the chunks of two: the first character that is no digit is an
\* error, the missing half of an odd chunk an index out of bounds.
ReadDigits(hex) ==
  LET bad == {i \in 1 .. Len(hex) : Nibble(hex[i]) = {}}
      value(i) == CHOOSE n \in Nibble(hex[i]) : TRUE
  IN IF bad # {} THEN UuidError
     ELSE IF Len(hex) % 2 = 1 THEN [kind |-> "panic", bytes |-> <<>>]
     ELSE [kind |-> "ok",
           bytes |-> [b \in 1 .. 16 |->
                        IF 2 * b <= Len(hex) THEN value(2 * b - 1) * 16 + value(2 * b) ELSE 0]]

\* from_str.
FromStr(t) == IF Hex(t) = {} THEN UuidError ELSE ReadDigits(CHOOSE h \in Hex(t) : TRUE)

-----------------------------------------------------------------------------

Capital(t) == [i \in DOMAIN t |-> IF t[i] \in 10 .. 15 THEN t[i] + 16 ELSE t[i]]
Lower(t) == [i \in DOMAIN t |-> IF t[i] \in 26 .. 31 THEN t[i] - 16 ELSE t[i]]

IsDigit(c) == c \in 0 .. 15 \cup 26 .. 31
IsBare(t) == Len(t) = 32 /\ \A i \in 1 .. 32 : IsDigit(t[i])
IsHyphenated(t) ==
  Len(t) = 36 /\ \A i \in 1 .. 36 : IF i \in {9, 14, 19, 24} THEN t[i] = Hyphen ELSE IsDigit(t[i])

\* The type of every variable: a value that was read is 16 bytes.
TypeOK ==
  /\ uuid \in Uuids
  /\ \A i \in 1 .. Len(text) : text[i] \in {Hyphen, Other} \cup 0 .. 15 \cup 26 .. 31
  /\ edits \in 0 .. MaxEdits
  /\ outcome \in {Unread, UuidError, [kind |-> "panic", bytes |-> <<>>]}
       \cup [kind : {"ok"}, bytes : [1 .. 16 -> 0 .. 255]]

Init == /\ uuid \in Uuids
        /\ text \in {Display(uuid), Digits(uuid), Capital(Display(uuid))}
        /\ edits = 0
        /\ outcome = Unread

\* A character of the text is another one.
Damage ==
  /\ outcome = Unread /\ edits < MaxEdits
  /\ edits' = edits + 1
  /\ \E i \in 1 .. Len(text), c \in {Hyphen, Other, 26} : text' = [text EXCEPT ![i] = c]
  /\ UNCHANGED <<uuid, outcome>>

\* The end of the text is missing.
Shorten ==
  /\ outcome = Unread /\ edits < MaxEdits /\ text # <<>>
  /\ edits' = edits + 1
  /\ text' = SubSeq(text, 1, Len(text) - 1)
  /\ UNCHANGED <<uuid, outcome>>

Parse ==
  /\ outcome = Unread
  /\ outcome' = FromStr(text)
  /\ UNCHANGED <<uuid, text, edits>>

Next == Damage \/ Shorten \/ Parse

Spec == Init /\ [][Next]_vars

-----------------------------------------------------------------------------
(* Properties *)

\* The hyphens are where they belong, and there are more of them.
SpareHyphen(t) == /\ Len(t) = 36
                  /\ \A i \in {9, 14, 19, 24} : t[i] = Hyphen
                  /\ \E i \in 1 .. 36 \ {9, 14, 19, 24} : t[i] = Hyphen

\* Both forms, in either case, are read, and as the value whose own text they
\* are: FromStr and Display agree on every digit's place.  Every other text is
\* an error, spare hyphens apart.
FormsAreRead ==
  (outcome # Unread /\ ~ SpareHyphen(text)) =>
    IF IsBare(text) \/ IsHyphenated(text)
    THEN /\ outcome.kind = "ok"
         /\ Lower(text) \in {Digits(outcome.bytes), Display(outcome.bytes)}
    ELSE outcome = UuidError

\* Spare hyphens or not, what is accepted consists of hex digits and hyphens.
DigitsOnly ==
  outcome.kind = "ok" => \A i \in 1 .. Len(text) : IsDigit(text[i]) \/ text[i] = Hyphen

\* What from_str says of itself: "Accepts the hyphenated form and the bare 32
\* hex digits, any case."  Anything else is an error, and nothing panics.
OnlyTheTwoForms ==
  (outcome # Unread /\ ~ IsBare(text) /\ ~ IsHyphenated(text)) => outcome = UuidError
=============================================================================
