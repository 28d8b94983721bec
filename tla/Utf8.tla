-------------------------------- MODULE Utf8 --------------------------------
(***************************************************************************)
(* What the standard library takes for UTF-8.  External.                   *)
(***************************************************************************)
EXTENDS Integers, Sequences

\* The second byte of a character of several bytes.
Second(b) == CASE b \in 194 .. 223 -> 128 .. 191
               [] b = 224 -> 160 .. 191
               [] b = 237 -> 128 .. 159
               [] b \in 225 .. 239 \ {237} -> 128 .. 191
               [] b = 240 -> 144 .. 191
               [] b \in 241 .. 243 -> 128 .. 191
               [] b = 244 -> 128 .. 143
               [] OTHER -> {}

Width(b) == IF b < 128 THEN 1 ELSE IF b < 224 THEN 2 ELSE IF b < 240 THEN 3 ELSE 4

\* str::from_utf8 and String::from_utf8 take these bytes.
IsUtf8(bytes) ==
  LET ok[i \in 1 .. Len(bytes) + 1] ==
        IF i > Len(bytes) THEN TRUE
        ELSE LET w == Width(bytes[i])
             IN /\ i + w <= Len(bytes) + 1
                /\ w > 1 => bytes[i + 1] \in Second(bytes[i])
                /\ \A k \in 2 .. w - 1 : bytes[i + k] \in 128 .. 191
                /\ ok[i + w]
  IN ok[1]
=============================================================================
