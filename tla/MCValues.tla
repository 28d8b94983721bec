------------------------------ MODULE MCValues ------------------------------
(***************************************************************************)
(* The value types in one run: the instants and dates of ValueParts, and   *)
(* decimals, intervals and UUIDs.  The initial state chooses a type; for   *)
(* one that is not of ValueParts the registers hold the variables of its   *)
(* module.                                                                 *)
(***************************************************************************)
EXTENDS ValueParts

VARIABLES a, b, c, d, e, f, g

registers == <<a, b, c, d, e, f, g>>
parts == <<dateVars, instantVars>>
DateOf(n, y, m, d1) == [day |-> n, date |-> [year |-> y, month |-> m, day |-> d1]]

\* Two digits, so that carries, leading and trailing zeros all occur; exponents
\* that take the scale to both of its limits and a step beyond each.
MCDigit == {0, 5}
MCExponents == {-1, 0, 4}
Dec == INSTANCE Decimal WITH
  Digit <- MCDigit, MaxPart <- 2, Exponents <- MCExponents, MaxDigits <- 3, MaxScale <- 2,
  text <- a, other <- b, stage <- c, number <- d, payload <- e, back <- f, shown <- g

\* An i64 of 8 values, seconds of 4 nanoseconds and minutes of 2 seconds; offsets
\* within and beyond what the crates have, with and without odd seconds.
MCIndexes == {-1, 0, 2}
MCZones == {-3, -1, 0, 2}

\* The epoch, the three kinds of century, and the start of an era and of year 0.
MCAnchors == {DateOf(0, 1970, 1, 1), DateOf(10957, 2000, 1, 1), DateOf(-25567, 1900, 1, 1),
              DateOf(47482, 2100, 1, 1), DateOf(-719468, 0, 3, 1), DateOf(-719528, 0, 1, 1)}
MCOffsets == {-720, 0, 180, 840}
MCSeconds == {0, 59, 3600, 43200, 86399}

\* Two of the eight units, which all go through the same code.
MCUnits == {0, 7}
Iv == INSTANCE Interval WITH
  I64Max <- 2, Units <- MCUnits, AdjustId <- 8, UnknownId <- 9,
  span <- a, last <- b, read <- c

MCUuids == {[i \in 1 .. 16 |-> (i * 37) % 256]}
Uu == INSTANCE Uuid WITH
  Uuids <- MCUuids, MaxEdits <- 2,
  uuid <- a, text <- b, edits <- c, outcome <- d

ASSUME Bounds == /\ Dec!DecimalBounds
                 /\ Dt!DatetimeBounds
                 /\ Cal!CalendarBounds
                 /\ Iv!IntervalBounds
                 /\ Uu!UuidBounds

NoRegisters == /\ a = Unused /\ b = Unused /\ c = Unused /\ d = Unused /\ e = Unused /\ f = Unused
               /\ g = Unused

MCInit ==
  \/ Init /\ NoRegisters
  \/ /\ NoDates /\ NoInstants
     /\ \/ kind = "decimal" /\ Dec!Init
        \/ kind = "interval" /\ Iv!Init /\ d = Unused /\ e = Unused /\ f = Unused /\ g = Unused
        \/ kind = "uuid" /\ Uu!Init /\ e = Unused /\ f = Unused /\ g = Unused

MCNext ==
  \/ Next /\ UNCHANGED registers
  \/ kind = "decimal" /\ Dec!Next /\ UNCHANGED <<kind, parts>>
  \/ kind = "interval" /\ Iv!Next /\ UNCHANGED <<kind, parts, d, e, f, g>>
  \/ kind = "uuid" /\ Uu!Next /\ UNCHANGED <<kind, parts, e, f, g>>

MCSpec == MCInit /\ [][MCNext]_<<vars, registers>>

-----------------------------------------------------------------------------
(* One property per type that is not of ValueParts *)

\* A Decimal is the number its text stands for: it has no more digits than fit,
\* the wire gives it back with its scale, Display shows its value and scale, a
\* payload is refused exactly when malformed, and Ord, Eq and Hash agree with the
\* numbers whatever the scales.
DecimalsAreNumbers ==
  kind = "decimal" => /\ Dec!TypeOK
                      /\ Dec!PayloadRoundTrip
                      /\ Dec!MantissaIsValue
                      /\ Dec!ReadsPayload
                      /\ Dec!ShowsItsValue
                      /\ Dec!OrderIsNumeric

\* Sums and negations of Intervals stay in range, the wire gives units and
\* month-end rule back, and from_payload refuses exactly the malformed payloads.
SpansSurvive ==
  kind = "interval" => /\ Iv!TypeOK
                       /\ Iv!WireKeepsSpan
                       /\ Iv!ReadsAreStable

\* FromStr of Uuid reads both forms as the value whose text they are and refuses
\* every other text, except where spare hyphens stand among the digits, which
\* OnlyTheTwoForms is about; of those it accepts none with another character.
UuidsAreRead ==
  kind = "uuid" => /\ Uu!TypeOK
                   /\ Uu!FormsAreRead
                   /\ Uu!DigitsOnly

-----------------------------------------------------------------------------
(* What the repository says of them and the code does not do *)

\* FromStr of Uuid accepts the hyphenated form and the bare 32 hex digits, and
\* answers anything else with an error.
OnlyTheTwoForms == kind = "uuid" => Uu!OnlyTheTwoForms

\* A Datetime is converted to a value of a crate or refused: no TryFrom panics,
\* whatever instant and offset it holds.
NeverPanics == kind = "datetime" => Dt!NeverPanics
=============================================================================
