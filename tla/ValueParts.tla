----------------------------- MODULE ValueParts -----------------------------
(***************************************************************************)
(* Instants and dates, the two sides of Datetime, in one state machine.    *)
(* The initial state chooses one of them, and the variables of the other   *)
(* are unused.                                                             *)
(***************************************************************************)
EXTENDS Integers

CONSTANTS Anchors, Span, NearEpoch, Offsets, Seconds                  \* of Calendar
VARIABLES anchor, day, date

CONSTANTS I64Max, Nanos, Indexes, Minute, CrateMax, Zones, ZoneMax    \* of Datetime
VARIABLES time, stage, moment, payload, back, again, zone

VARIABLE kind   \* the part that was chosen

Cal == INSTANCE Calendar
Dt == INSTANCE Datetime WITH Offsets <- Indexes

dateVars == <<anchor, day, date>>
instantVars == <<time, stage, moment, payload, back, again, zone>>
vars == <<kind, dateVars, instantVars>>

Unused == 0

NoDates == anchor = Unused /\ day = Unused /\ date = Unused
NoInstants == /\ time = Unused /\ stage = Unused /\ moment = Unused /\ payload = Unused
              /\ back = Unused /\ again = Unused /\ zone = Unused

Init == \/ kind = "calendar" /\ Cal!Init /\ NoInstants
        \/ kind = "datetime" /\ Dt!Init /\ NoDates

Next == \/ kind = "calendar" /\ Cal!Next /\ UNCHANGED <<kind, instantVars>>
        \/ kind = "datetime" /\ Dt!Next /\ UNCHANGED <<kind, dateVars>>

Spec == Init /\ [][Next]_vars

-----------------------------------------------------------------------------
(* One property per part *)

\* civil_from_days names the date that a calendar walked day by day names, and
\* Display of Datetime shows what a clock at the value's offset shows.
DatesAreCivil == kind = "calendar" => Cal!DatesAreCivil

\* A Datetime is an instant: what from_payload accepts is a valid one, the wire
\* gives it back with its zone, a SystemTime and a value of another crate survive
\* the way through it before the epoch and at both ends of their range, and
\* instants keep their order.
InstantsSurvive == kind = "datetime" => Dt!InstantsSurvive
=============================================================================
