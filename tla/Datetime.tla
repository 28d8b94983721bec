------------------------------ MODULE Datetime ------------------------------
(***************************************************************************)
(* Datetime (src/src/types/datetime.rs): an instant as seconds and         *)
(* nanoseconds since the Unix epoch with a zone offset that only display   *)
(* looks at, its conversions from and to SystemTime, the crates time,      *)
(* chrono and jiff, and the wire payload.  A SystemTime is the signed      *)
(* number of nanoseconds since the epoch.  The width of i64, the range of  *)
(* the crates, and the nanoseconds of a second are parameters, so that the *)
(* ends of the range are reached.                                          *)
(***************************************************************************)
EXTENDS Integers

CONSTANTS
  I64Max,       \* i64::MAX, 2^63 - 1 in the code
  Nanos,        \* NANOS_PER_SECOND
  Offsets,      \* zone offsets and zone indexes
  Minute,       \* seconds of a minute, 60 in the code
  CrateMax,     \* the crates have the seconds -CrateMax .. CrateMax
  Zones,        \* offsets, in seconds, of values of the crates
  ZoneMax       \* the largest offset the crates have, in seconds

\* What the constants have to be.
DatetimeBounds == /\ I64Max \in Nat
                  /\ Nanos \in Nat \ {0}
                  /\ Offsets \subseteq Int
                  /\ Minute \in Nat \ {0}
                  /\ CrateMax \in 1 .. I64Max - 1
                  /\ Zones \subseteq -ZoneMax .. ZoneMax

VARIABLES
  time,       \* the SystemTime converted
  stage,      \* how far it is
  moment,     \* the Datetime made of it
  payload,    \* what to_payload wrote
  back,       \* what from_payload read
  again,      \* the instant made of back
  zone        \* the offset of the crate's value that was converted or made

vars == <<time, stage, moment, payload, back, again, zone>>

I64Min == -(I64Max + 1)
I64 == I64Min .. I64Max
SystemTime == I64Min * Nanos .. I64Max * Nanos + Nanos - 1

Crate == {"time", "chrono", "jiff"}
CrateTime == -CrateMax * Nanos .. CrateMax * Nanos + Nanos - 1

-----------------------------------------------------------------------------
(* The code *)

Saturate(n) == IF n > I64Max THEN I64Max ELSE IF n < I64Min THEN I64Min ELSE n

\* Datetime::from_unix: whole seconds carry, saturating.
FromUnix(seconds, nanoseconds) ==
  [epoch |-> Saturate(seconds + nanoseconds \div Nanos), nsec |-> nanoseconds % Nanos,
   offset |-> 0, index |-> 0]

\* Datetime::with_tz_offset and with_tz_index.
WithTzOffset(d, minutes) == [epoch |-> d.epoch, nsec |-> d.nsec, offset |-> minutes, index |-> d.index]
WithTzIndex(d, index) == [epoch |-> d.epoch, nsec |-> d.nsec, offset |-> d.offset, index |-> index]

\* i64::try_from(...).unwrap_or(i64::MAX).
Fit(n) == IF n > I64Max THEN I64Max ELSE n

\* Mutant: the fraction of an instant before the epoch is not turned around.
FromSystemTime_Truncates(t) ==
  IF t >= 0
  THEN FromUnix(Fit(t \div Nanos), t % Nanos)
  ELSE FromUnix(-Fit((-t) \div Nanos), (-t) % Nanos)

\* From<SystemTime>: durations are never negative, so an instant before the
\* epoch is turned around.
FromSystemTime(t) ==
  IF t >= 0
  THEN FromUnix(Fit(t \div Nanos), t % Nanos)
  ELSE LET seconds == -Fit((-t) \div Nanos)
           nanos == (-t) % Nanos
       IN IF nanos = 0 THEN FromUnix(seconds, 0) ELSE FromUnix(seconds - 1, Nanos - nanos)

\* Datetime::to_payload: the tail is written when there is something in it.
ToPayload(d) ==
  IF d.nsec # 0 \/ d.offset # 0 \/ d.index # 0
  THEN [size |-> 16, epoch |-> d.epoch, nsec |-> d.nsec, offset |-> d.offset, index |-> d.index]
  ELSE [size |-> 8, epoch |-> d.epoch, nsec |-> 0, offset |-> 0, index |-> 0]

\* Datetime::from_payload: the one value of an Ok, none for an Err.
FromPayload(p) ==
  CASE p.size = 8 -> {FromUnix(p.epoch, 0)}
    [] p.size = 16 /\ p.nsec < Nanos ->
         {[epoch |-> p.epoch, nsec |-> p.nsec, offset |-> p.offset, index |-> p.index]}
    [] OTHER -> {}

\* TryFrom<Datetime> for SystemTime.  The platform's SystemTime holds every i64
\* second, as it does on Unix, so that checked_add and checked_sub give a value.
ToSystemTime(d) ==
  IF d.epoch >= 0
  THEN d.epoch * Nanos + d.nsec
  ELSE -((-d.epoch) * Nanos) + d.nsec

\* Division of the code, towards zero.
Quotient(n, d) == IF n < 0 THEN -((-n) \div d) ELSE n \div d

\* Seconds and nanoseconds as the accessors of a crate give them: rounded down,
\* also with a leap second in the nanoseconds (chrono), or both with the sign of
\* the instant (jiff).
Parts(crate, t) ==
  CASE crate = "time" -> {<<t \div Nanos, t % Nanos>>}
    [] crate = "chrono" -> {<<t \div Nanos, t % Nanos>>, <<(t \div Nanos) - 1, (t % Nanos) + Nanos>>}
    [] crate = "jiff" -> {<<Quotient(t, Nanos), t - Quotient(t, Nanos) * Nanos>>}

\* From<OffsetDateTime>, From<chrono::DateTime>, From<Timestamp> and From<Zoned>:
\* the offset is cut to whole minutes.
FromCrate(parts, z) ==
  WithTzOffset(IF parts[2] < 0 THEN FromUnix(parts[1] - 1, parts[2] + Nanos)
               ELSE FromUnix(parts[1], parts[2]),
               Quotient(z, Minute))

\* TryFrom<Datetime> for them: both ranges are checked, and to_offset of time
\* panics when the local time is out of range.
ToCrate(crate, d) ==
  LET instant == d.epoch * Nanos + d.nsec
      z == d.offset * Minute
  IN IF instant \notin CrateTime \/ z \notin -ZoneMax .. ZoneMax THEN "refused"
     ELSE IF crate = "time" /\ instant + z * Nanos \notin CrateTime THEN "panic"
     ELSE "given"

\* Ord for Datetime, which equality and hashing agree with: the zone is left out.
Before(a, b) == a.epoch < b.epoch \/ (a.epoch = b.epoch /\ a.nsec < b.nsec)

-----------------------------------------------------------------------------

Carried == Offsets \cup {0} \cup {Quotient(z, Minute) : z \in Zones}
Moment == [epoch : I64, nsec : 0 .. Nanos - 1, offset : Carried, index : Offsets \cup {0}]

\* What may arrive from a server: the nanoseconds of the tail are any u32.
Payload == [size : {8, 16, 12}, epoch : I64, nsec : 0 .. 2 * Nanos,
            offset : Carried, index : Offsets \cup {0}]

\* The type of every variable: a Datetime never holds a whole second of
\* nanoseconds, wherever it came from.
TypeOK == /\ time \in SystemTime
          /\ stage \in {"time", "moment", "payload", "arrived", "back", "read", "again", "refused", "panic", "given"}
          /\ moment \in Moment
          /\ payload \in Payload
          /\ back \in Moment
          /\ again \in SystemTime
          /\ zone \in Int

Init == /\ time \in SystemTime
        /\ stage = "time"
        /\ moment = FromUnix(0, 0)
        /\ payload = ToPayload(FromUnix(0, 0))
        /\ back = FromUnix(0, 0)
        /\ again = 0
        /\ zone = 0

\* Datetime::from, with_tz_offset and with_tz_index.
Convert ==
  /\ stage = "time"
  /\ stage' = "moment"
  /\ \E o \in Offsets, i \in Offsets :
       moment' = WithTzIndex(WithTzOffset(FromSystemTime(time), o), i)
  /\ UNCHANGED <<time, payload, back, again, zone>>

\* Datetime::from_unix of seconds that leave room for the carry: time records
\* the instant meant.
Build ==
  /\ stage = "time"
  /\ stage' = "moment"
  /\ \E seconds \in I64, nanoseconds \in 0 .. 2 * Nanos :
       /\ seconds * Nanos + nanoseconds \in SystemTime
       /\ time' = seconds * Nanos + nanoseconds
       /\ moment' = FromUnix(seconds, nanoseconds)
  /\ UNCHANGED <<payload, back, again, zone>>

\* Datetime::from a value of a crate with the offset z.
Import(crate) ==
  /\ stage = "time"
  /\ stage' = "moment"
  /\ time \in CrateTime
  /\ \E parts \in Parts(crate, time), z \in Zones :
       /\ moment' = FromCrate(parts, z)
       /\ zone' = z
  /\ UNCHANGED <<time, payload, back, again>>

\* A payload written by somebody else.
Arrive ==
  /\ stage = "time"
  /\ stage' = "arrived"
  /\ payload' \in Payload
  /\ UNCHANGED <<time, moment, back, again, zone>>

Serialize ==
  /\ stage = "moment"
  /\ stage' = "payload"
  /\ payload' = ToPayload(moment)
  /\ UNCHANGED <<time, moment, back, again, zone>>

Deserialize ==
  /\ stage \in {"payload", "arrived"}
  /\ stage' = IF stage = "payload" THEN "back" ELSE "read"
  /\ back' \in FromPayload(payload)
  /\ UNCHANGED <<time, moment, payload, again, zone>>

Return ==
  /\ stage = "back"
  /\ stage' = "again"
  /\ again' = ToSystemTime(back)
  /\ UNCHANGED <<time, moment, payload, back, zone>>

\* try_from into a value of a crate.
Export(crate) ==
  /\ stage = "back"
  /\ stage' = ToCrate(crate, back)
  /\ IF stage' = "given"
     THEN again' = back.epoch * Nanos + back.nsec /\ zone' = back.offset * Minute
     ELSE UNCHANGED <<again, zone>>
  /\ UNCHANGED <<time, moment, payload, back>>

Next == \/ Convert \/ Build \/ Arrive \/ Serialize \/ Deserialize \/ Return
        \/ \E crate \in Crate : Import(crate) \/ Export(crate)

Spec == Init /\ [][Next]_vars

-----------------------------------------------------------------------------
(* Properties *)

\* An instant, its zone offset and its zone index survive the wire.
PayloadRoundTrip == /\ stage \in {"back", "again"} => back = moment
                    /\ stage = "payload" => FromPayload(payload) # {}

\* A SystemTime survives the way through Datetime and the wire and back, before
\* and after the epoch and at both ends of the range; the one exception is the
\* very first instant of i64, which unwrap_or moves a second later.
SystemTimeRoundTrip ==
  (stage = "again" /\ time # I64Min * Nanos) => again = time

\* A value of a crate survives the way through Datetime and back: the instant
\* always, also before the epoch and in a leap second, the offset up to the
\* seconds of its last minute.  An error means that the instant or the offset is
\* out of the crate's range; a panic, that both are in it and the local time is
\* not.
CrateRoundTrip ==
  /\ stage = "given" /\ time # I64Min * Nanos => again = time
  /\ stage = "moment" => zone - moment.offset * Minute \in 1 - Minute .. Minute - 1 \/ zone = 0
  /\ stage = "given" => zone = moment.offset * Minute
  /\ stage = "refused" =>
       time \notin CrateTime \/ moment.offset * Minute \notin -ZoneMax .. ZoneMax
  /\ stage = "panic" /\ time # I64Min * Nanos =>
       /\ time \in CrateTime /\ moment.offset * Minute \in -ZoneMax .. ZoneMax
       /\ time + moment.offset * Minute * Nanos \notin CrateTime

\* Instants keep their order: a later SystemTime makes a later Datetime, and
\* from_unix agrees with From<SystemTime> on where an instant lies, carry included.
OrderKept ==
  (stage = "moment" /\ time # I64Min * Nanos) =>
    \A t \in SystemTime \ {I64Min * Nanos} :
      /\ t < time => Before(FromSystemTime(t), moment)
      /\ t > time => Before(moment, FromSystemTime(t))

\* No conversion panics, whatever instant and offset the value holds: "no
\* panics on user input", and each TryFrom has an error for what is out of range.
NeverPanics == stage # "panic"

\* All of it: an instant survives the wire, SystemTime and the crates, and keeps
\* its place among the others.
InstantsSurvive == TypeOK /\ PayloadRoundTrip /\ SystemTimeRoundTrip /\ CrateRoundTrip /\ OrderKept
=============================================================================
