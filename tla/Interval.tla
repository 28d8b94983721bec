------------------------------ MODULE Interval ------------------------------
(***************************************************************************)
(* Interval (src/src/types/interval.rs): a calendar span kept unit by unit *)
(* with a rule for month ends.  Spans are added and negated unit by unit,  *)
(* saturating; on the wire a zero unit is left out, and so is the rule     *)
(* that an absent field means to the server, which is not the rule a new   *)
(* span has.  A payload is a count and a sequence of (id, value) pairs.     *)
(***************************************************************************)
EXTENDS Integers, SequencesExt

CONSTANTS
  I64Max,       \* i64::MAX, 2^63 - 1 in the code
  Units,        \* ids of the units, 8 of them in the code
  AdjustId,     \* ADJUST
  UnknownId     \* an id no field has

\* What the constants have to be.
IntervalBounds == /\ I64Max \in Nat \ {0}
                  /\ Units \subseteq Nat
                  /\ AdjustId \in Nat \ Units
                  /\ UnknownId \in Nat \ (Units \cup {AdjustId})

VARIABLES
  span,       \* the Interval in hand
  last,       \* the last payload written or received
  read        \* what from_payload made of it: a set of at most one Interval

vars == <<span, last, read>>

I64Min == -(I64Max + 1)
I64 == I64Min .. I64Max
Adjust == {"Excess", "Limit", "Snap"}
Interval == [unit : [Units -> I64], adjust : Adjust]

-----------------------------------------------------------------------------
(* The code *)

Saturate(n) == IF n > I64Max THEN I64Max ELSE IF n < I64Min THEN I64Min ELSE n

Zero == [unit |-> [u \in Units |-> 0], adjust |-> "Limit"]

\* Adjust::code.
Code(a) == CASE a = "Excess" -> 0 [] a = "Limit" -> 1 [] a = "Snap" -> 2

\* Adjust::from_code: none for a code nobody has.
FromCode(code) == {a \in Adjust : Code(a) = code}

\* The pairs to_payload writes, in the order of their ids.
Pairs(i) ==
  LET present == {u \in Units : i.unit[u] # 0}
      ids == SetToSortSeq(present, LAMBDA a, b : a < b)
  IN [n \in 1 .. Len(ids) |-> <<ids[n], i.unit[ids[n]]>>]

\* Mutant: the default rule is the one left out.
ToPayload_OmitsLimit(i) ==
  LET pairs == Pairs(i) \o (IF i.adjust # "Limit" THEN <<<<AdjustId, Code(i.adjust)>>>> ELSE <<>>)
  IN [count |-> Len(pairs), pairs |-> pairs]

\* Interval::to_payload: adjust is written unless it is Excess.
ToPayload(i) ==
  LET pairs == Pairs(i) \o (IF i.adjust # "Excess" THEN <<<<AdjustId, Code(i.adjust)>>>> ELSE <<>>)
  IN [count |-> Len(pairs), pairs |-> pairs]

\* One turn of from_payload's loop: an error is the empty set, which stays.
ReadPair(found, pair) ==
  UNION {IF pair[1] \in Units THEN {[i EXCEPT !.unit[pair[1]] = pair[2]]}
         ELSE IF pair[1] = AdjustId THEN {[i EXCEPT !.adjust = a] : a \in FromCode(pair[2])}
         ELSE {} : i \in found}

\* Interval::from_payload: it starts from Excess, and the last pair of an id wins;
\* neither missing pairs nor trailing bytes are accepted.
FromPayload(payload) ==
  IF payload.count = Len(payload.pairs)
  THEN FoldLeft(ReadPair, {[Zero EXCEPT !.adjust = "Excess"]}, payload.pairs)
  ELSE {}

\* Add: the rule comes from the left side unless it is the default.
Plus(a, b) == [unit |-> [u \in Units |-> Saturate(a.unit[u] + b.unit[u])],
               adjust |-> IF a.adjust = "Limit" THEN b.adjust ELSE a.adjust]

\* Neg: the smallest number has no opposite and becomes the largest.
Negate(i) == [i EXCEPT !.unit = [u \in Units |-> Saturate(-i.unit[u])]]

-----------------------------------------------------------------------------

\* The type of every variable: a value that is written or negated stays an i64.
TypeOK == /\ span \in Interval
          /\ read \subseteq Interval
          /\ last.count \in Nat /\ last.pairs \in Seq(Nat \X I64)

Init == span = Zero /\ last = ToPayload(Zero) /\ read = FromPayload(ToPayload(Zero))

\* years(n), ..., nanoseconds(n) with a rule, added on the right.
Add ==
  /\ \E u \in Units, n \in I64, a \in Adjust :
       span' = Plus(span, [unit |-> [Zero.unit EXCEPT ![u] = n], adjust |-> a])
  /\ UNCHANGED <<last, read>>

Neg ==
  /\ span' = Negate(span)
  /\ UNCHANGED <<last, read>>

\* The span is sent and comes back.
RoundTrip ==
  /\ last' = ToPayload(span)
  /\ read' = FromPayload(last')
  /\ UNCHANGED span

\* A payload somebody else wrote, read before anything is built: ids in any
\* order, repeated or unknown.
Arrive ==
  /\ span = Zero
  /\ \E ids \in [1 .. 2 -> Units \cup {AdjustId, UnknownId}], values \in [1 .. 2 -> I64],
        count \in 1 .. 3 :
       last' = [count |-> count, pairs |-> [n \in 1 .. 2 |-> <<ids[n], values[n]>>]]
  /\ read' = FromPayload(last')
  /\ UNCHANGED span

Next == Add \/ Neg \/ RoundTrip \/ Arrive

Spec == Init /\ [][Next]_vars

-----------------------------------------------------------------------------
(* Properties *)

\* A span survives the wire whatever its units and its rule, the omitted one and
\* the default one alike.
WireKeepsSpan == FromPayload(ToPayload(span)) = {span}

\* The writer and the reader agree on what an absent field means: what was
\* decoded is what its own encoding decodes to; and a payload is refused exactly
\* when its count is wrong or a pair has an id or a rule that does not exist.
ReadsAreStable ==
  /\ \A i \in read : FromPayload(ToPayload(i)) = read
  /\ read = {} <=> \/ last.count # Len(last.pairs)
                   \/ \E n \in 1 .. Len(last.pairs) :
                        \/ last.pairs[n][1] \notin Units \cup {AdjustId}
                        \/ last.pairs[n][1] = AdjustId /\ FromCode(last.pairs[n][2]) = {}
=============================================================================
