------------------------------- MODULE Paging -------------------------------
(***************************************************************************)
(* Walking a space page by page (src/src/client.rs, Select and Paged),     *)
(* the way the repository's own test walks one, while others write to it   *)
(* and a page may fail and be asked for again.  Keys are numbers in index  *)
(* order.  The server is external: it answers a SELECT from what the space *)
(* holds at that moment.                                                   *)
(***************************************************************************)
EXTENDS Integers, FiniteSets, FiniteSetsExt

CONSTANTS
  MaxKey,       \* keys are 1 .. MaxKey
  Limits,       \* page sizes the caller may choose
  MaxWrites,    \* bound: inserts and deletes by others
  MaxFailures   \* bound: pages that fail with the link

\* What the constants have to be.
PagingBounds == /\ {MaxKey, MaxWrites, MaxFailures} \subseteq Nat
                /\ Limits \subseteq Nat \ {0}

VARIABLES
  present,      \* keys in the space
  steady,       \* history: keys present ever since the walk began
  writes,       \* writes so far
  failures,     \* failed pages so far
  style,        \* how the caller resumes: "position", "tuple" or "offset"
  limit,        \* the limit of every select
  at,           \* the cursor, the last tuple or the offset to resume from
  pc,           \* where the caller is
  packet,       \* the SELECT that was sent
  page,         \* the Page that came back
  seen          \* seen[k]: how often the walk was given k, capped at 2

vars == <<present, steady, writes, failures, style, limit, at, pc, packet, page, seen>>

Keys == 1 .. MaxKey
Nothing == 0
NoPage == [rows |-> {}, position |-> Nothing]

\* Select: the fields that decide which tuples come back.
Select(l) == [limit |-> l, offset |-> 0, after |-> "none", from |-> Nothing, fetch_position |-> FALSE]

-----------------------------------------------------------------------------
(* The code *)

\* Select::offset, Select::after, Select::after_tuple and Select::page.
Offset(s, n) == [s EXCEPT !.offset = n]
After(s, position) == [s EXCEPT !.after = "position", !.from = position]
AfterTuple(s, tuple) == [s EXCEPT !.after = "tuple", !.from = tuple]
Page(s) == [s EXCEPT !.fetch_position = TRUE]

\* Mutant: a whole tuple to resume after is not written into the packet.
Build_NoTuple(s) ==
  [LIMIT |-> s.limit, OFFSET |-> s.offset,
   AFTER |-> IF s.after = "position" THEN s.from ELSE Nothing,
   FETCH_POSITION |-> s.fetch_position]

\* Select::build: the keys of the packet.  An offset of 0 is left out, which
\* means 0.
Build(s) ==
  [LIMIT |-> s.limit, OFFSET |-> s.offset,
   AFTER |-> IF s.after = "none" THEN Nothing ELSE s.from,
   FETCH_POSITION |-> s.fetch_position]

-----------------------------------------------------------------------------
(* The server, external *)

\* The first n keys of a set.
FirstOf(S, n) == {k \in S : Cardinality({j \in S : j < k}) < n}

\* SELECT with iterator ALL.
Answer(p) ==
  LET behind == {k \in present : k > p.AFTER}
      rows == FirstOf(behind \ FirstOf(behind, p.OFFSET), p.LIMIT)
      left == behind \ rows
  IN {[rows |-> rows, position |-> pos] :
        pos \in IF ~ p.FETCH_POSITION \/ rows = {} THEN {Nothing}
                ELSE IF \E k \in left : k > Max(rows) THEN {Max(rows)}
                ELSE {Max(rows), Nothing}}

-----------------------------------------------------------------------------

\* The type of every variable.
TypeOK ==
  /\ {present, steady} \subseteq SUBSET Keys
  /\ writes \in 0 .. MaxWrites /\ failures \in 0 .. MaxFailures
  /\ style \in {"position", "tuple", "offset"}
  /\ limit \in Limits
  /\ at \in 0 .. 2 * MaxKey
  /\ pc \in {"idle", "asked", "answered", "over"}
  /\ packet \in [LIMIT : Limits, OFFSET : 0 .. 2 * MaxKey, AFTER : 0 .. MaxKey,
                 FETCH_POSITION : BOOLEAN]
  /\ page \in [rows : SUBSET Keys, position : 0 .. MaxKey]
  /\ seen \in [Keys -> 0 .. 2]

Init == /\ present \in SUBSET Keys
        /\ steady = present
        /\ writes = 0 /\ failures = 0
        /\ style \in {"position", "tuple", "offset"}
        /\ limit \in Limits
        /\ at = Nothing
        /\ pc = "idle"
        /\ packet = Build(Select(limit))
        /\ page = NoPage
        /\ seen = [k \in Keys |-> 0]

\* The caller sets up a select that resumes where it was, and awaits the page.
Ask ==
  /\ pc = "idle"
  /\ LET s == Select(limit)
         from == IF at = Nothing THEN s
                 ELSE CASE style = "position" -> After(s, at)
                        [] style = "tuple" -> AfterTuple(s, at)
                        [] style = "offset" -> Offset(s, at)
     IN packet' = Build(Page(from))
  /\ pc' = "asked"
  /\ UNCHANGED <<present, steady, writes, failures, style, limit, at, page, seen>>

ServerSelects ==
  /\ pc = "asked"
  /\ page' \in Answer(packet)
  /\ pc' = "answered"
  /\ UNCHANGED <<present, steady, writes, failures, style, limit, at, packet, seen>>

\* The link is lost before or after the server answered: the page is an error,
\* and the caller asks again from the same place.
PageFails ==
  /\ pc \in {"asked", "answered"}
  /\ failures < MaxFailures
  /\ failures' = failures + 1
  /\ pc' = "idle"
  /\ page' = NoPage
  /\ UNCHANGED <<present, steady, writes, style, limit, at, packet, seen>>

\* Paged returns the page.  An empty page, or one without a position, ends the
\* walk; otherwise it goes on behind it.
TakePage ==
  /\ pc = "answered"
  /\ seen' = [k \in Keys |-> IF k \in page.rows /\ seen[k] < 2 THEN seen[k] + 1 ELSE seen[k]]
  /\ IF page.rows = {} \/ page.position = Nothing
     THEN pc' = "over" /\ UNCHANGED at
     ELSE /\ pc' = "idle"
          /\ at' = CASE style = "position" -> page.position
                     [] style = "tuple" -> Max(page.rows)
                     [] style = "offset" -> IF at + Cardinality(page.rows) > 2 * MaxKey
                                            THEN 2 * MaxKey
                                            ELSE at + Cardinality(page.rows)
  /\ page' = NoPage
  /\ UNCHANGED <<present, steady, writes, failures, style, limit, packet>>

\* Somebody else inserts or deletes a tuple.
Write(k) ==
  /\ pc # "over"
  /\ writes < MaxWrites
  /\ writes' = writes + 1
  /\ present' = IF k \in present THEN present \ {k} ELSE present \cup {k}
  /\ steady' = steady \ {k}
  /\ UNCHANGED <<failures, style, limit, at, pc, packet, page, seen>>

Next == Ask \/ ServerSelects \/ PageFails \/ TakePage \/ \E k \in Keys : Write(k)

Spec == Init /\ [][Next]_vars

-----------------------------------------------------------------------------
(* Properties *)

\* Select::after and Select::after_tuple: a tuple that stays in the space is
\* seen exactly once by the end of the walk, and no tuple twice, whatever is
\* inserted and deleted elsewhere and whichever pages are asked for again.  A
\* walk by offset keeps this only while nobody writes.
EachOnce ==
  (style # "offset" \/ writes = 0) =>
    /\ \A k \in Keys : seen[k] < 2
    /\ pc = "over" => \A k \in steady : seen[k] = 1

\* All of it.
RowsOnce == TypeOK /\ EachOnce
=============================================================================
