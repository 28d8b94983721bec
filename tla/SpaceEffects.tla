---------------------------- MODULE SpaceEffects ----------------------------
(***************************************************************************)
(* What the requests of a client do to a space of the server, and the      *)
(* result: [rows, code, data].  The server is external; this is the part   *)
(* of it that the documentation of src/src/client.rs and src/src/update.rs *)
(* relies on.  A tuple is a sequence of values and its first field is the  *)
(* primary key.                                                            *)
(***************************************************************************)
EXTENDS Integers, Sequences, SequencesExt, Bitwise

\* A value: what it is, its content, and the elements of an array.
Val(is, content) == [is |-> is, v |-> content, of |-> <<>>]
Num(n) == Val("num", <<n>>)
Text(letters) == Val("text", letters)
Tup(values) == [is |-> "array", v |-> <<>>, of |-> values]
Nil == Val("nil", <<>>)

Effect(rs, code, data) == [rows |-> rs, code |-> code, data |-> data]
Failure(rs, code) == Effect(rs, code, <<>>)

\* The position of the field that ref names in a tuple of len fields, for
\* numbers that count from base; 0 for none.  A new field ("!") may go behind
\* the last.
Position(len, ref, base, new) ==
  CASE ref.path \/ ref.n >= base -> IF ref.path THEN ref.n ELSE ref.n - base + 1
    [] ~ref.path /\ ref.n < 0 /\ len + ref.n + 1 + new > 0 -> len + ref.n + 1 + new
    [] OTHER -> 0

\* ":": cut len letters at offset, counted from base, and put the others there.
Splice(text, offset, cut, base, letters) ==
  LET from == IF offset >= base THEN offset - base ELSE Len(text) + offset + 1
      start == IF from > Len(text) THEN Len(text) ELSE from
  IN IF from < 0 \/ (offset >= 0 /\ offset < base) THEN {}
     ELSE {SubSeq(text, 1, start) \o letters \o SubSeq(text, start + cut + 1, Len(text))}

Arithmetic(op, x, y) == CASE op = "+" -> x + y
                          [] op = "-" -> x - y
                          [] op = "&" -> x & y
                          [] op = "|" -> x | y
                          [] op = "^" -> x ^^ y

\* The tuple after o at position p; nothing if it cannot be applied.
ApplyAt(t, o, p, base) ==
  CASE o.op = "=" /\ p \in 1 .. Len(t) -> {[t EXCEPT ![p] = o.arg]}
    [] o.op = "=" /\ p = Len(t) + 1 -> {Append(t, o.arg)}
    [] o.op = "!" /\ p \in 1 .. Len(t) + 1 -> {InsertAt(t, p, o.arg)}
    [] o.op = "#" /\ p \in 1 .. Len(t) /\ o.arg.v[1] > 0 ->
         {SubSeq(t, 1, p - 1) \o SubSeq(t, p + o.arg.v[1], Len(t))}
    [] o.op = ":" /\ p \in 1 .. Len(t) /\ t[p].is = "text" ->
         {[t EXCEPT ![p] = Text(s)] : s \in Splice(t[p].v, o.offset, o.len, base, o.arg.v)}
    [] /\ o.op \in {"+", "-", "&", "|", "^"}
       /\ p \in 1 .. Len(t) /\ t[p].is = "num" /\ o.arg.is = "num"
       /\ o.op \in {"+", "-"} \/ t[p].v[1] >= 0 ->
         {[t EXCEPT ![p] = Num(Arithmetic(o.op, t[p].v[1], o.arg.v[1]))]}
    [] OTHER -> {}
Apply(t, o, base) == ApplyAt(t, o, Position(Len(t), o.field, base, IF o.op = "!" THEN 1 ELSE 0), base)

SameKey(t, u) == u # <<>> /\ t[1] = u[1]

\* update: all operations in order, or none; the primary key stays.
Updated(t, ops, base) ==
  {u \in FoldLeft(LAMBDA ts, o : UNION {Apply(x, o, base) : x \in ts}, {t}, ops) : SameKey(t, u)}

\* upsert: operations that cannot be applied are skipped, and the primary key stays.
Upserted(t, ops, base) ==
  LET u == FoldLeft(LAMBDA x, o : IF Apply(x, o, base) = {} THEN x
                                  ELSE CHOOSE y \in Apply(x, o, base) : TRUE, t, ops)
  IN IF SameKey(t, u) THEN u ELSE t

ValidTuple(t) == t # <<>> /\ t[1].is = "num"
Matching(rs, k) == {t \in rs : t[1] = k[1]}
IsFullKey(k) == Len(k) = 1 /\ k[1].is = "num"

\* INSERT of a sequence of tuples (TUPLE_FOUND, FIELD_TYPE), REPLACE, DELETE,
\* UPDATE, UPSERT (ILLEGAL_PARAMS for a key that is not the primary key).
InsertRows(rs, ts) ==
  IF \E i \in DOMAIN ts : ~ValidTuple(ts[i]) THEN Failure(rs, 23)
  ELSE IF \E i \in DOMAIN ts : Matching(rs, ts[i]) # {} \/ \E j \in 1 .. i - 1 : ts[j][1] = ts[i][1]
  THEN Failure(rs, 3)
  ELSE Effect(rs \cup {ts[i] : i \in DOMAIN ts}, 0, ts)
ReplaceRow(rs, t) ==
  IF ValidTuple(t) THEN Effect((rs \ Matching(rs, t)) \cup {t}, 0, <<t>>) ELSE Failure(rs, 23)
RemoveRow(rs, k) ==
  IF IsFullKey(k) THEN Effect(rs \ Matching(rs, k), 0, SetToSeq(Matching(rs, k))) ELSE Failure(rs, 1)
UpdateRow(rs, k, ops, base) ==
  LET new == UNION {Updated(t, ops, base) : t \in Matching(rs, k)}
  IN IF ~IsFullKey(k) THEN Failure(rs, 1)
     ELSE IF Matching(rs, k) # {} /\ new = {} THEN Failure(rs, 37)
     ELSE Effect((rs \ Matching(rs, k)) \cup new, 0, SetToSeq(new))
UpsertRow(rs, t, ops, base) ==
  IF ~ValidTuple(t) THEN Failure(rs, 23)
  ELSE IF \E i \in DOMAIN ops : ~ops[i].field.path /\ ops[i].field.n \in 0 .. base - 1 THEN Failure(rs, 37)
  ELSE IF Matching(rs, t) = {} THEN Effect(rs \cup {t}, 0, <<>>)
  ELSE Effect((rs \ Matching(rs, t)) \cup {Upserted(u, ops, base) : u \in Matching(rs, t)}, 0, <<>>)

\* SELECT over the tree index: an iterator is a relation to the key and an
\* order.  The empty key stands for every key, except with Eq and Req, which do
\* not take it (EXACT_MATCH).
Related(n, k, iter) == CASE iter \in {"Eq", "Req"} -> n = k
                         [] iter = "All" -> TRUE
                         [] iter = "Lt" -> n < k
                         [] iter = "Le" -> n <= k
                         [] iter = "Ge" -> n >= k
                         [] iter = "Gt" -> n > k
Ordered(ts, desc) ==
  SetToSortSeq(ts, LAMBDA t, u : IF desc THEN t[1].v[1] > u[1].v[1] ELSE t[1].v[1] < u[1].v[1])
Scan(rs, k, index, iter, limit, offset) ==
  LET found == {t \in rs : k = <<>> \/ Related(t[1].v[1], k[1].v[1], iter)}
      all == Ordered(found, iter \in {"Req", "Lt", "Le"})
      last == IF limit < 0 \/ offset + limit > Len(all) THEN Len(all) ELSE offset + limit
  IN IF index \notin {"", "primary"} THEN Failure(rs, 35)
     ELSE IF iter \notin {"Eq", "Req", "All", "Lt", "Le", "Ge", "Gt"} THEN Failure(rs, 5)
     ELSE IF k = <<>> /\ iter \in {"Eq", "Req"} THEN Failure(rs, 19)
     ELSE IF k # <<>> /\ ~IsFullKey(k) THEN Failure(rs, 1)
     ELSE Effect(rs, 0, SubSeq(all, offset + 1, last))

\* UPDATE s SET n = :v, with v bound to number n.
SetAll(rs, n) == Effect({[t EXCEPT ![2] = Num(n)] : t \in rs}, 0, <<>>)

\* box.broadcast("k", 7).
Broadcast == <<Num(7)>>

\* A parameter list for :v: the first value, or a map entry with that name.
Bound(bind) == CASE bind[1].is = "num" -> {bind[1].v[1]}
                 [] bind[1].is = "map" /\ bind[1].v[1] = 1 -> {bind[1].v[2]}
                 [] OTHER -> {}

SqlEffect(rs, stmt, bound) ==
  IF stmt = "select" THEN Effect(rs, 0, Ordered(rs, FALSE))
  ELSE IF bound = {} THEN Failure(rs, 159)
  ELSE SetAll(rs, CHOOSE n \in bound : TRUE)

\* Function "echo" returns its arguments, the others raise an error (PROC_LUA).
CallEffect(rs, fn, args) == IF fn = "echo" THEN Effect(rs, 0, <<args>>) ELSE Failure(rs, 32)
=============================================================================
