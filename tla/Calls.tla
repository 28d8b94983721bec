------------------------------- MODULE Calls -------------------------------
(***************************************************************************)
(* One typed call through Client, Space, Select, Stream::begin or SQL      *)
(* (src/src/client.rs, src/src/sql.rs): its arguments are encoded          *)
(* (src/src/tuple.rs, src/src/update.rs, src/src/types/ext.rs), the packet *)
(* goes to a server that applies it to a space, and the reply is decoded   *)
(* as the type the caller asked for, or lost with the link.  What a call   *)
(* does to the space is written twice: by the server, from the packet, and *)
(* by Meaning, from the call as its documentation reads.                   *)
(*                                                                         *)
(* An encoder yields a set: the one encoding, or nothing on an error.      *)
(***************************************************************************)
EXTENDS SpaceEffects, FiniteSets

CONSTANTS
  Starts,      \* [rows, features]: what the space holds, and the Feature codes that
               \* the handshake negotiated
  Ops,         \* operations the application adds to an Update
  MaxOps,      \* bound: operations of one Update
  KeyArgs,     \* keys and argument lists: what implements Key and Args
  TupleArgs,   \* values passed as a tuple
  SelectArgs,  \* [index, iter, limit, offset] of a Select
  Batches,     \* sequences of tuples an Arrow stream may hold
  Params,      \* parameters of a statement
  TxOptions,   \* what begin may be given: [isolation, timeout, synchronous], 0 for no
               \* timeout
  I32Max       \* i32::MAX

\* What the constants have to be.
CallBounds == /\ MaxOps \in Nat
              /\ I32Max \in Nat
              /\ \A s \in Starts : s.features \subseteq 0 .. 12

VARIABLES
  rows,        \* the tuples of the space
  txn,         \* the server's transaction: its options, or NoTxn
  features,    \* Negotiated.features, by code
  upd,         \* the Update being built: its ops, and which one failed first
  asked,       \* history: the operations the application asked for
  syncs,       \* Shared.next_sync
  phase,       \* "build", "sent", "answered" or "done"
  call,        \* the call made
  msg,         \* the packet or the reply on its way
  outcome,     \* what the call returned: [is, code, value, count]
  before       \* history: the space when the call was made

vars == <<rows, txn, features, upd, asked, syncs, phase, call, msg, outcome, before>>

\* The type of a row of the typed Space<T>.
RowType == <<"num", "num", "text">>

NoTxn == [isolation |-> -1, timeout |-> 0, is_sync |-> FALSE]
Made(m, key, tuple, with) == [m |-> m, key |-> key, tuple |-> tuple, with |-> with]
NoCall == Made("none", Nil, Nil, "")
Outcome(is, code, value, count) == [is |-> is, code |-> code, value |-> value, count |-> count]
Pending == Outcome("none", 0, <<>>, 0)

\* The type of every variable.
TypeOK == /\ \A t \in rows : \A i \in DOMAIN t : t[i] \in [is : STRING, v : Seq(Int), of : {<<>>}]
          /\ txn \in [isolation : -1 .. 3, timeout : Nat, is_sync : BOOLEAN]
          /\ features \subseteq 0 .. 12
          /\ Len(upd.ops) <= MaxOps /\ upd.error \in 0 .. MaxOps
          /\ asked \in Seq(Ops)
          /\ syncs \in Nat
          /\ phase \in {"build", "sent", "answered", "done"}
          /\ outcome.is \in {"none", "Ok", "Encode", "Unsupported", "Server", "Decode", "Closed", "Timeout"}

Init == /\ \E s \in Starts : rows = s.rows /\ features = s.features
        /\ txn = NoTxn
        /\ upd = [ops |-> <<>>, error |-> 0]
        /\ asked = <<>>
        /\ syncs = 1
        /\ phase = "build"
        /\ call = NoCall
        /\ msg = <<>>
        /\ outcome = Pending
        /\ before = rows

-----------------------------------------------------------------------------
(* Encoding *)

\* Feature::code of what calls ask for.
Transactions == 1
WatchOnce == 6
IsSync == 11
InsertArrow == 12

\* The extension tags.
ExtTag == [decimal |-> 1, uuid |-> 2, datetime |-> 4, interval |-> 6]

\* Named: a name without a sigil (0) gets a colon (1); "@" (2) and "$" (3) stay.
NamedSigil(sigil) == IF sigil = 0 THEN 1 ELSE sigil

\* A value on the wire: an extension type is its tag and payload, a named
\* parameter a map of one entry.
Wire(x) == CASE x.is \in DOMAIN ExtTag -> Val("ext", <<ExtTag[x.is]>> \o x.v)
             [] x.is = "named" -> Val("map", <<NamedSigil(x.v[1]), x.v[2]>>)
             [] OTHER -> x

\* to_msgpack: a scalar, or an array or a map of them.  "bad" does not serialise.
Serializable(x) == x.is # "bad" /\ \A i \in DOMAIN x.of : x.of[i].is # "bad"
ToMsgpack(x) ==
  IF ~ Serializable(x) THEN {}
  ELSE {IF x.is = "array" THEN Tup([i \in DOMAIN x.of |-> Wire(x.of[i])]) ELSE Wire(x)}

\* Request::serialized, to_msgpack_array: only an array will do.
SerializedArray(x) == {w \in ToMsgpack(x) : w.is = "array"}

\* ArrayLike::encode: unit is no element, an array is itself, a scalar is wrapped.
EncodeArray(x) == CASE x.is = "unit" -> {Tup(<<>>)}
                    [] x.is = "array" -> ToMsgpack(x)
                    [] OTHER -> {Tup(<<w>>) : w \in ToMsgpack(x)}

\* The From impls of FieldRef: a u32 saturates at i32::MAX.  A path is the field
\* it names.
FieldRef(f) == [path |-> f.from = "str", n |-> IF f.from = "u32" /\ f.n > I32Max THEN I32Max ELSE f.n]

\* Update::set, add, sub, bit_and, bit_or, bit_xor, insert, delete, splice: the
\* operation as a tuple.
OpTuple(o) == {[o EXCEPT !.field = FieldRef(o.field), !.arg = w] : w \in ToMsgpack(o.arg)}

\* Mutant: an operation that does not serialise is left out.
Pushed_Drops(o) == [upd EXCEPT !.ops = @ \o SetToSeq(OpTuple(o))]

\* Update::push: encode now, and keep the first error for the request.
Pushed(o) ==
  IF OpTuple(o) = {}
  THEN [upd EXCEPT !.error = IF @ = 0 THEN Len(asked) + 1 ELSE @]
  ELSE [upd EXCEPT !.ops = @ \o SetToSeq(OpTuple(o))]

\* (On an empty space every update does the same.)
Push(o) ==
  /\ phase = "build"
  /\ rows # {}
  /\ Len(asked) < MaxOps
  /\ upd' = Pushed(o)
  /\ asked' = Append(asked, o)
  /\ UNCHANGED <<rows, txn, features, syncs, phase, call, msg, outcome, before>>

\* Update::into_ops.
IntoOps == IF upd.error = 0 THEN {upd.ops} ELSE {}

-----------------------------------------------------------------------------
(* Making a call *)

\* The call ends with an outcome before anything was sent.
Refused(c, is) ==
  /\ phase' = "done"
  /\ call' = c
  /\ outcome' = Outcome(is, 0, <<>>, 0)
  /\ UNCHANGED <<rows, txn, features, upd, asked, msg, before>>

\* Take a sync, build the body, hand the packet to the connection.
Request(c, type, bodies) ==
  /\ phase = "build"
  /\ syncs' = syncs + 1
  /\ IF bodies = {}
     THEN Refused(c, "Encode")
     ELSE /\ \E body \in bodies : msg' = [type |-> type, body |-> body]
          /\ phase' = "sent"
          /\ call' = c
          /\ UNCHANGED <<rows, txn, features, upd, asked, outcome, before>>

\* The handle does not have the feature: nothing is built.
Gated(c, missing) == phase = "build" /\ missing /\ Refused(c, "Unsupported") /\ UNCHANGED syncs

\* Space::insert, Space::replace.
Write(m, t) ==
  Request(Made(m, Nil, t, ""), IF m = "insert" THEN "INSERT" ELSE "REPLACE",
          {[SPACE_NAME |-> "s", TUPLE |-> w] : w \in SerializedArray(t)})

\* Space::insert_arrow.
InsertArrowRows(batch) ==
  LET c == Made("insert_arrow", Nil, Nil, batch)
  IN \/ Gated(c, InsertArrow \notin features)
     \/ /\ InsertArrow \in features
        /\ Request(c, "INSERT_ARROW", {[SPACE_NAME |-> "s", ARROW |-> batch]})

\* Space::delete.
Delete(key) ==
  Request(Made("delete", key, Nil, ""), "DELETE",
          {[SPACE_NAME |-> "s", INDEX_ID |-> 0, KEY |-> k] : k \in EncodeArray(key)})

\* Space::update.
Update(key) ==
  Request(Made("update", key, Nil, ""), "UPDATE",
          {[SPACE_NAME |-> "s", INDEX_ID |-> 0, INDEX_BASE |-> 1, KEY |-> k, TUPLE |-> ops] :
             k \in EncodeArray(key), ops \in IntoOps})

\* Space::upsert.
Upsert(t) ==
  Request(Made("upsert", Nil, t, ""), "UPSERT",
          {[SPACE_NAME |-> "s", INDEX_BASE |-> 1, TUPLE |-> w, OPS |-> ops] :
             w \in SerializedArray(t), ops \in IntoOps})

\* Iter::code.
IterCode == [Eq |-> 0, Req |-> 1, All |-> 2, Lt |-> 3, Le |-> 4, Ge |-> 5, Gt |-> 6, BitsAllSet |-> 7,
             BitsAnySet |-> 8, BitsAllNotSet |-> 9, Overlaps |-> 10, Neighbor |-> 11]

\* Select::build: a key that does not encode fails before a sync is taken.  An
\* offset of 0 is left out, no limit is u32::MAX (-1 here).
SelectBody(k, args) ==
  [key \in {"SPACE_NAME", "ITERATOR", "LIMIT", "KEY", IF args.index = "" THEN "INDEX_ID" ELSE "INDEX_NAME"}
             \cup (IF args.offset > 0 THEN {"OFFSET"} ELSE {}) |->
     CASE key = "SPACE_NAME" -> "s" [] key = "ITERATOR" -> IterCode[args.iter]
       [] key = "LIMIT" -> args.limit [] key = "KEY" -> k [] key = "INDEX_ID" -> 0
       [] key = "INDEX_NAME" -> args.index [] key = "OFFSET" -> args.offset]

Build(c, key, args) ==
  \/ /\ phase = "build"
     /\ EncodeArray(key) = {}
     /\ Refused(c, "Encode")
     /\ UNCHANGED syncs
  \/ /\ EncodeArray(key) # {}
     /\ Request(c, "SELECT", {SelectBody(k, args) : k \in EncodeArray(key)})

\* Space::select or Index::select, with Select::iterator, limit and offset.
Select(key, args) == Build(Made("select", key, Nil, args), key, args)

\* Space::get: a select of at most one.
GetArgs == [index |-> "", iter |-> "Eq", limit |-> 1, offset |-> 0]
Get(key) == Build(Made("get", key, Nil, ""), key, GetArgs)

\* Client::call and Client::eval, on a stream or not; with names the
\* function and the type R of the result.
Invoke(m, with, args) ==
  Request(Made(m, args, Nil, with), IF m = "call" THEN "CALL" ELSE "EVAL",
          {IF m = "call" THEN [FUNCTION_NAME |-> with.fn, TUPLE |-> a] ELSE [EXPR |-> with.fn, TUPLE |-> a] :
             a \in EncodeArray(args)})

\* run_text, for Client::query and Client::execute.
RunText(m, stmt, params) ==
  Request(Made(m, params, Nil, stmt), "EXECUTE",
          {[SQL_TEXT |-> stmt, SQL_BIND |-> b] : b \in EncodeArray(params)})

\* Client::ping.
Ping == Request(Made("ping", Nil, Nil, ""), "PING", {<<>>})

\* Client::watch_once.
WatchKeyOnce ==
  LET c == Made("watch_once", Nil, Nil, "")
  IN \/ Gated(c, WatchOnce \notin features)
     \/ WatchOnce \in features /\ Request(c, "WATCH_ONCE", {[EVENT_KEY |-> "k"]})

\* Isolation::code.
IsolationCode == [Default |-> 0, ReadCommitted |-> 1, ReadConfirmed |-> 2, BestEffort |-> 3]

\* The body of BEGIN: only what differs from the default is written.
BeginBody(o) ==
  [key \in (IF o.isolation # "Default" THEN {"TXN_ISOLATION"} ELSE {})
             \cup (IF o.timeout > 0 THEN {"TIMEOUT"} ELSE {})
             \cup (IF o.synchronous THEN {"IS_SYNC"} ELSE {}) |->
     CASE key = "TXN_ISOLATION" -> IsolationCode[o.isolation] [] key = "TIMEOUT" -> o.timeout
       [] key = "IS_SYNC" -> TRUE]

\* Stream::begin with TxOptions.
Begin(o) ==
  LET c == Made("begin", Nil, Nil, o)
      missing == Transactions \notin features \/ (o.synchronous /\ IsSync \notin features)
  IN Gated(c, missing) \/ (~missing /\ Request(c, "BEGIN", {BeginBody(o)}))

-----------------------------------------------------------------------------
(* The server *)

\* The server's numbers for iterators.
IterOf(code) == <<"Eq", "Req", "All", "Lt", "Le", "Ge", "Gt", "BitsAllSet", "BitsAnySet",
                  "BitsAllNotSet", "Overlaps", "Neighbor">>[code + 1]

Entry(body, key, default) == IF key \in DOMAIN body THEN body[key] ELSE default

\* What a packet does.
Served(type, body) ==
  CASE type = "INSERT" -> InsertRows(rows, <<body.TUPLE.of>>)
    [] type = "INSERT_ARROW" -> InsertRows(rows, body.ARROW)
    [] type = "REPLACE" -> ReplaceRow(rows, body.TUPLE.of)
    [] type = "DELETE" -> RemoveRow(rows, body.KEY.of)
    [] type = "UPDATE" -> UpdateRow(rows, body.KEY.of, body.TUPLE, Entry(body, "INDEX_BASE", 0))
    [] type = "UPSERT" -> UpsertRow(rows, body.TUPLE.of, body.OPS, Entry(body, "INDEX_BASE", 0))
    [] type = "SELECT" -> Scan(rows, body.KEY.of, Entry(body, "INDEX_NAME", ""), IterOf(body.ITERATOR),
                               body.LIMIT, Entry(body, "OFFSET", 0))
    [] type \in {"CALL", "EVAL"} ->
         CallEffect(rows, Entry(body, "FUNCTION_NAME", Entry(body, "EXPR", "")), body.TUPLE.of)
    [] type = "EXECUTE" -> SqlEffect(rows, body.SQL_TEXT, Bound(body.SQL_BIND.of))
    [] type = "WATCH_ONCE" -> Effect(rows, 0, <<Broadcast>>)
    [] type \in {"PING", "BEGIN"} -> Effect(rows, 0, <<>>)

\* The entries of a reply's body.
ReplyBody(type, body, e) ==
  CASE e.code # 0 \/ type \in {"PING", "BEGIN"} -> <<>>
    [] type = "EXECUTE" /\ body.SQL_TEXT # "select" -> [SQL_INFO |-> Cardinality(e.rows)]
    [] OTHER -> [DATA |-> e.data]

Reply(type, body, e) ==
  /\ rows' = e.rows
  /\ msg' = [code |-> e.code, body |-> ReplyBody(type, body, e)]

\* The server runs the packet, also when nobody waits for it any more.
ServerAnswers ==
  /\ phase = "sent"
  /\ phase' = IF outcome = Pending THEN "answered" ELSE "done"
  /\ Reply(msg.type, msg.body, Served(msg.type, msg.body))
  /\ txn' = IF msg.type = "BEGIN"
            THEN [isolation |-> Entry(msg.body, "TXN_ISOLATION", 0), timeout |-> Entry(msg.body, "TIMEOUT", 0),
                  is_sync |-> Entry(msg.body, "IS_SYNC", FALSE)]
            ELSE txn
  /\ UNCHANGED <<features, upd, asked, syncs, call, outcome, before>>

-----------------------------------------------------------------------------
(* Returning *)

\* Deserialising w as a value of this kind; deserialize_tagged wants the tag.
FromWire(w, kind) ==
  IF kind \in DOMAIN ExtTag
  THEN IF w.is = "ext" /\ w.v[1] = ExtTag[kind] THEN {Val(kind, Tail(w.v))} ELSE {}
  ELSE IF w.is = kind THEN {w} ELSE {}

\* Response::data: rows of this type, all of them or none.
DecodeRow(t, type) ==
  IF Len(t) # Len(type) \/ \E i \in DOMAIN t : FromWire(t[i], type[i]) = {} THEN {}
  ELSE {[i \in DOMAIN t |-> CHOOSE x \in FromWire(t[i], type[i]) : TRUE]}
Data(ts, type) ==
  IF \E i \in DOMAIN ts : DecodeRow(ts[i], type) = {} THEN {}
  ELSE {[i \in DOMAIN ts |-> CHOOSE t \in DecodeRow(ts[i], type) : TRUE]}

Decoded(values) == IF values = {} THEN Outcome("Decode", 0, <<>>, 0)
                   ELSE Outcome("Ok", 0, CHOOSE v \in values : TRUE, 0)

FirstOf(values) == {IF v = <<>> THEN <<>> ELSE <<Head(v)>> : v \in values}

\* The end of each method: rows and its next, data, map(drop), sql::rows, sql::exec.
Returned(c, body) ==
  CASE c.m \in {"insert", "replace", "insert_arrow", "upsert", "ping", "begin"} -> Outcome("Ok", 0, <<>>, 0)
    [] c.m \in {"get", "delete", "update"} -> Decoded(FirstOf(Data(body.DATA, RowType)))
    [] c.m = "select" -> Decoded(Data(body.DATA, RowType))
    [] c.m \in {"call", "eval"} -> Decoded(Data(body.DATA, c.with.want))
    [] c.m = "watch_once" -> Decoded(Data(body.DATA, <<"num">>))
    [] c.m = "query" -> IF "DATA" \in DOMAIN body THEN Decoded(Data(body.DATA, RowType)) ELSE Decoded({})
    [] c.m = "execute" -> Outcome("Ok", 0, <<>>, Entry(body, "SQL_INFO", 0))

\* Handle::request returns the reply, an error reply as Error::Server.
Return ==
  /\ phase = "answered"
  /\ phase' = "done"
  /\ outcome' = IF msg.code # 0 THEN Outcome("Server", msg.code, <<>>, 0)
                ELSE Returned(call, msg.body)
  /\ UNCHANGED <<rows, txn, features, upd, asked, syncs, call, msg, before>>

\* The link is lost or the timeout passes; the packet may reach the server all
\* the same.
GiveUp(is) ==
  /\ phase \in {"sent", "answered"}
  /\ outcome = Pending
  /\ outcome' = Outcome(is, 0, <<>>, 0)
  /\ phase' = IF phase = "sent" THEN "sent" ELSE "done"
  /\ UNCHANGED <<rows, txn, features, upd, asked, syncs, call, msg, before>>

\* Error::is_transient, of the errors a call returns.
IsTransient(o) == o.is \in {"Closed", "Timeout"}

-----------------------------------------------------------------------------

CallOnSpace ==
  \/ \E t \in TupleArgs : Write("insert", t) \/ Write("replace", t)
  \/ \E key \in KeyArgs : Delete(key) \/ Get(key)
  \/ \E key \in KeyArgs, args \in SelectArgs : Select(key, args)
  \/ \E batch \in Batches : InsertArrowRows(batch)

CallOnClient ==
  \/ \E m \in {"call", "eval"}, fn \in {"echo", "fail"}, want \in {<<"num">>, <<"decimal">>, <<"num", "uuid">>},
        args \in KeyArgs : Invoke(m, [fn |-> fn, want |-> want], args)
  \/ \E m \in {"query", "execute"}, stmt \in {"select", "set"}, params \in Params : RunText(m, stmt, params)
  \/ Ping
  \/ WatchKeyOnce
  \/ \E o \in TxOptions : Begin(o)

Next == \/ \E o \in Ops : Push(o)
        \/ \E key \in KeyArgs : Update(key)
        \/ \E t \in TupleArgs : Upsert(t)
        \/ asked = <<>> /\ (CallOnSpace \/ CallOnClient)
        \/ ServerAnswers
        \/ Return
        \/ \E is \in {"Closed", "Timeout"} : GiveUp(is)

Spec == Init /\ [][Next]_vars

-----------------------------------------------------------------------------
(* What was asked for *)

Kinds(t) == [i \in DOMAIN t |-> t[i].is]

\* A key or an argument list, and the operations, as the documentation reads:
\* fields count from 1, and the number is the number.
Meant(x) == IF x.is = "unit" THEN <<>> ELSE IF x.is = "array" THEN x.of ELSE <<x>>
MeantOps == [i \in DOMAIN asked |->
               [asked[i] EXCEPT !.field = [path |-> asked[i].field.from = "str", n |-> asked[i].field.n]]]
MeantParam(x) == IF x.is = "named" THEN (IF x.v[1] \in {0, 1} THEN {x.v[2]} ELSE {})
                 ELSE IF x.is = "num" THEN {x.v[1]} ELSE {}

Meaning(c) ==
  CASE c.m = "insert" -> InsertRows(before, <<c.tuple.of>>)
    [] c.m = "insert_arrow" -> InsertRows(before, c.with)
    [] c.m = "replace" -> ReplaceRow(before, c.tuple.of)
    [] c.m = "delete" -> RemoveRow(before, Meant(c.key))
    [] c.m = "update" -> UpdateRow(before, Meant(c.key), MeantOps, 1)
    [] c.m = "upsert" -> UpsertRow(before, c.tuple.of, MeantOps, 1)
    [] c.m = "get" -> Scan(before, Meant(c.key), "", "Eq", 1, 0)
    [] c.m = "select" -> Scan(before, Meant(c.key), c.with.index, c.with.iter, c.with.limit, c.with.offset)
    [] c.m \in {"call", "eval"} -> CallEffect(before, c.with.fn, Meant(c.key))
    [] c.m \in {"query", "execute"} -> SqlEffect(before, c.with, MeantParam(Meant(c.key)[1]))
    [] c.m = "watch_once" -> Effect(before, 0, <<Broadcast>>)
    [] c.m \in {"ping", "begin"} -> Effect(before, 0, <<>>)

Supported(c) ==
  /\ c.m = "insert_arrow" => InsertArrow \in features
  /\ c.m = "watch_once" => WatchOnce \in features
  /\ c.m = "begin" => Transactions \in features /\ (c.with.synchronous => IsSync \in features)

Encodable(c) ==
  /\ Serializable(c.key) /\ Serializable(c.tuple)
  /\ c.m \in {"insert", "replace", "upsert"} => c.tuple.is = "array"
  /\ c.m \in {"update", "upsert"} => \A i \in DOMAIN asked : Serializable(asked[i].arg)

\* The type the caller wants rows as, and the outcome it should get.
TypeOf(c) == IF c.m \in {"call", "eval"} THEN c.with.want ELSE IF c.m = "watch_once" THEN <<"num">> ELSE RowType

Expected(c, e) ==
  CASE e.code # 0 -> Outcome("Server", e.code, <<>>, 0)
    [] e.code = 0 /\ c.m \in {"insert", "replace", "insert_arrow", "upsert", "ping", "begin"} ->
         Outcome("Ok", 0, <<>>, 0)
    [] e.code = 0 /\ c.m = "execute" ->
         Outcome("Ok", 0, <<>>, IF c.with = "select" THEN 0 ELSE Cardinality(e.rows))
    [] OTHER -> IF (c.m = "query" /\ c.with # "select") \/ \E i \in DOMAIN e.data : Kinds(e.data[i]) # TypeOf(c)
                THEN Outcome("Decode", 0, <<>>, 0)
                ELSE Outcome("Ok", 0, e.data, 0)

NothingDone == rows = before /\ txn = NoTxn

\* The outcome of a call tells what it did.  Unsupported, Encode and Server mean
\* that nothing changed, Encode exactly when some part of the call (an operation
\* of the Update included, even one of several) does not serialise.  Ok means
\* that the call did what its documentation says and returns what it says.
\* Decode means that it was done all the same, and Closed and Timeout, the
\* transient ones, that it was done as a whole or not at all.
OutcomeOf(c) ==
  IF ~Supported(c) THEN outcome.is = "Unsupported" /\ NothingDone
  ELSE IF ~Encodable(c) THEN outcome.is = "Encode" /\ NothingDone
  ELSE LET e == Meaning(c)
       IN /\ ~IsTransient(outcome) => outcome = Expected(c, e) /\ rows = e.rows
          /\ e.code # 0 => NothingDone
          /\ rows \in {before, e.rows}
CallsDoAsAsked == outcome # Pending => OutcomeOf(call)

\* A transaction begun has the options asked for.
TxnAsAsked ==
  outcome.is = "Ok" /\ call.m = "begin" =>
    txn = [isolation |-> IsolationCode[call.with.isolation], timeout |-> call.with.timeout,
           is_sync |-> call.with.synchronous]
=============================================================================
