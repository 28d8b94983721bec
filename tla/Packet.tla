------------------------------- MODULE Packet -------------------------------
(***************************************************************************)
(* The layout of a packet (src/src/codec.rs) over raw MessagePack          *)
(* (src/src/msgpack.rs): Request writes a header map and a body map,       *)
(* Response::parse walks both with MapCursor, which rests on value_len,    *)
(* and remembers where each value lies.  A packet is a sequence of bytes;  *)
(* the walk is one action per call of MapCursor::next.  A cut packet is    *)
(* what a broken peer would send: the walk must end in an error, never     *)
(* outside the buffer.  A value carries, beside its bytes, what it is      *)
(* meant to be: an unsigned integer n ("uint"), UTF-8 text ("text"), an    *)
(* error stack ("stack") or anything else; only the properties look there. *)
(***************************************************************************)
EXTENDS Integers, Sequences, SequencesExt, Utf8

CONSTANTS
  Types,      \* request types written in the header
  Syncs,      \* syncs written in the header
  StreamIds,  \* stream ids, 0 for none
  Heads,      \* headers that no Request writes, as sequences of entries
  Bodies      \* bodies: sequences of entries <<key, [is, n, bytes]>>

\* What the constants have to be.
PacketDomain == /\ Types \subseteq Nat
                /\ Syncs \subseteq Nat
                /\ StreamIds \subseteq Nat

VARIABLES
  made,       \* what the packet was made of: the entries of its two maps
  packet,     \* its bytes, possibly cut short
  phase,      \* "start", "header", "body", "ok" or "error"
  base,       \* offset of the map being walked
  pos,        \* MapCursor.pos, from base
  remaining,  \* MapCursor.remaining
  total,      \* value_len of that map
  fields,     \* what the header said: fields[key], -1 for None
  ranges      \* ranges[key]: where the value lies, for body keys seen so far

vars == <<made, packet, phase, base, pos, remaining, total, fields, ranges>>

REQUEST_TYPE == 0
SYNC == 1
SCHEMA_VERSION == 5
STREAM_ID == 10
OK == 0
CHUNK == 128
EVENT == 76
ERROR_FLAG == 32768

\* The keys parse looks at in the header; in the body as text, as an unsigned
\* integer, and as they are: DATA, METADATA, BIND_METADATA, SQL_INFO, ERROR and
\* EVENT_DATA.
HeaderKeys == {REQUEST_TYPE, SYNC, SCHEMA_VERSION}
ERROR == 82
TextKeys == {49, 53, 87}
UintKeys == {52, 67}
BodyKeys == TextKeys \cup UintKeys \cup {48, 50, 51, 66, ERROR, 88}

\* error_key::STACK.
STACK == 0

-----------------------------------------------------------------------------
(* Writing *)

Byte(n, i) == (n \div (256 ^ i)) % 256

\* rmp::encode::write_uint: the shortest form.
PutUint(n) == CASE n < 128 -> <<n>>
                [] n >= 128 /\ n < 256 -> <<204, n>>
                [] n >= 256 /\ n < 65536 -> <<205, Byte(n, 1), Byte(n, 0)>>
                [] OTHER -> <<206, Byte(n, 3), Byte(n, 2), Byte(n, 1), Byte(n, 0)>>

\* rmp::encode::write_map_len.
PutMapLen(n) == IF n < 16 THEN <<128 + n>> ELSE <<222, Byte(n, 1), Byte(n, 0)>>

\* Request::new: the entries of the header.
Uint(n) == [is |-> "uint", n |-> n, bytes |-> PutUint(n)]
RequestHead(type, sync, stream) ==
  <<<<REQUEST_TYPE, Uint(type)>>, <<SYNC, Uint(sync)>>>>
    \o (IF stream = 0 THEN <<>> ELSE <<<<STREAM_ID, Uint(stream)>>>>)

\* Request::key with the value writers, and Request::finish, which counts the
\* entries.
PutMap(entries) ==
  PutMapLen(Len(entries))
    \o FlattenSeq([i \in 1 .. Len(entries) |-> PutUint(entries[i][1]) \o entries[i][2].bytes])

Made == [head : {RequestHead(t, s, i) : t \in Types, s \in Syncs, i \in StreamIds} \cup Heads,
         body : Bodies]
Whole(m) == PutMap(m.head) \o PutMap(m.body)

-----------------------------------------------------------------------------
(* Measuring: offsets count from 0, -1 is an error *)

At(buf, p) == buf[p + 1]

\* read_len.
ReadLen(buf, p, width) ==
  IF p + width > Len(buf)
  THEN -1
  ELSE FoldLeft(LAMBDA n, b : n * 256 + b, 0, SubSeq(buf, p + 1, p + width))

\* length_prefix_width.
LengthPrefixWidth(marker) ==
  CASE marker \in {196, 199, 217} -> 1
    [] marker \in {197, 200, 218, 220, 222} -> 2
    [] marker \in {198, 201, 219, 221, 223} -> 4
    [] OTHER -> 0

\* The match in value_len: the payload and the children of a value with this
\* marker and the length n behind it.
Shape(marker, n) ==
  LET counted(payload, children) ==
        [payload |-> IF n < 0 THEN -1 ELSE payload, children |-> IF n < 0 THEN 0 ELSE children]
  IN CASE marker \in 128 .. 143 -> [payload |-> 0, children |-> 2 * (marker % 16)]
       [] marker \in 144 .. 159 -> [payload |-> 0, children |-> marker % 16]
       [] marker \in 160 .. 191 -> [payload |-> marker % 32, children |-> 0]
       [] marker = 193 -> [payload |-> -1, children |-> 0]
       [] marker \in {196, 197, 198, 217, 218, 219} -> counted(n, 0)
       [] marker \in {199, 200, 201} -> counted(1 + n, 0)
       [] marker \in {220, 221} -> counted(0, n)
       [] marker \in {222, 223} -> counted(0, 2 * n)
       [] marker \in {204, 208} -> [payload |-> 1, children |-> 0]
       [] marker \in {205, 209, 212} -> [payload |-> 2, children |-> 0]
       [] marker = 213 -> [payload |-> 3, children |-> 0]
       [] marker \in {202, 206, 210} -> [payload |-> 4, children |-> 0]
       [] marker = 214 -> [payload |-> 5, children |-> 0]
       [] marker \in {203, 207, 211} -> [payload |-> 8, children |-> 0]
       [] marker = 215 -> [payload |-> 9, children |-> 0]
       [] marker = 216 -> [payload |-> 17, children |-> 0]
       [] OTHER -> [payload |-> 0, children |-> 0]

\* value_len: the loop over the values still to consume.
ValueLen(buf) ==
  LET walk[p \in Nat, left \in Nat] ==
        IF left = 0 THEN p
        ELSE IF p >= Len(buf) THEN -1
        ELSE LET width == LengthPrefixWidth(At(buf, p))
                 shape == Shape(At(buf, p), ReadLen(buf, p + 1, width))
                 next == p + 1 + width + shape.payload
             IN IF shape.payload < 0 \/ next > Len(buf)
                THEN -1
                ELSE walk[next, left - 1 + shape.children]
  IN walk[0, 1]

\* read_uint of a whole value.
ReadUint(v) ==
  CASE v[1] < 128 -> v[1]
    [] v[1] \in {204, 205, 206, 207} -> ReadLen(v, 1, Len(v) - 1)
    [] v[1] \in {208, 209, 210, 211} /\ v[2] < 128 -> ReadLen(v, 1, Len(v) - 1)
    [] OTHER -> -1

\* read_str of a whole value: a string marker, and UTF-8 behind its length.
ReadsStr(v) ==
  \/ v[1] \in 160 .. 191 /\ IsUtf8(Tail(v))
  \/ v[1] \in {217, 218, 219} /\ IsUtf8(SubSeq(v, 2 + LengthPrefixWidth(v[1]), Len(v)))

\* The type of every variable.
TypeOK == /\ made \in Made
          /\ packet \in Seq(0 .. 255)
          /\ phase \in {"start", "header", "body", "ok", "error"}
          /\ base \in Nat
          /\ pos \in Nat
          /\ remaining \in Nat
          /\ total \in Nat
          /\ fields \in [HeaderKeys -> Nat \cup {-1}]
          /\ DOMAIN ranges \subseteq BodyKeys
          /\ \A key \in DOMAIN ranges : ranges[key] \in Nat \X Nat

Init == /\ made \in Made
        /\ \E n \in 0 .. Len(Whole(made)) : packet = SubSeq(Whole(made), 1, n)
        /\ phase = "start"
        /\ base = 0
        /\ pos = 0
        /\ remaining = 0
        /\ total = 0
        /\ fields = [key \in HeaderKeys |-> IF key = SYNC THEN 0 ELSE -1]
        /\ ranges = <<>>

-----------------------------------------------------------------------------
(* Response::parse *)

Rest(offset) == SubSeq(packet, offset + 1, Len(packet))

Fail == /\ phase' = "error"
        /\ UNCHANGED <<made, packet, base, pos, remaining, total, fields, ranges>>

\* MapCursor::new on buf: entries and length of the header, -1 for no map.
MapHead(buf) ==
  LET marker == At(buf, 0)
  IN CASE marker \in 128 .. 143 -> [n |-> marker % 16, size |-> 1]
       [] marker = 222 -> [n |-> ReadLen(buf, 1, 2), size |-> 3]
       [] marker = 223 -> [n |-> ReadLen(buf, 1, 4), size |-> 5]
       [] OTHER -> [n |-> -1, size |-> 0]

Opened(from, next, len, head) ==
  IF len < 0 \/ head.n < 0
  THEN Fail
  ELSE /\ phase' = next
       /\ base' = from
       /\ total' = len
       /\ remaining' = head.n
       /\ pos' = head.size
       /\ UNCHANGED <<made, packet, fields, ranges>>

OpenMap(from, next) ==
  LET buf == Rest(from)
      len == ValueLen(buf)
  IN Opened(from, next, len, IF len < 0 THEN [n |-> -1, size |-> 0] ELSE MapHead(buf))

OpenHeader == phase = "start" /\ OpenMap(0, "header")

\* MapCursor::next on a map that is not exhausted, with buf what is behind the
\* cursor: the key and where the value lies, or nothing if one of them cannot
\* be read.
ValueAt(key, from, valueLen) ==
  IF key < 0 \/ valueLen < 0 THEN {} ELSE {[key |-> key, from |-> from, to |-> from + valueLen]}
KeyAt(buf, keyLen) ==
  IF keyLen < 0
  THEN {}
  ELSE ValueAt(ReadUint(SubSeq(buf, 1, keyLen)), pos + keyLen,
               ValueLen(SubSeq(buf, keyLen + 1, Len(buf))))
EntryAt(buf) == KeyAt(buf, ValueLen(buf))
NextEntry == EntryAt(Rest(base + pos))

\* The cursor moves behind the entry.
Advance(entry) ==
  /\ remaining' = remaining - 1
  /\ pos' = entry.to
  /\ UNCHANGED <<made, packet, phase, base, total>>

\* u8::try_from(k).unwrap_or(u8::MAX), which is no key of either map.
Folded(key) == IF key > 255 THEN 255 ELSE key
Bytes(from, to) == SubSeq(packet, base + from + 1, base + to)

\* read_uint(v)? of the keys parse looks at.
HeaderTyped(key, v) == key \in HeaderKeys => ReadUint(v) >= 0
HeaderField(key, from, to) ==
  /\ fields' = IF key \in HeaderKeys THEN [fields EXCEPT ![key] = ReadUint(Bytes(from, to))] ELSE fields
  /\ UNCHANGED ranges

\* An entry of the header is read and the cursor moves behind it, unless it
\* cannot be read or its value is not of the type its key asks for.
HeaderEntry ==
  LET entries == {e \in NextEntry : HeaderTyped(Folded(e.key), Bytes(e.from, e.to))}
  IN /\ phase = "header"
     /\ remaining > 0
     /\ \/ entries = {} /\ Fail
        \/ \E e \in entries : Advance(e) /\ HeaderField(Folded(e.key), e.from, e.to)

Kind(t) == CASE t = OK -> "Ok"
             [] t = CHUNK -> "Chunk"
             [] t = EVENT -> "Event"
             [] (t \div ERROR_FLAG) % 2 = 1 -> "Error"
             [] OTHER -> "unknown"

\* The header is exhausted: its type decides the kind, and the body follows.
HeaderDone ==
  /\ phase = "header"
  /\ remaining = 0
  /\ IF fields[REQUEST_TYPE] < 0 \/ Kind(fields[REQUEST_TYPE]) = "unknown"
     THEN Fail
     ELSE IF total = Len(packet)
     THEN /\ phase' = "ok"
          /\ UNCHANGED <<made, packet, base, pos, remaining, total, fields, ranges>>
     ELSE OpenMap(total, "body")

\* Mutant: the range is kept relative to the value's key.
BodyRange_Unshifted(key, from, to) ==
  /\ ranges' = IF key \in BodyKeys
               THEN (key :> <<base + pos, base + to - (from - pos)>>) @@ ranges ELSE ranges
  /\ UNCHANGED fields

\* read_str(v)? and read_uint(v)?.
BodyTyped(key, v) == /\ key \in TextKeys => ReadsStr(v)
                     /\ key \in UintKeys => ReadUint(v) >= 0

\* parse remembers where the value of a key lies, the last one of several.
BodyRange(key, from, to) ==
  /\ ranges' = IF key \in BodyKeys THEN (key :> <<base + from, base + to>>) @@ ranges ELSE ranges
  /\ UNCHANGED fields

\* An entry of the body, likewise.
BodyEntry ==
  LET entries == {e \in NextEntry : BodyTyped(Folded(e.key), Bytes(e.from, e.to))}
  IN /\ phase = "body"
     /\ remaining > 0
     /\ \/ entries = {} /\ Fail
        \/ \E e \in entries : Advance(e) /\ BodyRange(Folded(e.key), e.from, e.to)

\* The n values that lie behind offset p of buf.
Values(buf, p, n) ==
  LET list[from \in Nat, left \in Nat] ==
        IF left = 0 THEN <<>>
        ELSE LET to == from + ValueLen(SubSeq(buf, from + 1, Len(buf)))
             IN <<SubSeq(buf, from + 1, to)>> \o list[to, left - 1]
  IN list[p, n]

\* What as_array takes: elements and length of the header, -1 for no array.
ArrayHead(buf) ==
  LET marker == At(buf, 0)
  IN CASE marker \in 144 .. 159 -> [n |-> marker % 16, size |-> 1]
       [] marker = 220 -> [n |-> ReadLen(buf, 1, 2), size |-> 3]
       [] marker = 221 -> [n |-> ReadLen(buf, 1, 4), size |-> 5]
       [] OTHER -> [n |-> -1, size |-> 0]

\* decode_error_frame and decode_error_map give an error of their own unless the
\* value is a map whose first entry under STACK is an array of maps.
FramesDecode(stack) ==
  /\ ArrayHead(stack).n >= 0
  /\ \A frame \in Range(Values(stack, ArrayHead(stack).size, ArrayHead(stack).n)) : MapHead(frame).n >= 0
ErrorDecodes(v) ==
  LET entries == Values(v, MapHead(v).size, 2 * MapHead(v).n)
      stacks == {i \in 1 .. MapHead(v).n : ReadUint(entries[2 * i - 1]) = STACK}
  IN MapHead(v).n >= 0 /\ stacks # {} /\ FramesDecode(entries[2 * Min(stacks)])

\* The body is exhausted: an error reply decodes its stack, if it has one.
BodyDone ==
  /\ phase = "body"
  /\ remaining = 0
  /\ IF /\ Kind(fields[REQUEST_TYPE]) = "Error"
        /\ ERROR \in DOMAIN ranges
        /\ ~ ErrorDecodes(SubSeq(packet, ranges[ERROR][1] + 1, ranges[ERROR][2]))
     THEN Fail
     ELSE /\ phase' = "ok"
          /\ UNCHANGED <<made, packet, base, pos, remaining, total, fields, ranges>>

Next == OpenHeader \/ HeaderEntry \/ HeaderDone \/ BodyEntry \/ BodyDone

Spec == Init /\ [][Next]_vars

-----------------------------------------------------------------------------
(* Properties *)

Complete == packet = Whole(made)

\* The values written under a key, and the last of them.
Under(entries, key) == {i \in DOMAIN entries : Folded(entries[i][1]) = key}
LastUnder(entries, key) == entries[Max(Under(entries, key))][2]

\* Every entry is what its key asks for, as whoever wrote it meant it.
HeadProper(head) ==
  /\ Under(head, REQUEST_TYPE) # {}
  /\ \A key \in HeaderKeys : \A i \in Under(head, key) : head[i][2].is = "uint"
  /\ Kind(LastUnder(head, REQUEST_TYPE).n) # "unknown"
BodyProper(m) ==
  /\ \A key \in TextKeys : \A i \in Under(m.body, key) : m.body[i][2].is = "text"
  /\ \A key \in UintKeys : \A i \in Under(m.body, key) : m.body[i][2].is = "uint"
  /\ Kind(LastUnder(m.head, REQUEST_TYPE).n) = "Error" /\ Under(m.body, ERROR) # {} =>
       LastUnder(m.body, ERROR).is = "stack"

\* A whole packet is parsed into what it was made of: the type, the sync, and for
\* every key of the body exactly the bytes last written under it.  It is refused
\* exactly when its type is missing or unknown, a value is not what its key asks
\* for, or an error reply's stack is none.
ParsesWhatWasMade ==
  (phase \in {"ok", "error"} /\ Complete) =>
    IF HeadProper(made.head) /\ BodyProper(made)
    THEN /\ phase = "ok"
         /\ \A key \in HeaderKeys :
              fields[key] = IF Under(made.head, key) # {} THEN LastUnder(made.head, key).n
                            ELSE IF key = SYNC THEN 0 ELSE -1
         /\ DOMAIN ranges = {key \in BodyKeys : Under(made.body, key) # {}}
         /\ \A key \in DOMAIN ranges :
              SubSeq(packet, ranges[key][1] + 1, ranges[key][2]) = LastUnder(made.body, key).bytes
    ELSE phase = "error"

\* A packet cut anywhere but between its two maps is refused.
CutIsRefused ==
  (phase = "ok" /\ ~Complete) => (packet = PutMap(made.head) /\ DOMAIN ranges = {})

\* The cursor never leaves the map value_len measured, and it is at its end
\* when the entries are exhausted: no slice of parse is out of bounds.
CursorInMap ==
  phase \in {"header", "body"} =>
    /\ pos <= total
    /\ base + total <= Len(packet)
    /\ remaining = 0 => pos = total
=============================================================================
