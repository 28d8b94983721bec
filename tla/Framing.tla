------------------------------ MODULE Framing -------------------------------
(***************************************************************************)
(* Codec (src/src/codec.rs) under Framed: packets with a MessagePack       *)
(* length prefix, read from a byte stream that arrives in pieces of any    *)
(* size and may be cut.  Framed calls decode after every read until it     *)
(* returns None, and reports bytes left over at the end of the stream.     *)
(***************************************************************************)
EXTENDS Naturals, Sequences, SequencesExt

CONSTANTS
  Payload,        \* packets a peer may send, as sequences of bytes
  MaxPackets,     \* bound: packets sent on the stream
  MaxPacketLen    \* MAX_PACKET_LEN, 2 GiB in the code

Byte == 0 .. 255

\* The part of a length above its lowest byte.
High(n) == n \div 256

\* What the constants have to be: the length of a packet fits a u32.
FramingBounds == /\ MaxPackets \in Nat /\ MaxPacketLen \in Nat
                 /\ \A p \in Payload : p \in Seq(Byte) /\ High(High(High(Len(p)))) < 256

VARIABLES
  sent,       \* payloads the peer sent, in order
  arriving,   \* bytes that have not been read yet
  src,        \* the read buffer of Framed
  got,        \* packets decode returned
  state,      \* "open", "eof" (the stream has ended), "ended" or "error"
  cut         \* bytes were lost at the end of the stream

vars == <<sent, arriving, src, got, state, cut>>

-----------------------------------------------------------------------------

\* The prefix of Codec::encode, put_u8 and put_u32.
Prefix32(n) == <<206, High(High(High(n))), High(High(n)) % 256, High(n) % 256, n % 256>>

\* Any width is legal in the other direction.
LengthPrefixes(n) ==
  {Prefix32(n), <<207, 0, 0, 0, 0, High(High(High(n))), High(High(n)) % 256, High(n) % 256, n % 256>>}
    \cup (IF n < 128 THEN {<<n>>} ELSE {})
    \cup (IF n < 256 THEN {<<204, n>>} ELSE {})
    \cup (IF High(n) < 256 THEN {<<205, High(n), n % 256>>} ELSE {})

\* One more byte of a length.  A value over the limit stays over it whatever
\* follows.
Shift(n, byte) == IF n > MaxPacketLen THEN n ELSE n * 256 + byte

\* The length behind a prefix, from_be_bytes of as many bytes as it has.
LengthIn(buf, prefix) ==
  CASE prefix = 1 -> buf[1]
    [] prefix = 2 -> buf[2]
    [] prefix = 3 -> Shift(buf[2], buf[3])
    [] prefix = 5 -> Shift(Shift(Shift(buf[2], buf[3]), buf[4]), buf[5])
    [] prefix = 9 -> Shift(Shift(Shift(Shift(Shift(Shift(Shift(buf[2], buf[3]), buf[4]), buf[5]),
                                             buf[6]), buf[7]), buf[8]), buf[9])

\* The size of the prefix that starts with marker, 0 for a bad one.
PrefixSize(marker) == CASE marker < 128 -> 1
                        [] marker = 204 -> 2
                        [] marker = 205 -> 3
                        [] marker = 206 -> 5
                        [] marker = 207 -> 9
                        [] OTHER -> 0

More == [tag |-> "more", packet |-> <<>>, rest |-> <<>>]
Bad == [tag |-> "error", packet |-> <<>>, rest |-> <<>>]

OverLimit(len) == len > MaxPacketLen

\* Mutant: a buffer that holds exactly one packet has to wait for more.
Holds_OffByOne(buf, size) == Len(buf) > size

Holds(buf, size) == Len(buf) >= size

\* Codec::decode, without parsing the packet.
Decode(buf) ==
  IF buf = <<>> THEN More
  ELSE LET prefix == PrefixSize(buf[1])
           len == LengthIn(buf, prefix)
       IN IF prefix = 0 THEN Bad
          ELSE IF Len(buf) < prefix THEN More
          ELSE IF OverLimit(len) THEN Bad
          ELSE IF ~Holds(buf, prefix + len) THEN More
          ELSE [tag |-> "packet",
                packet |-> SubSeq(buf, prefix + 1, prefix + len),
                rest |-> SubSeq(buf, prefix + len + 1, Len(buf))]

\* The type of every variable.
TypeOK == /\ sent \in Seq(Payload) /\ Len(sent) <= MaxPackets
          /\ arriving \in Seq(Byte)
          /\ src \in Seq(Byte)
          /\ got \in Seq(Seq(Byte))
          /\ state \in {"open", "eof", "ended", "error"}
          /\ cut \in BOOLEAN

Init == /\ sent = <<>>
        /\ arriving = <<>>
        /\ src = <<>>
        /\ got = <<>>
        /\ state = "open"
        /\ cut = FALSE

\* The peer sends a packet in any legal framing.
PeerSends(p) ==
  /\ state = "open" /\ ~cut
  /\ Len(sent) < MaxPackets
  /\ sent' = Append(sent, p)
  /\ \E prefix \in LengthPrefixes(Len(p)) : arriving' = arriving \o (prefix \o p)
  /\ UNCHANGED <<src, got, state, cut>>

\* The link breaks: the tail of what was under way never arrives.
PeerBreaks ==
  /\ state = "open" /\ ~cut
  /\ cut' = TRUE
  /\ \E n \in 0 .. Len(arriving) : arriving' = SubSeq(arriving, 1, n)
  /\ UNCHANGED <<sent, src, got, state>>

\* Framed reads some bytes, when decode wants more.
Read ==
  /\ state = "open"
  /\ Decode(src).tag = "more"
  /\ \E n \in 1 .. Len(arriving) :
       /\ src' = src \o SubSeq(arriving, 1, n)
       /\ arriving' = SubSeq(arriving, n + 1, Len(arriving))
  /\ UNCHANGED <<sent, got, state, cut>>

\* Framed finds the end of the stream.
ReadEnd ==
  /\ state = "open"
  /\ cut /\ arriving = <<>>
  /\ Decode(src).tag = "more"
  /\ state' = "eof"
  /\ UNCHANGED <<sent, arriving, src, got, cut>>

\* poll_next returns a packet.
Yield ==
  /\ state = "open"
  /\ Decode(src).tag = "packet"
  /\ got' = Append(got, Decode(src).packet)
  /\ src' = Decode(src).rest
  /\ UNCHANGED <<sent, arriving, state, cut>>

\* poll_next returns the error of decode.
YieldError ==
  /\ state = "open"
  /\ Decode(src).tag = "error"
  /\ state' = "error"
  /\ UNCHANGED <<sent, arriving, src, got, cut>>

\* decode_eof: bytes left over are an error, none end the stream.
YieldEnd ==
  /\ state = "eof"
  /\ state' = IF src = <<>> THEN "ended" ELSE "error"
  /\ UNCHANGED <<sent, arriving, src, got, cut>>

Next == \/ \E p \in Payload : PeerSends(p)
        \/ PeerBreaks
        \/ Read
        \/ ReadEnd
        \/ Yield
        \/ YieldError
        \/ YieldEnd

Spec == Init /\ [][Next]_vars

-----------------------------------------------------------------------------
(* Properties *)

\* Whatever pieces the bytes arrive in, the packets that come out are the ones
\* sent, in order, and every one of them once the bytes are there.
FramesExact ==
  /\ IsPrefix(got, sent)
  /\ (arriving = <<>> /\ ~cut /\ Decode(src).tag = "more") => got = sent

\* A framing error means a broken link or a packet over the limit: an orderly
\* stream is never given up, and one cut between packets ends without an error.
ErrorsAreReal ==
  state = "error" => \/ cut /\ src # <<>>
                     \/ \E i \in 1 .. Len(sent) : Len(sent[i]) > MaxPacketLen

\* All of it.
FramesAreExact == TypeOK /\ FramesExact /\ ErrorsAreReal
=============================================================================
