------------------------------- MODULE MCWire -------------------------------
(***************************************************************************)
(* The sequential parts between the caller and the socket in one run: the  *)
(* frames, pages and errors of WireParts, and the URL, the salt, packets,  *)
(* calls and a long frame.  The initial state chooses a part; for one that *)
(* is not of WireParts the registers hold the variables of its module.     *)
(***************************************************************************)
EXTENDS WireParts, Sequences

VARIABLES a, b, c, d, e, f, g, h, i, j, k

registers == <<a, b, c, d, e, f, g, h, i, j, k>>
parts == <<errorVars, pageVars, frameVars>>

\* Credentials: empty, a letter, signs that need escapes, a letter of two bytes.
\* Hosts: a name, a name with a port, an IPv6 literal without and with a port.
MCNames == {<<>>, <<97>>, <<64>>, <<37, 58>>, <<195, 169>>}
MCHosts == {<<100>>, <<100, 58, 49>>, <<91, 58, 58, 49, 93>>, <<91, 58, 58, 49, 93, 58, 49>>}
MCTyped == {37, 43, 47, 58, 64, 70}
Opt == INSTANCE Options WITH
  Names <- MCNames, Hosts <- MCHosts, Typed <- MCTyped, MaxEdits <- 1,
  written <- a, text <- b, edits <- c, outcome <- d

\* Salts of 4, 5 and 6 bytes make lines of 8 symbols with each padding; one of
\* 3 makes a short line.
MCSalts == {<<250, 15, 63, 240>>, <<0, 255, 129, 64, 7>>, <<1, 2, 254, 191, 84, 33>>,
            <<255, 254, 3>>}
MCPasswords == {<<>>, <<97>>, <<97, 98>>}
MCSymbols == {65, 47, 61, 33}
Au == INSTANCE Auth WITH
  SALT_B64_LEN <- 8, SALT_USED_LEN <- 4, MaxEdits <- 2,
  Salts <- MCSalts, Passwords <- MCPasswords, Typed <- MCSymbols,
  salt <- a, password <- b, stored <- c, line <- d, edits <- e, outcome <- f, verdict <- g

\* Short payloads around the limit, some of which look like length prefixes.
MCPayload == {<<1>>, <<204, 2>>, <<3, 3, 3>>}

\* One payload at the limit whose length takes two bytes.
MCLongPayload == {[n \in 1 .. 256 |-> 7]}
Long == INSTANCE Framing WITH
  Payload <- MCLongPayload, MaxPackets <- 1, MaxPacketLen <- 256,
  sent <- a, arriving <- b, src <- c, got <- d, state <- e, cut <- f

\* Values as they are meant: numbers, in every width and signed, texts, stacks,
\* and values that are none of these: nested ones, negative numbers, binaries,
\* extensions, text that is not UTF-8, and what only looks like a stack.
As(is, n, bytes) == [is |-> is, n |-> n, bytes |-> bytes]
Numbers == {As("uint", 7, <<7>>), As("uint", 256, <<205, 1, 0>>), As("uint", 5, <<208, 5>>)}
Texts == {As("text", 0, <<162, 97, 98>>), As("text", 0, <<217, 2, 195, 169>>), As("text", 0, <<160>>)}
Stacks == {As("stack", 0, v) : v \in {<<129, 0, 145, 129, 3, 161, 97>>, <<129, 0, 144>>,
                                      <<130, 145, 0, 1, 0, 220, 0, 1, 128>>}}
NoStacks == {As("other", 0, v) : v \in {<<129, 1, 144>>, <<129, 0, 145, 7>>, <<130, 0, 192, 0, 144>>, <<145, 0>>}}
Nested == {As("other", 0, v) : v \in {<<146, 1, 147, 2, 3, 4>>, <<129, 1, 130, 2, 3, 4, 5>>,
                                      <<222, 0, 1, 1, 145, 192>>}}
Others == {As("other", 0, v) : v \in {<<192>>, <<208, 200>>, <<224>>, <<196, 1, 97>>, <<161, 255>>,
                                      <<162, 195, 40>>, <<212, 1, 9>>, <<199, 2, 1, 9, 9>>}}
AnyValue == Numbers \cup Texts \cup Stacks \cup NoStacks \cup Nested \cup Others

MCTypes == {0, 14, 76, 128, 32769}
MCSyncs == {128, 256}
MCStreamIds == {0, 1}

\* Headers without a sync, without a type, with a type or a sync given twice, with
\* values that are no numbers, and with keys that do not fit a byte.
One == As("uint", 1, <<1>>)
None == As("uint", 0, <<0>>)
Wrong == As("other", 0, <<161, 97>>)
MCHeads == {<<<<0, None>>>>, <<<<1, One>>>>, <<<<0, None>>, <<5, One>>>>, <<<<0, None>>, <<1, One>>, <<1, None>>>>,
            <<<<0, One>>, <<0, None>>>>, <<<<0, Wrong>>>>, <<<<0, None>>, <<1, Wrong>>>>, <<<<0, None>>, <<5, Wrong>>>>,
            <<<<256, Wrong>>, <<0, None>>>>, <<<<2, Wrong>>, <<0, None>>>>, <<>>}

\* Bodies of one value of each kind under each kind of key, two values under one
\* key or two, and 16 entries.
MCBodies == {<<>>} \cup {<<<<key, v>>>> : key \in {48, 52, 53, 82}, v \in AnyValue}
              \cup {<<<<key, One>>, <<key, Wrong>>>> : key \in {48, 67, 87, 304}}
              \cup {<<<<82, v>>, <<82, w>>>> : v \in Stacks, w \in NoStacks}
              \cup {<<<<48, v>>, <<49, w>>>> : v \in Nested, w \in Texts}
              \cup {[n \in 1 .. 16 |-> <<n, As("other", 0, <<192>>)>>]}
Pk == INSTANCE Packet WITH
  Types <- MCTypes, Syncs <- MCSyncs, StreamIds <- MCStreamIds, Heads <- MCHeads, Bodies <- MCBodies,
  made <- a, packet <- b, phase <- c, base <- d, pos <- e, remaining <- f, total <- g,
  fields <- h, ranges <- i

\* Pages of one, two and all tuples, two writes by others and one failed page.
MCLimits == {1, 2, 5}

\* Two tuples or none; operations on fields counted from either end, by path,
\* beyond the last and beyond i32::MAX; keys and arguments of every shape.
Val(is, content) == [is |-> is, v |-> content, of |-> <<>>]
Tup(values) == [is |-> "array", v |-> <<>>, of |-> values]
Num(n) == Val("num", <<n>>)
Row(n, m, letters) == <<Num(n), Num(m), Val("text", letters)>>
MCStarts == {[rows |-> {Row(1, 5, <<97, 98, 99>>), Row(2, 6, <<100>>)}, features |-> 0 .. 12],
             [rows |-> {}, features |-> {1}], [rows |-> {}, features |-> {}]}
Op(op, from, n, arg, offset, len) ==
  [op |-> op, field |-> [from |-> from, n |-> n], arg |-> arg, offset |-> offset, len |-> len]
MCOps == {Op("=", "i32", 2, Num(9), 0, 0), Op("=", "i32", -1, Val("text", <<120>>), 0, 0),
          Op("=", "i32", 4, Num(3), 0, 0), Op("=", "i32", 1, Num(8), 0, 0),
          Op("=", "str", 2, Num(4), 0, 0), Op("=", "str", 0, Num(4), 0, 0),
          Op("=", "u32", 15, Val("text", <<>>), 0, 0), Op("=", "i32", 2, Val("bad", <<>>), 0, 0),
          Op("+", "u32", 2, Num(1), 0, 0), Op("-", "i32", -2, Num(2), 0, 0), Op("+", "i32", 0, Num(1), 0, 0),
          Op("&", "i32", 2, Num(3), 0, 0), Op("|", "i32", 2, Num(10), 0, 0), Op("^", "i32", 2, Num(7), 0, 0),
          Op("!", "i32", 2, Num(1), 0, 0), Op("!", "i32", -1, Num(1), 0, 0), Op("#", "i32", 2, Num(1), 0, 0),
          Op(":", "i32", 3, Val("text", <<122>>), 2, 1), Op(":", "i32", 3, Val("text", <<122, 122>>), -1, 1),
          Op(":", "i32", 3, Val("text", <<>>), 0, 1)}
MCKeyArgs == {Val("unit", <<>>), Num(1), Num(3), Tup(<<Num(1)>>), Tup(<<Num(1), Num(2)>>),
              Tup(<<Val("decimal", <<5>>)>>), Val("uuid", <<5>>), Val("bad", <<>>),
              Tup(<<Num(1), Val("uuid", <<5>>)>>)}
MCTupleArgs == {Tup(Row(1, 7, <<>>)), Tup(Row(3, 7, <<97>>)), Tup(<<Num(3)>>),
                Tup(<<>>), Val("map", <<1>>), Num(1), Tup(<<Num(3), Val("bad", <<>>)>>)}
Selection(index, iter, most, offset) ==
  [index |-> index, iter |-> iter, limit |-> most, offset |-> offset]
MCSelectArgs == {Selection("", iter, -1, 0) : iter \in {"Eq", "Req", "All", "Lt", "Le", "Ge", "Gt", "Overlaps"}}
                \cup {Selection("primary", "Ge", 1, 1), Selection("absent", "Eq", -1, 0), Selection("", "Lt", 1, 0)}
MCBatches == {<<Row(3, 1, <<>>), Row(4, 1, <<>>)>>, <<Row(3, 1, <<>>), Row(1, 1, <<>>)>>,
              <<Row(3, 1, <<>>), Row(3, 2, <<>>)>>}
MCParams == {Num(4), Tup(<<Num(4)>>), Val("bad", <<>>)}
            \cup {Tup(<<Val("named", <<sigil, 4>>)>>) : sigil \in 0 .. 2}
MCTxOptions == [isolation : {"Default", "ReadCommitted", "BestEffort"}, timeout : {0, 1}, synchronous : BOOLEAN]
Ca == INSTANCE Calls WITH
  Starts <- MCStarts, Ops <- MCOps, MaxOps <- 2, KeyArgs <- MCKeyArgs,
  TupleArgs <- MCTupleArgs, SelectArgs <- MCSelectArgs, Batches <- MCBatches, Params <- MCParams,
  TxOptions <- MCTxOptions, I32Max <- 7,
  rows <- a, txn <- b, features <- c, upd <- d, asked <- e, syncs <- f, phase <- g, call <- h, msg <- i,
  outcome <- j, before <- k

\* Two callers; frames with and without a code, with one over the limit and with
\* contents of another type.
MCCallers == {1, 2}
MCFrames == {[ERRCODE |-> 3, MESSAGE |-> 2, TYPE |-> 4, LINE |-> 5], [ERRCODE |-> 77, MESSAGE |-> 3],
             [ERRCODE |-> -1, TYPE |-> -1, FIELDS |-> 6, FILE |-> 7, ERRNO |-> 8]}
MCCodes == {3, 77}

ASSUME Bounds == /\ Opt!OptionBounds
                 /\ Au!AuthBounds
                 /\ Fr!FramingBounds /\ Long!FramingBounds
                 /\ Pk!PacketDomain
                 /\ Pg!PagingBounds
                 /\ Ca!CallBounds
                 /\ Er!ErrorBounds

NoRegisters == /\ a = Unused /\ b = Unused /\ c = Unused /\ d = Unused /\ e = Unused /\ f = Unused
               /\ g = Unused /\ h = Unused /\ i = Unused /\ j = Unused /\ k = Unused

MCInit ==
  \/ Init /\ NoRegisters
  \/ /\ NoErrors /\ NoPages /\ NoFrames
     /\ \/ kind = "url" /\ Opt!Init /\ e = Unused /\ f = Unused /\ g = Unused /\ h = Unused
           /\ i = Unused /\ j = Unused /\ k = Unused
        \/ kind = "salt" /\ Au!Init /\ h = Unused /\ i = Unused /\ j = Unused /\ k = Unused
        \/ kind = "long" /\ Long!Init /\ g = Unused /\ h = Unused /\ i = Unused /\ j = Unused
           /\ k = Unused
        \/ kind = "packet" /\ Pk!Init /\ j = Unused /\ k = Unused
        \/ kind = "call" /\ Ca!Init

MCNext ==
  \/ Next /\ UNCHANGED registers
  \/ kind = "url" /\ Opt!Next /\ UNCHANGED <<kind, parts, e, f, g, h, i, j, k>>
  \/ kind = "salt" /\ Au!Next /\ UNCHANGED <<kind, parts, h, i, j, k>>
  \/ kind = "long" /\ Long!Next /\ UNCHANGED <<kind, parts, g, h, i, j, k>>
  \/ kind = "packet" /\ Pk!Next /\ UNCHANGED <<kind, parts, j, k>>
  \/ kind = "call" /\ Ca!Next /\ UNCHANGED <<kind, parts>>

MCSpec == MCInit /\ [][MCNext]_<<vars, registers>>

-----------------------------------------------------------------------------
(* One property per part that is not of WireParts *)

\* ConnectOptions::parse reads a URL written for some credentials as them, and
\* accepts any text only by its one reading: no part of the credentials ends up
\* in the address.
UrlIsRead ==
  kind = "url" => /\ Opt!TypeOK
                  /\ Opt!WrittenIsRead
                  /\ Opt!OneReading

\* decode_base64 gives a salt of every padding back, and chap_sha1 gets in
\* exactly who has the password and this session's salt.
RightOneGetsIn ==
  kind = "salt" => /\ Au!TypeOK
                   /\ Au!DecodeInverts
                   /\ Au!AcceptsTheRightOne

\* Response::parse reads a whole packet into what it was made of and refuses one
\* that was cut or holds a value of the wrong type, and its cursor stays inside the map that value_len measured; a
\* packet whose length takes two bytes comes out of its frame whole.
PacketsAreRead ==
  /\ kind = "packet" => /\ Pk!TypeOK
                        /\ Pk!ParsesWhatWasMade
                        /\ Pk!CutIsRefused
                        /\ Pk!CursorInMap
  /\ kind = "long" => Long!FramesAreExact

\* What a call returns tells what it did to the space: nothing, exactly what its
\* documentation says, or, when the link is lost, one of the two.
CallsDoAsAsked ==
  kind = "call" => /\ Ca!TypeOK
                   /\ Ca!CallsDoAsAsked
                   /\ Ca!TxnAsAsked
=============================================================================
