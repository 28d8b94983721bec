------------------------- MODULE TransactionProofs -------------------------
(***************************************************************************)
(* Interactive transactions: for any streams, links and given-up requests, *)
(* a transaction all of whose requests returned Ok on one link is atomic,  *)
(* and the server has none that its owner does not know of.                *)
(***************************************************************************)
EXTENDS Transactions, TLAPS

-----------------------------------------------------------------------------
(* The inductive invariant *)

\* The messages of a queue, and that they are there in the order of their syncs.
Elems(q) == {q[i] : i \in 1 .. Len(q)}
Rising(q) == \A i, j \in 1 .. Len(q) : i < j => q[i].sync < q[j].sync

InChan == Elems(chan)
OnWire == Elems(wire)
Back == Elems(replies)

\* Every packet of a stream carries its id.
StreamPacket == [sync : Sync, stream : Streams, op : Op]
Types == TypeOK /\ chan \in Seq(StreamPacket) /\ wire \in Seq(StreamPacket)

\* Replies, packets on the wire and packets in the channel are one queue; only
\* the channel survives a link.
QueueInv ==
  /\ Rising(chan) /\ Rising(wire) /\ Rising(replies)
  /\ \A r \in Back, p \in OnWire \cup InChan : r.sync < p.sync
  /\ \A p \in OnWire, q \in InChan : p.sync < q.sync
  /\ \A p \in Back \cup OnWire \cup InChan : p.sync < nextSync
  /\ link = "down" => wire = <<>> /\ replies = <<>> /\ links < MaxLinks

\* A future has its packet, and one of begin, commit or rollback is alone and
\* the last of its stream.
FutureInv ==
  /\ \A f, g \in out : f.sync = g.sync => f = g
  /\ \A f, g \in out : f.owner = g.owner /\ f.op # "WRITE" => f = g
  /\ \A f \in out : alive[f.owner] /\ f.sync < nextSync
  /\ \A f \in out, p \in OnWire \cup InChan : p.sync = f.sync => p.stream = f.owner /\ p.op = f.op
  /\ \A f \in out, p \in OnWire \cup InChan :
       f.op # "WRITE" /\ p.stream = f.owner => p.sync <= f.sync

\* What was written is older than what is still to be served, and belongs to one
\* stream.
WritesInv ==
  /\ \A s \in Streams : \A n \in held[s] \cup book[s].writes \cup db :
       n < nextSync /\ \A p \in OnWire \cup InChan : n < p.sync
  /\ \A f \in out, s \in Streams : /\ f.sync \notin book[s].writes
                                   /\ f.sync \in held[s] => s = f.owner
  /\ \A s, t \in Streams : s # t => held[t] \cap book[s].writes = {}
  /\ \A s \in Streams : book[s].link <= links

\* Unless a request of s was given up, the owner awaits each packet of s, but
\* for the rollback of a dropped stream.  Once begin returned Ok this is so
\* again, until the next request is given up.
AwaitedInv ==
  \A p \in OnWire \cup InChan :
    book[p.stream].state = "open" \/ p.stream \notin gaveUp =>
      (\E f \in out : f.sync = p.sync) \/ (~ alive[p.stream] /\ p.op = "ROLLBACK")

\* The server's side once begin, commit or rollback was answered.
EndInv ==
  \A f \in out, r \in Back : r.sync = f.sync =>
    /\ f.op = "BEGIN" /\ r.ok => tx[f.owner] # "none"
    /\ f.op \in {"COMMIT", "ROLLBACK"} => tx[f.owner] = "none"

\* Writes the owner saw return, or will.
Answered(s) == {f \in out : /\ f.owner = s
                            /\ f.op = "WRITE"
                            /\ \E r \in Back : r.sync = f.sync /\ r.ok}
Written(s) == book[s].writes \cup {f.sync : f \in Answered(s)}

\* s is in a transaction that began on this link.
Inside(s) == book[s].state = "open" /\ book[s].link = links

Ended(s) ==
  \/ ~ alive[s] /\ book[s].writes \cap db = {}
  \/ \E f \in out, r \in Back : /\ f.owner = s
                                /\ r.sync = f.sync
                                /\ f.op \in {"COMMIT", "ROLLBACK"}
                                /\ f.op = "COMMIT" /\ r.ok => book[s].writes \subseteq db

\* The server holds what was written, or has just ended the transaction.
TxInv(s) ==
  /\ Inside(s) /\ link = "up" /\ tx[s] # "none" =>
       Written(s) \cap db = {} /\ (tx[s] = "open" => Written(s) \subseteq held[s])
  /\ Inside(s) /\ link = "up" /\ tx[s] = "none" => Ended(s)
  /\ Inside(s) /\ link = "down" => book[s].writes \cap db = {}
  /\ book[s].state = "committed" /\ book[s].sameLink => book[s].writes \subseteq db

\* A transaction the owner does not know of has its reply on the way.
KnownInv(s) ==
  alive[s] /\ s \notin gaveUp /\ tx[s] # "none" =>
    \/ inTransaction[s]
    \/ \E f \in out, r \in Back : f.owner = s /\ f.op = "BEGIN" /\ r.sync = f.sync /\ r.ok

IndInv == /\ Types
          /\ QueueInv
          /\ FutureInv
          /\ WritesInv
          /\ AwaitedInv
          /\ EndInv
          /\ \A s \in Streams : TxInv(s) /\ KnownInv(s)
-----------------------------------------------------------------------------
(* Queues and records *)

\* A message at the end of a queue.
LEMMA PushFacts ==
  ASSUME NEW S, \A y \in S : y.sync \in Nat, NEW q \in Seq(S), NEW x \in S
  PROVE  /\ Append(q, x) \in Seq(S)
         /\ Len(Append(q, x)) = Len(q) + 1
         /\ Elems(Append(q, x)) = Elems(q) \cup {x}
         /\ Elems(q) \subseteq S
         /\ Rising(q) /\ (\A y \in Elems(q) : y.sync < x.sync) => Rising(Append(q, x))
  <1>1. /\ Append(q, x) \in Seq(S)
        /\ Len(q) \in Nat /\ Len(Append(q, x)) = Len(q) + 1
        /\ \A i \in 1 .. Len(q) : Append(q, x)[i] = q[i] /\ q[i] \in S
        /\ Append(q, x)[Len(q) + 1] = x
    OBVIOUS
  <1>2. Elems(Append(q, x)) = Elems(q) \cup {x}
    <2>1. \A i \in 1 .. Len(q) + 1 : i \in 1 .. Len(q) \/ i = Len(q) + 1
      BY <1>1
    <2> QED BY <1>1, <2>1 DEF Elems
  <1>3. Elems(q) \subseteq S
    BY <1>1 DEF Elems
  <1>4. ASSUME Rising(q), \A y \in Elems(q) : y.sync < x.sync
        PROVE  Rising(Append(q, x))
    <2>1. \A i \in 1 .. Len(q) : q[i].sync < x.sync
      BY <1>4 DEF Elems
    <2> QED BY <1>1, <1>4, <2>1 DEF Rising
  <1> QED BY <1>1, <1>2, <1>3, <1>4

\* A queue and its tail.
LEMMA PopFacts ==
  ASSUME NEW S, \A y \in S : y.sync \in Nat, NEW q \in Seq(S), q # <<>>, Rising(q)
  PROVE  /\ Tail(q) \in Seq(S) /\ Len(Tail(q)) = Len(q) - 1 /\ Len(q) \in Nat
         /\ Head(q) \in S /\ Head(q) \in Elems(q)
         /\ Rising(Tail(q))
         /\ Elems(Tail(q)) = Elems(q) \ {Head(q)}
         /\ \A y \in Elems(Tail(q)) : Head(q).sync < y.sync
  <1>1. /\ Tail(q) \in Seq(S)
        /\ Len(q) \in Nat /\ Len(q) >= 1 /\ Len(Tail(q)) = Len(q) - 1
        /\ Head(q) = q[1] /\ q[1] \in S
        /\ \A i \in 1 .. Len(q) : q[i] \in S
        /\ \A i \in 1 .. Len(Tail(q)) : i + 1 \in 1 .. Len(q) /\ Tail(q)[i] = q[i + 1]
    OBVIOUS
  <1>2. Head(q) \in Elems(q)
    <2>1. 1 \in 1 .. Len(q)  BY <1>1
    <2> QED BY <1>1, <2>1 DEF Elems
  <1>3. Rising(Tail(q))
    BY <1>1 DEF Rising
  <1>4. \A i \in 1 .. Len(Tail(q)) : q[1].sync < Tail(q)[i].sync
    BY <1>1 DEF Rising
  <1>5. \A y \in Elems(Tail(q)) : Head(q).sync < y.sync
    BY <1>1, <1>4 DEF Elems
  <1>6. Elems(Tail(q)) \subseteq Elems(q)
    BY <1>1 DEF Elems
  <1>7. ASSUME NEW y \in Elems(q), y # Head(q) PROVE y \in Elems(Tail(q))
    <2>1. PICK i \in 1 .. Len(q) : y = q[i]  BY DEF Elems
    <2>2. i # 1  BY <1>1, <1>7, <2>1
    <2>3. i - 1 \in 1 .. Len(Tail(q)) /\ (i - 1) + 1 = i  BY <1>1, <2>2
    <2>4. Tail(q)[i - 1] = q[i]  BY <1>1, <2>3
    <2> QED BY <2>1, <2>3, <2>4 DEF Elems
  <1>8. Head(q) \notin Elems(Tail(q))
    BY <1>1, <1>5
  <1> QED BY <1>1, <1>2, <1>3, <1>5, <1>6, <1>7, <1>8

LEMMA EmptyQueue == Elems(<<>>) = {} /\ Rising(<<>>)
  BY DEF Elems, Rising

\* The types of what is in the queues and of the books.
LEMMA TypeFacts ==
  ASSUME Types
  PROVE  /\ \A p \in OnWire \cup InChan : p \in StreamPacket
         /\ \A p \in StreamPacket : p.sync \in Nat /\ p.sync \in Sync /\ p.stream \in Streams /\ p.op \in Op
         /\ \A r \in Back : r \in Reply
         /\ \A r \in Reply : r.sync \in Nat /\ r.sync \in Sync /\ r.ok \in BOOLEAN
         /\ \A f \in out : f \in Future
         /\ \A f \in Future : f.sync \in Nat /\ f.sync \in Sync /\ f.owner \in Streams /\ f.op \in Op
         /\ \A n \in Sync : n \in Nat
         /\ nextSync \in Nat /\ links \in Nat /\ db \subseteq Sync
         /\ \A s \in Streams : /\ held[s] \subseteq Sync
                                /\ book[s] \in Book /\ book[s].writes \subseteq Sync /\ book[s].link \in Nat
                                /\ tx[s] \in {"none", "open", "aborted"}
  <1>1. \A n \in Sync : n \in Nat
    BY TransactionBounds DEF Sync
  <1>2. /\ \A p \in StreamPacket : p.sync \in Nat /\ p.sync \in Sync /\ p.stream \in Streams /\ p.op \in Op
        /\ \A r \in Reply : r.sync \in Nat /\ r.sync \in Sync /\ r.ok \in BOOLEAN
        /\ \A f \in Future : f.sync \in Nat /\ f.sync \in Sync /\ f.owner \in Streams /\ f.op \in Op
    BY <1>1 DEF StreamPacket, Reply, Future
  <1>3. \A p \in OnWire \cup InChan : p \in StreamPacket
    BY DEF Types, OnWire, InChan, Elems
  <1>4. \A r \in Back : r \in Reply
    BY DEF Types, TypeOK, Back, Elems
  <1>5. nextSync \in Nat /\ links \in Nat /\ db \subseteq Sync
    BY TransactionBounds DEF Types, TypeOK
  <1>6. \A f \in out : f \in Future
    BY DEF Types, TypeOK
  <1>7. \A s \in Streams : held[s] \subseteq Sync /\ book[s] \in Book /\ tx[s] \in {"none", "open", "aborted"}
    BY DEF Types, TypeOK
  <1>8. \A b \in Book : b.writes \subseteq Sync /\ b.link \in Nat
    BY TransactionBounds DEF Book
  <1> QED BY <1>1, <1>2, <1>3, <1>4, <1>5, <1>6, <1>7, <1>8

\* A spoiled book is no open one, and otherwise as it was.
LEMMA SpoilFacts ==
  ASSUME NEW b \in Book
  PROVE  /\ Spoil(b) \in Book
         /\ Spoil(b).state # "open"
         /\ Spoil(b).state = "committed" => Spoil(b) = b
         /\ Spoil(b).writes = b.writes /\ Spoil(b).link = b.link
  BY DEF Book, Spoil

\* What Recorded makes of a book.
LEMMA RecordedFacts ==
  ASSUME NEW b \in Book, NEW f \in Future, links \in 1 .. MaxLinks
  PROVE  /\ NoBook \in Book /\ NoBook.writes = {} /\ NoBook.link = 0 /\ NoBook.state = "none"
         /\ Recorded(b, f) \in Book
         /\ f.op = "BEGIN" => /\ Recorded(b, f).state = "open" /\ Recorded(b, f).link = links
                              /\ Recorded(b, f).writes = {}
         /\ f.op = "WRITE" => /\ Recorded(b, f).state = b.state /\ Recorded(b, f).link = b.link
                              /\ Recorded(b, f).sameLink = b.sameLink
                              /\ Recorded(b, f).writes =
                                   IF b.state = "open" THEN b.writes \cup {f.sync} ELSE b.writes
         /\ f.op = "COMMIT" => /\ Recorded(b, f).writes = b.writes /\ Recorded(b, f).link = b.link
                               /\ Recorded(b, f).state # "open"
                               /\ b.state = "open" => /\ Recorded(b, f).state = "committed"
                                                      /\ Recorded(b, f).sameLink = (b.link = links)
                               /\ b.state # "open" => Recorded(b, f) = b
         /\ f.op = "ROLLBACK" => Recorded(b, f) = NoBook
  <1>1. NoBook \in Book /\ NoBook.writes = {} /\ NoBook.link = 0 /\ NoBook.state = "none"
    BY TransactionBounds DEF NoBook, Book
  <1>2. f.sync \in Sync /\ f.op \in Op
    BY DEF Future
  <1>3. links \in 0 .. MaxLinks
    BY TransactionBounds
  <1>4. CASE f.op = "BEGIN"
    BY <1>1, <1>3, <1>4 DEF Recorded, NoBook, Book
  <1>5. CASE f.op = "WRITE"
    <2>1. CASE b.state = "open"
      <3>1. Recorded(b, f) = [b EXCEPT !.writes = @ \cup {f.sync}]  BY <1>5, <2>1 DEF Recorded
      <3> QED BY <1>1, <1>2, <1>5, <2>1, <3>1 DEF Book
    <2>2. CASE b.state # "open"
      <3>1. Recorded(b, f) = b  BY <1>5, <2>2 DEF Recorded
      <3> QED BY <1>1, <1>5, <2>2, <3>1
    <2> QED BY <2>1, <2>2
  <1>6. CASE f.op = "COMMIT"
    <2>1. CASE b.state = "open"
      <3>1. Recorded(b, f) = [b EXCEPT !.state = "committed", !.sameLink = (b.link = links)]
        BY <1>6, <2>1 DEF Recorded
      <3> QED BY <1>1, <1>6, <2>1, <3>1 DEF Book
    <2>2. CASE b.state # "open"
      <3>1. Recorded(b, f) = b  BY <1>6, <2>2 DEF Recorded
      <3> QED BY <1>1, <1>6, <2>2, <3>1
    <2> QED BY <2>1, <2>2
  <1>7. CASE f.op = "ROLLBACK"
    BY <1>1, <1>7 DEF Recorded
  <1> QED BY <1>1, <1>2, <1>4, <1>5, <1>6, <1>7 DEF Op
-----------------------------------------------------------------------------
(* The owner of a stream *)

\* What stays as it was: the transaction of s when a step leaves alone what is
\* answered to it.
LEMMA TxFrame ==
  ASSUME NEW s \in Streams, TxInv(s),
         book'[s] = book[s], tx'[s] = tx[s], held'[s] = held[s], alive'[s] = alive[s],
         UNCHANGED <<link, links, db>>,
         Answered(s)' \subseteq Answered(s),
         \A f \in out, r \in Back :
           f.owner = s /\ f.op # "WRITE" /\ r.sync = f.sync => f \in out' /\ r \in Back'
  PROVE  TxInv(s)'
  <1>1. Written(s)' \subseteq Written(s)
    BY DEF Written
  <1>2. Inside(s)' = Inside(s)
    BY DEF Inside
  <1>3. Ended(s) => Ended(s)'
    <2>1. CASE ~ alive[s] /\ book[s].writes \cap db = {}
      BY <2>1 DEF Ended
    <2>2. ASSUME NEW f \in out, NEW r \in Back, f.owner = s, r.sync = f.sync,
                 f.op \in {"COMMIT", "ROLLBACK"},
                 f.op = "COMMIT" /\ r.ok => book[s].writes \subseteq db
          PROVE  Ended(s)'
      <3>1. f \in out' /\ r \in Back'  BY <2>2
      <3> QED BY <2>2, <3>1 DEF Ended
    <2> QED BY <2>1, <2>2 DEF Ended
  <1> QED BY <1>1, <1>2, <1>3 DEF TxInv

\* A request is the newest packet and its future the newest future.
LEMMA RequestStep ==
  ASSUME IndInv, NEW s \in Streams, NEW op \in Op, Request(s, s, op),
         \A f \in Awaited(s) : f.op = "WRITE" /\ op = "WRITE"
  PROVE  IndInv'
  <1> DEFINE p == [sync |-> nextSync, stream |-> s, op |-> op]
             f == [sync |-> nextSync, owner |-> s, op |-> op]
  <1>1. /\ alive[s] /\ nextSync <= MaxSync /\ Len(chan) < ChanCap
        /\ nextSync' = nextSync + 1 /\ chan' = Append(chan, p) /\ out' = out \cup {f}
        /\ UNCHANGED <<alive, inTransaction, link, links, wire, replies, tx, held, db, book, gaveUp, lost>>
    BY DEF Request, server, history
  <1>2. nextSync \in Sync
    BY <1>1, TransactionBounds DEF IndInv, Types, TypeOK, Sync
  <1>3. /\ p \in StreamPacket /\ p.sync = nextSync /\ p.stream = s /\ p.op = op
        /\ f \in Future /\ f.sync = nextSync /\ f.owner = s /\ f.op = op
    BY <1>2 DEF StreamPacket, Future
  <1> HIDE DEF p, f
  <1>4. \A y \in StreamPacket : y.sync \in Nat
    BY TypeFacts DEF IndInv
  <1>5. /\ chan' \in Seq(StreamPacket) /\ Len(chan') = Len(chan) + 1 /\ Len(chan) \in Nat
        /\ InChan' = InChan \cup {p} /\ OnWire' = OnWire /\ Back' = Back
        /\ Rising(chan')
    <2>1. Rising(chan) /\ \A y \in Elems(chan) : y.sync < p.sync
      BY <1>3 DEF IndInv, QueueInv, InChan
    <2> QED BY <1>1, <1>3, <1>4, <2>1, PushFacts DEF IndInv, Types, InChan, OnWire, Back
  <1>6. \A g \in Awaited(s) : g.op = "WRITE" /\ op = "WRITE"
    OBVIOUS
  <1>7. \A g \in out : g.owner = s => g.op = "WRITE" /\ op = "WRITE"
    BY <1>6 DEF Awaited
  <1> USE TypeFacts DEF IndInv
  <1>8. Types'
    <2>1. nextSync' \in 1 .. MaxSync + 1
      BY <1>1, TransactionBounds DEF Types, TypeOK
    <2>2. Len(chan') <= ChanCap
      BY <1>1, <1>5, TransactionBounds
    <2>3. chan' \in Seq(Packet)
      <3>1. StreamPacket \subseteq Packet  BY DEF StreamPacket, Packet
      <3> QED BY <1>5, <3>1
    <2> QED BY <1>1, <1>3, <1>5, <2>1, <2>2, <2>3 DEF Types, TypeOK
  <1>9. QueueInv'
    BY <1>1, <1>3, <1>5 DEF QueueInv
  <1>10. FutureInv'
    <2>1. \A g \in out : g.sync < nextSync /\ g.sync # nextSync
      BY DEF FutureInv
    <2>2. \A q \in OnWire \cup InChan : q.sync < nextSync /\ q.sync # nextSync
      BY DEF QueueInv
    <2>3. \A g, k \in out' : g.sync = k.sync => g = k
      BY <1>1, <1>3, <2>1 DEF FutureInv
    <2>4. \A g, k \in out' : g.owner = k.owner /\ g.op # "WRITE" => g = k
      BY <1>1, <1>3, <1>7 DEF FutureInv
    <2>5. \A g \in out' : alive'[g.owner] /\ g.sync < nextSync'
      BY <1>1, <1>3, <2>1 DEF FutureInv
    <2>6. \A g \in out', q \in OnWire' \cup InChan' : q.sync = g.sync => q.stream = g.owner /\ q.op = g.op
      BY <1>1, <1>3, <1>5, <2>1, <2>2 DEF FutureInv
    <2>7. \A g \in out', q \in OnWire' \cup InChan' :
            g.op # "WRITE" /\ q.stream = g.owner => q.sync <= g.sync
      <3> SUFFICES ASSUME NEW g \in out', NEW q \in OnWire' \cup InChan', g.op # "WRITE", q.stream = g.owner
                   PROVE  q.sync <= g.sync
        OBVIOUS
      <3>1. CASE g = f
        BY <1>3, <1>5, <2>2, <3>1
      <3>2. CASE g \in out
        <4>1. g.owner # s  BY <1>7, <3>2
        <4>2. q \in OnWire \cup InChan  BY <1>3, <1>5, <4>1
        <4> QED BY <3>2, <4>2 DEF FutureInv
      <3> QED BY <1>1, <3>1, <3>2
    <2> QED BY <2>3, <2>4, <2>5, <2>6, <2>7 DEF FutureInv
  <1>11. WritesInv'
    <2>1. \A t \in Streams : \A n \in held[t] \cup book[t].writes \cup db : n < nextSync /\ n \in Nat
      BY DEF WritesInv
    <2> QED BY <1>1, <1>3, <1>5, <2>1 DEF WritesInv
  <1>12. AwaitedInv'
    BY <1>1, <1>3, <1>5 DEF AwaitedInv
  <1>13. \A r \in Back : r.sync # f.sync
    BY <1>3 DEF QueueInv
  <1>14. EndInv'
    BY <1>1, <1>5, <1>13 DEF EndInv
  <1>15. \A t \in Streams : TxInv(t)'
    <2> SUFFICES ASSUME NEW t \in Streams PROVE TxInv(t)'
      OBVIOUS
    <2>1. Answered(t)' \subseteq Answered(t)
      BY <1>1, <1>5, <1>13 DEF Answered
    <2> QED BY <1>1, <1>5, <2>1, TxFrame
  <1>16. \A t \in Streams : KnownInv(t)'
    BY <1>1, <1>5 DEF KnownInv
  <1> QED BY <1>8, <1>9, <1>10, <1>11, <1>12, <1>14, <1>15, <1>16

\* A request given up: its owner no longer counts on the transaction.
LEMMA GiveUpStep ==
  ASSUME IndInv, NEW f \in out, GiveUp(f)
  PROVE  IndInv'
  <1> USE TypeFacts DEF IndInv
  <1>1. /\ out' = out \ {f} /\ book' = [book EXCEPT ![f.owner] = Spoil(@)]
        /\ gaveUp' = gaveUp \cup {f.owner}
        /\ UNCHANGED <<alive, inTransaction, nextSync, chan, link, links, wire, replies, tx, held, db, lost>>
    BY DEF GiveUp, net, server
  <1>2. f.owner \in Streams  OBVIOUS
  <1>3. /\ book'[f.owner] \in Book /\ book'[f.owner].state # "open"
        /\ book'[f.owner].state = "committed" => book'[f.owner] = book[f.owner]
        /\ book'[f.owner].writes = book[f.owner].writes /\ book'[f.owner].link = book[f.owner].link
        /\ \A t \in Streams : t # f.owner => book'[t] = book[t]
    BY <1>1, <1>2, SpoilFacts DEF Types, TypeOK
  <1>4. OnWire' = OnWire /\ InChan' = InChan /\ Back' = Back
    BY <1>1 DEF OnWire, InChan, Back
  <1>5. Types'
    BY <1>1, <1>2, <1>3 DEF Types, TypeOK
  <1>6. QueueInv' /\ FutureInv'
    BY <1>1, <1>4 DEF QueueInv, FutureInv
  <1>7. WritesInv'
    <2>1. \A t \in Streams : book'[t].writes = book[t].writes /\ book'[t].link = book[t].link
      BY <1>3
    <2> QED BY <1>1, <1>4, <2>1 DEF WritesInv
  <1>8. AwaitedInv'
    <2> SUFFICES ASSUME NEW p \in OnWire \cup InChan, book'[p.stream].state = "open" \/ p.stream \notin gaveUp'
                 PROVE  (\E g \in out' : g.sync = p.sync) \/ (~ alive[p.stream] /\ p.op = "ROLLBACK")
      BY <1>1, <1>4 DEF AwaitedInv
    <2>1. p.stream # f.owner /\ p.stream \in Streams
      BY <1>1, <1>3
    <2>2. (\E g \in out : g.sync = p.sync) \/ (~ alive[p.stream] /\ p.op = "ROLLBACK")
      BY <1>1, <1>3, <2>1 DEF AwaitedInv
    <2>3. f.sync # p.sync
      BY <2>1 DEF FutureInv
    <2> QED BY <1>1, <2>2, <2>3
  <1>9. EndInv'
    BY <1>1, <1>4 DEF EndInv
  <1>10. \A t \in Streams : TxInv(t)'
    <2> SUFFICES ASSUME NEW t \in Streams PROVE TxInv(t)'
      OBVIOUS
    <2>1. CASE t = f.owner
      BY <1>1, <1>3, <2>1 DEF TxInv, Inside
    <2>2. CASE t # f.owner
      <3>1. Answered(t)' \subseteq Answered(t)  BY <1>1, <1>4 DEF Answered
      <3> QED BY <1>1, <1>3, <1>4, <2>2, <3>1, TxFrame
    <2> QED BY <2>1, <2>2
  <1>11. \A t \in Streams : KnownInv(t)'
    BY <1>1, <1>4 DEF KnownInv
  <1> QED BY <1>5, <1>6, <1>7, <1>8, <1>9, <1>10, <1>11
\* A dropped stream has no future, and at most its rollback on the way.
LEMMA DropStep ==
  ASSUME IndInv, NEW s \in Streams, DropStream(s)
  PROVE  IndInv'
  <1> USE TypeFacts DEF IndInv
  <1> DEFINE p == [sync |-> nextSync, stream |-> s, op |-> "ROLLBACK"]
  <1>1. /\ alive[s] /\ Awaited(s) = {} /\ alive' = [alive EXCEPT ![s] = FALSE]
        /\ UNCHANGED <<inTransaction, out, link, links, wire, replies, tx, held, db, book, gaveUp>>
        /\ lost' \subseteq Streams
        /\ \/ chan' = chan /\ nextSync' = nextSync
           \/ chan' = chan /\ nextSync <= MaxSync /\ nextSync' = nextSync + 1
           \/ /\ nextSync <= MaxSync /\ nextSync' = nextSync + 1
              /\ Len(chan) < ChanCap /\ chan' = Append(chan, p)
    BY DEF DropStream, server, Types, TypeOK
  <1>2. /\ \A f \in out : f.owner # s
        /\ ~ alive'[s] /\ alive' \in [Streams -> BOOLEAN]
        /\ \A t \in Streams : t # s => alive'[t] = alive[t]
    BY <1>1 DEF Awaited, Types, TypeOK
  <1>3. nextSync' >= nextSync /\ nextSync' \in 1 .. MaxSync + 1
    BY <1>1, TransactionBounds DEF Types, TypeOK
  <1>4. OnWire' = OnWire /\ Back' = Back
    BY <1>1 DEF OnWire, Back
  <1>5. /\ chan' \in Seq(StreamPacket) /\ Len(chan') <= ChanCap /\ Rising(chan')
        /\ \/ InChan' = InChan
           \/ InChan' = InChan \cup {p} /\ nextSync' = nextSync + 1
        /\ p.stream = s /\ p.op = "ROLLBACK" /\ p.sync = nextSync
    <2>1. CASE chan' = chan
      BY <2>1 DEF Types, TypeOK, QueueInv, InChan
    <2>2. CASE nextSync <= MaxSync /\ nextSync' = nextSync + 1 /\ Len(chan) < ChanCap /\ chan' = Append(chan, p)
      <3>1. p \in StreamPacket
        BY <2>2, TransactionBounds DEF StreamPacket, Types, TypeOK, Sync, Op
      <3>2. Rising(chan) /\ \A y \in Elems(chan) : y.sync < p.sync
        BY DEF QueueInv, InChan
      <3>3. /\ chan' \in Seq(StreamPacket) /\ Len(chan') = Len(chan) + 1
            /\ Elems(chan') = Elems(chan) \cup {p} /\ Rising(chan')
        <4>1. (\A y \in StreamPacket : y.sync \in Nat) /\ chan \in Seq(StreamPacket)  BY DEF Types
        <4> HIDE DEF p
        <4> QED BY <2>2, <3>1, <3>2, <4>1, PushFacts
      <3> QED BY <2>2, <3>3, TransactionBounds DEF InChan, Types
    <2> QED BY <1>1, <2>1, <2>2
  <1> HIDE DEF p
  <1>6. Types'
    <2>1. chan' \in Seq(Packet)
      <3>1. StreamPacket \subseteq Packet  BY DEF StreamPacket, Packet
      <3> QED BY <1>5, <3>1
    <2> QED BY <1>1, <1>2, <1>3, <1>5, <2>1 DEF Types, TypeOK
  <1>7. QueueInv'
    BY <1>1, <1>3, <1>4, <1>5, <1>6 DEF QueueInv
  <1>8. FutureInv'
    BY <1>1, <1>2, <1>3, <1>4, <1>5, <1>6 DEF FutureInv
  <1>9. WritesInv'
    <2>1. \A t \in Streams : \A n \in held[t] \cup book[t].writes \cup db : n < nextSync /\ n \in Nat
      BY DEF WritesInv
    <2> QED BY <1>1, <1>3, <1>4, <1>5, <1>6, <2>1 DEF WritesInv
  <1>10. AwaitedInv'
    BY <1>1, <1>2, <1>4, <1>5 DEF AwaitedInv
  <1>11. EndInv'
    BY <1>1, <1>4 DEF EndInv
  <1>12. \A t \in Streams : TxInv(t)'
    <2> SUFFICES ASSUME NEW t \in Streams PROVE TxInv(t)'
      OBVIOUS
    <2>1. Answered(t)' = Answered(t) /\ Written(t)' = Written(t) /\ Inside(t)' = Inside(t)
      BY <1>1, <1>4 DEF Answered, Written, Inside
    <2>2. CASE t = s
      <3>1. Inside(t) /\ link = "up" => tx[t] # "none"
        BY <1>1, <1>2, <2>2 DEF TxInv, Ended
      <3> QED BY <1>1, <2>1, <3>1 DEF TxInv
    <2>3. CASE t # s
      BY <1>1, <1>2, <1>4, <2>1, <2>3, TxFrame
    <2> QED BY <2>2, <2>3
  <1>13. \A t \in Streams : KnownInv(t)'
    BY <1>1, <1>2, <1>4 DEF KnownInv
  <1> QED BY <1>6, <1>7, <1>8, <1>9, <1>10, <1>11, <1>12, <1>13

-----------------------------------------------------------------------------
(* The connection *)

\* A packet moves from the channel to the wire.
LEMMA SendStep ==
  ASSUME IndInv, Send
  PROVE  IndInv'
  <1> USE TypeFacts DEF IndInv
  <1>1. /\ link = "up" /\ chan # <<>> /\ wire' = Append(wire, Head(chan)) /\ chan' = Tail(chan)
        /\ UNCHANGED <<alive, inTransaction, out, nextSync, link, links, replies, tx, held, db,
                       book, gaveUp, lost>>
    BY DEF Send, client, server, history
  <1>2. /\ chan' \in Seq(StreamPacket) /\ Len(chan') = Len(chan) - 1 /\ Len(chan) \in Nat
        /\ Head(chan) \in StreamPacket /\ Head(chan) \in InChan
        /\ Rising(chan') /\ InChan' = InChan \ {Head(chan)}
        /\ \A q \in InChan' : Head(chan).sync < q.sync
    BY <1>1, PopFacts DEF Types, QueueInv, InChan
  <1>3. /\ wire' \in Seq(StreamPacket) /\ OnWire' = OnWire \cup {Head(chan)} /\ Rising(wire')
    <2>1. Rising(wire) /\ \A y \in Elems(wire) : y.sync < Head(chan).sync
      BY <1>2 DEF QueueInv, OnWire
    <2> QED BY <1>1, <1>2, <2>1, PushFacts DEF Types, OnWire
  <1>4. OnWire' \cup InChan' = OnWire \cup InChan /\ Back' = Back
    BY <1>1, <1>2, <1>3 DEF Back
  <1>5. Types'
    <2>1. chan' \in Seq(Packet) /\ wire' \in Seq(Packet)
      <3>1. StreamPacket \subseteq Packet  BY DEF StreamPacket, Packet
      <3> QED BY <1>2, <1>3, <3>1
    <2>2. Len(chan') <= ChanCap
      BY <1>2, TransactionBounds DEF Types, TypeOK
    <2> QED BY <1>1, <1>2, <1>3, <2>1, <2>2 DEF Types, TypeOK
  <1>6. QueueInv'
    BY <1>1, <1>2, <1>3, <1>4 DEF QueueInv
  <1>7. FutureInv' /\ AwaitedInv' /\ EndInv'
    BY <1>1, <1>4 DEF FutureInv, AwaitedInv, EndInv
  <1>8. WritesInv'
    BY <1>1, <1>4 DEF WritesInv
  <1>9. \A t \in Streams : TxInv(t)'
    <2> SUFFICES ASSUME NEW t \in Streams PROVE TxInv(t)'
      OBVIOUS
    <2>1. Answered(t)' = Answered(t)  BY <1>1, <1>4 DEF Answered
    <2> QED BY <1>1, <1>4, <2>1, TxFrame
  <1>10. \A t \in Streams : KnownInv(t)'
    BY <1>1, <1>4 DEF KnownInv
  <1> QED BY <1>5, <1>6, <1>7, <1>8, <1>9, <1>10

\* The link is lost with the session; what is still queued stays awaited.
LEMMA LinkLostStep ==
  ASSUME IndInv, LinkLost
  PROVE  IndInv'
  <1> USE TypeFacts DEF IndInv
  <1>1. /\ link = "up" /\ links < MaxLinks /\ link' = "down" /\ wire' = <<>> /\ replies' = <<>>
        /\ out' = {f \in out : Queued(f)}
        /\ book' = [s \in Streams |-> IF \E f \in Awaited(s) : ~Queued(f) THEN Spoil(book[s]) ELSE book[s]]
        /\ tx' = [s \in Streams |-> "none"] /\ held' = [s \in Streams |-> {}]
        /\ UNCHANGED <<alive, inTransaction, nextSync, chan, links, db, gaveUp, lost>>
    BY DEF LinkLost
  <1>2. \A f \in out : f \in out' <=> \E p \in InChan : p.sync = f.sync
    BY <1>1 DEF Queued, InChan, Elems
  <1>3. \A s \in Streams : /\ book'[s] \in Book
                           /\ book'[s].writes = book[s].writes /\ book'[s].link = book[s].link
                           /\ book'[s].state \in {"open", "committed"} => book'[s] = book[s]
                           /\ book'[s].state = "open" => \A f \in out : f.owner = s => f \in out'
    BY <1>1, SpoilFacts DEF Awaited
  <1>4. OnWire' = {} /\ Back' = {} /\ InChan' = InChan /\ Rising(wire') /\ Rising(replies')
    BY <1>1, EmptyQueue DEF OnWire, Back, InChan
  <1>5. Types'
    <2>1. book' \in [Streams -> Book]  BY <1>1, <1>3
    <2>2. tx' \in [Streams -> {"none", "open", "aborted"}] /\ held' \in [Streams -> SUBSET Sync]  BY <1>1
    <2>3. wire' \in Seq(StreamPacket) /\ wire' \in Seq(Packet) /\ replies' \in Seq(Reply)  BY <1>1
    <2>4. out' \subseteq Future  BY <1>1 DEF Types, TypeOK
    <2> QED BY <1>1, <2>1, <2>2, <2>3, <2>4 DEF Types, TypeOK
  <1>6. QueueInv' /\ FutureInv'
    BY <1>1, <1>4 DEF QueueInv, FutureInv
  <1>7. WritesInv'
    <2>1. \A s \in Streams : held'[s] = {}  BY <1>1
    <2> QED BY <1>1, <1>3, <1>4, <2>1 DEF WritesInv
  <1>8. AwaitedInv'
    BY <1>1, <1>2, <1>3, <1>4 DEF AwaitedInv
  <1>9. EndInv'
    BY <1>4 DEF EndInv
  <1>10. \A s \in Streams : TxInv(s)'
    <2> SUFFICES ASSUME NEW s \in Streams PROVE TxInv(s)'
      OBVIOUS
    <2>1. ASSUME Inside(s)' PROVE book[s].writes \cap db = {}
      <3>1. Inside(s) /\ book'[s].state = "open"  BY <1>1, <1>3, <2>1 DEF Inside
      <3>2. CASE tx[s] # "none"
        BY <1>1, <3>1, <3>2 DEF TxInv, Written
      <3>3. CASE tx[s] = "none"
        <4>1. Ended(s)  BY <1>1, <3>1, <3>3 DEF TxInv
        <4>2. ASSUME NEW f \in out, NEW r \in Back, f.owner = s, r.sync = f.sync PROVE FALSE
          <5>1. f \in out'  BY <1>3, <3>1, <4>2
          <5>2. PICK p \in InChan : p.sync = f.sync  BY <1>2, <5>1
          <5> QED BY <4>2, <5>2 DEF QueueInv
        <4> QED BY <4>1, <4>2 DEF Ended
      <3> QED BY <3>2, <3>3
    <2>2. book'[s].state = "committed" /\ book'[s].sameLink => book'[s].writes \subseteq db
      BY <1>3 DEF TxInv
    <2> QED BY <1>1, <1>3, <2>1, <2>2 DEF TxInv
  <1>11. \A s \in Streams : KnownInv(s)'
    BY <1>1 DEF KnownInv
  <1> QED BY <1>5, <1>6, <1>7, <1>8, <1>9, <1>10, <1>11

\* A new link: transactions of the old one are not on it.
LEMMA ReconnectStep ==
  ASSUME IndInv, Reconnect
  PROVE  IndInv'
  <1> USE TypeFacts DEF IndInv
  <1>1. /\ link = "down" /\ link' = "up" /\ links' = links + 1
        /\ UNCHANGED <<alive, inTransaction, out, nextSync, chan, wire, replies, tx, held, db,
                       book, gaveUp, lost>>
    BY DEF Reconnect, client, server, history
  <1>2. OnWire' = OnWire /\ InChan' = InChan /\ Back' = Back
    BY <1>1 DEF OnWire, InChan, Back
  <1>3. Types'
    <2>1. links' \in 1 .. MaxLinks  BY <1>1, TransactionBounds DEF QueueInv, Types, TypeOK
    <2> QED BY <1>1, <2>1 DEF Types, TypeOK
  <1>4. QueueInv' /\ FutureInv' /\ AwaitedInv' /\ EndInv'
    BY <1>1, <1>2 DEF QueueInv, FutureInv, AwaitedInv, EndInv
  <1>5. WritesInv'
    BY <1>1, <1>2 DEF WritesInv
  <1>6. \A s \in Streams : TxInv(s)'
    BY <1>1 DEF TxInv, Inside, WritesInv
  <1>7. \A s \in Streams : KnownInv(s)'
    BY <1>1, <1>2 DEF KnownInv
  <1> QED BY <1>3, <1>4, <1>5, <1>6, <1>7
\* A reply no one waits for is dropped; the others reach their future, and its
\* owner books what it was told.
LEMMA ReturnStep ==
  ASSUME IndInv, Return
  PROVE  IndInv'
  <1> USE TypeFacts DEF IndInv
  <1> DEFINE r == Head(replies)
             f == CHOOSE g \in out : g.sync = r.sync
             b == IF r.ok THEN Recorded(book[f.owner], f) ELSE Spoil(book[f.owner])
  <1>1. /\ link = "up" /\ replies # <<>> /\ replies' = Tail(replies)
        /\ UNCHANGED <<alive, nextSync, chan, link, links, wire, tx, held, db, gaveUp, lost>>
        /\ IF \E g \in out : g.sync = r.sync
           THEN /\ out' = out \ {f}
                /\ inTransaction' = [inTransaction EXCEPT ![f.owner] =
                                       IF r.ok /\ f.op # "WRITE" THEN f.op = "BEGIN" ELSE @]
                /\ book' = [book EXCEPT ![f.owner] = b]
           ELSE UNCHANGED <<out, inTransaction, book>>
    BY DEF Return, server
  <1>2. (\E g \in out : g.sync = r.sync) => f \in out /\ f.sync = r.sync
    OBVIOUS
  <1>3. /\ replies' \in Seq(Reply) /\ r \in Reply /\ r \in Back /\ Rising(replies')
        /\ Back' = Back \ {r} /\ \A q \in Back' : r.sync < q.sync
    BY <1>1, PopFacts DEF Types, TypeOK, QueueInv, Back
  <1>4. OnWire' = OnWire /\ InChan' = InChan
    BY <1>1 DEF OnWire, InChan
  <1>5. QueueInv'
    BY <1>1, <1>3, <1>4 DEF QueueInv
  <1> HIDE DEF r, f
  <1>6. CASE ~ \E g \in out : g.sync = r.sync
    <2>1. UNCHANGED <<out, inTransaction, book>>  BY <1>1, <1>6
    <2>2. Types'  BY <1>1, <1>3, <2>1 DEF Types, TypeOK
    <2>3. FutureInv' /\ AwaitedInv' /\ EndInv' /\ WritesInv'
      BY <1>1, <1>3, <1>4, <2>1 DEF FutureInv, AwaitedInv, EndInv, WritesInv
    <2>4. \A t \in Streams : TxInv(t)'
      <3> SUFFICES ASSUME NEW t \in Streams PROVE TxInv(t)'
        OBVIOUS
      <3>1. Answered(t)' \subseteq Answered(t)  BY <1>3, <2>1 DEF Answered
      <3> QED BY <1>1, <1>3, <1>6, <2>1, <3>1, TxFrame
    <2>5. \A t \in Streams : KnownInv(t)'
      BY <1>1, <1>3, <1>6, <2>1 DEF KnownInv
    <2> QED BY <1>5, <2>2, <2>3, <2>4, <2>5
  <1>7. CASE \E g \in out : g.sync = r.sync
    <2> DEFINE s == f.owner
    <2>1. /\ f \in out /\ f.sync = r.sync /\ s \in Streams /\ f \in Future /\ f.op \in Op
          /\ alive[s] /\ r.ok \in BOOLEAN
      BY <1>2, <1>3, <1>7 DEF FutureInv
    <2>2. /\ out' = out \ {f} /\ book' = [book EXCEPT ![s] = b]
          /\ inTransaction' = [inTransaction EXCEPT ![s] =
                                 IF r.ok /\ f.op # "WRITE" THEN f.op = "BEGIN" ELSE @]
      BY <1>1, <1>7
    <2>3. \A g \in out' : g \in out /\ g.sync # f.sync /\ g.sync # r.sync
      BY <2>1, <2>2 DEF FutureInv
    <2>4. f.op # "WRITE" => \A g \in out' : g.owner # s
      BY <2>1, <2>2 DEF FutureInv
    <2>5. f.op # "WRITE" => \A p \in OnWire \cup InChan : p.stream # s
      BY <1>3, <2>1 DEF FutureInv, QueueInv
    <2>6. b \in Book
      BY <2>1, SpoilFacts, RecordedFacts DEF Types, TypeOK
    <2> HIDE DEF s, b
    <2>7. /\ book'[s] = b /\ book' \in [Streams -> Book]
          /\ \A t \in Streams : t # s => book'[t] = book[t] /\ inTransaction'[t] = inTransaction[t]
          /\ inTransaction' \in [Streams -> BOOLEAN]
          /\ inTransaction'[s] = IF r.ok /\ f.op # "WRITE" THEN f.op = "BEGIN" ELSE inTransaction[s]
      BY <2>1, <2>2, <2>6 DEF Types, TypeOK
    <2>8. Types'
      BY <1>1, <1>3, <2>2, <2>7 DEF Types, TypeOK
    <2>9. FutureInv'
      BY <1>1, <1>4, <2>2 DEF FutureInv
    <2>10. EndInv'
      BY <1>1, <1>3, <2>3 DEF EndInv
    \* What the owner books.
    <2>11. ~ r.ok => /\ b.state # "open" /\ b.writes = book[s].writes /\ b.link = book[s].link
                     /\ b.state = "committed" => b = book[s]
      BY <2>1, SpoilFacts DEF b, s
    <2>12. /\ r.ok /\ f.op = "BEGIN" => b.state = "open" /\ b.link = links /\ b.writes = {}
           /\ r.ok /\ f.op = "WRITE" =>
                /\ b.state = book[s].state /\ b.link = book[s].link /\ b.sameLink = book[s].sameLink
                /\ b.writes = IF book[s].state = "open" THEN book[s].writes \cup {f.sync} ELSE book[s].writes
           /\ r.ok /\ f.op = "COMMIT" =>
                /\ b.writes = book[s].writes /\ b.link = book[s].link /\ b.state # "open"
                /\ book[s].state = "open" => b.state = "committed" /\ b.sameLink = (book[s].link = links)
                /\ book[s].state # "open" => b = book[s]
           /\ r.ok /\ f.op = "ROLLBACK" => b.state = "none" /\ b.link = 0 /\ b.writes = {}
      <3>1. book[s] \in Book /\ f \in Future /\ links \in 1 .. MaxLinks
        BY <2>1 DEF Types, TypeOK
      <3>2. r.ok => b = Recorded(book[s], f)
        BY DEF b, s
      <3> HIDE TypeFacts DEF IndInv, b, s
      <3> QED BY <3>1, <3>2, RecordedFacts
    <2>13. b.writes \subseteq book[s].writes \cup {f.sync} /\ b.link <= links
      BY <2>1, <2>11, <2>12 DEF WritesInv, Op
    <2>14. WritesInv'
      <3>1. \A t \in Streams : book'[t].writes \subseteq book[t].writes \cup (IF t = s THEN {f.sync} ELSE {})
        BY <2>7, <2>13
      <3>2. f.sync < nextSync /\ \A p \in OnWire \cup InChan : f.sync < p.sync
        BY <1>3, <2>1 DEF QueueInv
      <3>3. \A t \in Streams : \A n \in held'[t] \cup book'[t].writes \cup db' :
              n < nextSync /\ \A p \in OnWire \cup InChan : n < p.sync
        BY <1>1, <3>1, <3>2 DEF WritesInv
      <3>4. \A g \in out', t \in Streams : /\ g.sync \notin book'[t].writes
                                           /\ g.sync \in held'[t] => t = g.owner
        BY <1>1, <2>3, <3>1 DEF WritesInv
      <3>5. \A t, u \in Streams : t # u => held'[u] \cap book'[t].writes = {}
        BY <1>1, <2>1, <3>1 DEF WritesInv, s
      <3>6. \A t \in Streams : book'[t].link <= links'
        BY <1>1, <2>7, <2>13 DEF WritesInv
      <3> QED BY <1>1, <1>4, <3>3, <3>4, <3>5, <3>6 DEF WritesInv
    <2>15. AwaitedInv'
      <3> SUFFICES ASSUME NEW p \in OnWire \cup InChan, book'[p.stream].state = "open" \/ p.stream \notin gaveUp
                   PROVE  (\E g \in out' : g.sync = p.sync) \/ (~ alive[p.stream] /\ p.op = "ROLLBACK")
        BY <1>1, <1>4 DEF AwaitedInv
      <3>1. f.sync # p.sync
        BY <1>3, <2>1 DEF QueueInv
      <3>2. book'[p.stream].state = "open" => book[p.stream].state = "open"
        BY <2>1, <2>5, <2>7, <2>11, <2>12 DEF Op
      <3>3. (\E g \in out : g.sync = p.sync) \/ (~ alive[p.stream] /\ p.op = "ROLLBACK")
        BY <3>2 DEF AwaitedInv
      <3> QED BY <2>2, <3>1, <3>3
    <2>16. ASSUME NEW t \in Streams PROVE TxInv(t)'
      <3>1. Answered(t)' \subseteq Answered(t) /\ f \notin Answered(t)'
        BY <1>3, <2>2 DEF Answered
      <3>2. CASE t # s
        BY SMTT(30), <1>1, <1>3, <2>1, <2>2, <2>3, <2>7, <2>16, <3>1, <3>2, TxFrame DEF s
      <3>3. CASE t = s /\ ~ r.ok
        BY <1>1, <2>7, <2>11, <3>3 DEF TxInv, Inside
      <3>4. CASE t = s /\ r.ok /\ f.op = "BEGIN"
        <4>1. tx[s] # "none"  BY <1>3, <2>1, <3>4 DEF EndInv, s
        <4>2. Answered(t)' = {}  BY <2>4, <3>4 DEF Answered
        <4>3. Written(t)' = {}  BY <2>7, <2>12, <3>4, <4>2 DEF Written
        <4> QED BY <1>1, <2>7, <2>12, <3>4, <4>1, <4>3 DEF TxInv
      <3>5. CASE t = s /\ r.ok /\ f.op = "WRITE"
        <4>1. Inside(t)' = Inside(t)  BY <1>1, <2>7, <2>12, <3>5 DEF Inside
        <4>2. Inside(t) => Written(t)' \subseteq Written(t)
          <5>1. f \in Answered(s)  BY <1>3, <2>1, <3>5 DEF Answered, s
          <5> QED BY <2>7, <2>12, <3>1, <3>5, <5>1 DEF Written, Inside
        <4>3. ~ Ended(s)
          BY <2>1, <3>5 DEF Ended, FutureInv, s
        <4>4. Inside(t) => tx[t] # "none"
          BY <1>1, <2>16, <3>5, <4>3 DEF TxInv
        <4>5. book'[t].state = "committed" => book'[t].writes = book[t].writes /\ book'[t].sameLink = book[t].sameLink
                                              /\ book[t].state = "committed"
          BY <2>7, <2>12, <3>5
        <4> QED BY <1>1, <2>16, <4>1, <4>2, <4>4, <4>5 DEF TxInv
      <3>6. CASE t = s /\ r.ok /\ f.op = "COMMIT"
        <4>1. tx[s] = "none"  BY <1>3, <2>1, <3>6 DEF EndInv, s
        <4>2. Inside(s) => book[s].writes \subseteq db
          <5> SUFFICES ASSUME Inside(s) PROVE book[s].writes \subseteq db
            OBVIOUS
          <5>1. Ended(s)  BY <1>1, <2>1, <4>1 DEF TxInv
          <5>2. PICK g \in out, q \in Back : /\ g.owner = s /\ q.sync = g.sync
                                             /\ g.op = "COMMIT" /\ q.ok => book[s].writes \subseteq db
            BY <2>1, <5>1 DEF Ended
          <5>3. g = f  BY <2>1, <3>6, <5>2 DEF FutureInv, s
          <5>4. q = r  BY <1>3, <2>1, <5>2, <5>3
          <5> QED BY <3>6, <5>2, <5>3, <5>4
        <4> QED BY <1>1, <2>7, <2>12, <2>16, <3>6, <4>2 DEF TxInv, Inside
      <3>7. CASE t = s /\ r.ok /\ f.op = "ROLLBACK"
        BY <1>1, <2>7, <2>12, <3>7 DEF TxInv, Inside
      <3> QED BY <2>1, <3>2, <3>3, <3>4, <3>5, <3>6, <3>7 DEF Op
    <2>17. ASSUME NEW t \in Streams PROVE KnownInv(t)'
      <3> SUFFICES ASSUME alive[t], t \notin gaveUp, tx[t] # "none", ~ inTransaction'[t]
                   PROVE  \E g \in out', q \in Back' : g.owner = t /\ g.op = "BEGIN" /\ q.sync = g.sync /\ q.ok
        BY <1>1 DEF KnownInv
      <3>1. CASE t = s /\ f.op # "WRITE"
        <4>1. f.op = "BEGIN" => ~ r.ok
          BY <2>7, <3>1
        <4>2. f.op = "BEGIN"
          BY <1>3, <2>1, <3>1 DEF EndInv, s, Op
        <4>3. ~ inTransaction[t]
          BY <2>7, <3>1, <4>1, <4>2
        <4>4. PICK g \in out, q \in Back : g.owner = t /\ g.op = "BEGIN" /\ q.sync = g.sync /\ q.ok
          BY <2>17, <4>3 DEF KnownInv
        <4>5. g = f  BY <2>1, <3>1, <4>4 DEF FutureInv, s
        <4>6. q = r  BY <1>3, <2>1, <4>4, <4>5
        <4> QED BY <4>1, <4>2, <4>4, <4>6
      <3>2. CASE t # s \/ f.op = "WRITE"
        <4>1. ~ inTransaction[t]
          BY <2>7, <2>17, <3>2
        <4>2. PICK g \in out, q \in Back : g.owner = t /\ g.op = "BEGIN" /\ q.sync = g.sync /\ q.ok
          BY <2>17, <4>1 DEF KnownInv
        <4>3. g # f  BY <3>2, <4>2 DEF s
        <4>4. q # r  BY <2>2, <2>3, <4>2, <4>3
        <4> QED BY <1>3, <2>2, <4>2, <4>3, <4>4
      <3> QED BY <3>1, <3>2
    <2> QED BY <1>5, <2>8, <2>9, <2>10, <2>14, <2>15, <2>16, <2>17
  <1> QED BY <1>6, <1>7
-----------------------------------------------------------------------------
(* The server *)

\* The oldest packet is answered behind all other replies.
LEMMA ServeFacts ==
  ASSUME IndInv, NEW op, Serving(op), NEW ok \in BOOLEAN, Answer(ok)
  PROVE  LET h == Head(wire)
             a == [sync |-> h.sync, ok |-> ok]
         IN  /\ link = "up" /\ h \in OnWire /\ h \in StreamPacket /\ h.op = op
             /\ Back' = Back \cup {a} /\ a.sync = h.sync /\ a.ok = ok
             /\ OnWire' \subseteq OnWire /\ InChan' = InChan
             /\ \A p \in OnWire' \cup InChan' : p \in OnWire \cup InChan /\ h.sync < p.sync
             /\ wire' \in Seq(StreamPacket) /\ wire' \in Seq(Packet) /\ replies' \in Seq(Reply)
             /\ UNCHANGED <<alive, inTransaction, out, nextSync, chan, link, links, book, gaveUp, lost>>
             /\ QueueInv' /\ FutureInv' /\ AwaitedInv'
  <1> USE TypeFacts DEF IndInv
  <1> DEFINE h == Head(wire)
             a == [sync |-> h.sync, ok |-> ok]
  <1>1. /\ link = "up" /\ wire # <<>> /\ h.op = op /\ wire' = Tail(wire) /\ replies' = Append(replies, a)
        /\ UNCHANGED <<alive, inTransaction, out, nextSync, chan, link, links, book, gaveUp, lost>>
    BY DEF Serving, Answer, client, history
  <1>2. /\ wire' \in Seq(StreamPacket) /\ h \in StreamPacket /\ h \in OnWire
        /\ Rising(wire') /\ OnWire' = OnWire \ {h} /\ \A p \in OnWire' : h.sync < p.sync
    BY <1>1, PopFacts DEF Types, QueueInv, OnWire
  <1>3. a \in Reply /\ a.sync = h.sync /\ a.ok = ok
    BY <1>2 DEF Reply
  <1> HIDE DEF h, a
  <1>4. replies' \in Seq(Reply) /\ Back' = Back \cup {a} /\ Rising(replies')
    <2>1. Rising(replies) /\ \A y \in Elems(replies) : y.sync < a.sync
      BY <1>2, <1>3 DEF QueueInv, Back
    <2>2. replies \in Seq(Reply) /\ \A y \in Reply : y.sync \in Nat
      BY DEF Types, TypeOK
    <2> HIDE TypeFacts DEF IndInv
    <2> QED BY <1>1, <1>3, <2>1, <2>2, PushFacts DEF Back
  <1>5. InChan' = InChan  BY <1>1 DEF InChan
  <1>6. \A p \in OnWire' \cup InChan' : p \in OnWire \cup InChan /\ h.sync < p.sync
    BY <1>2, <1>5 DEF QueueInv
  <1>7. wire' \in Seq(Packet)
    <2>1. StreamPacket \subseteq Packet  BY DEF StreamPacket, Packet
    <2> QED BY <1>2, <2>1
  <1>8. QueueInv'
    BY <1>1, <1>2, <1>3, <1>4, <1>5, <1>6 DEF QueueInv
  <1>9. FutureInv'
    BY <1>1, <1>6 DEF FutureInv
  <1>10. AwaitedInv'
    BY <1>1, <1>6 DEF AwaitedInv
  <1> QED BY <1>1, <1>2, <1>3, <1>4, <1>5, <1>6, <1>7, <1>8, <1>9, <1>10 DEF h, a

\* Transactions of other streams when a packet of s is answered.
LEMMA OtherStreams ==
  ASSUME IndInv, NEW h \in OnWire, NEW a, Back' = Back \cup {a}, a.sync = h.sync,
         UNCHANGED <<alive, inTransaction, out, link, links, book, gaveUp>>,
         NEW t \in Streams, t # h.stream, tx'[t] = tx[t], held'[t] = held[t],
         db \subseteq db', db' \subseteq db \cup {h.sync} \cup held[h.stream]
  PROVE  TxInv(t)' /\ KnownInv(t)'
  <1> USE TypeFacts DEF IndInv
  <1>1. h.stream \in Streams /\ h.sync \in Nat
    OBVIOUS
  <1>2. \A f \in out : f.sync = h.sync => f.owner # t
    BY DEF FutureInv
  <1>3. Answered(t)' = Answered(t)
    BY <1>2 DEF Answered
  <1>4. Written(t)' = Written(t) /\ Inside(t)' = Inside(t)
    BY <1>3 DEF Written, Inside
  <1>5. h.sync \notin book[t].writes /\ held[h.stream] \cap book[t].writes = {}
    BY <1>1 DEF WritesInv
  <1>6. h.sync \notin Written(t) /\ held[h.stream] \cap Written(t) = {}
    BY <1>2, <1>5, <1>1 DEF Written, Answered, WritesInv
  <1>7. Ended(t) => Ended(t)'
    BY <1>5 DEF Ended
  <1>8. TxInv(t)'
    BY <1>4, <1>5, <1>6, <1>7 DEF TxInv
  <1>9. KnownInv(t)'
    BY DEF KnownInv
  <1> QED BY <1>8, <1>9

\* The packet being served, when its owner counts on the transaction: it is
\* awaited, and what the transaction wrote is held.
LEMMA ServedInside ==
  ASSUME IndInv, NEW h \in OnWire, link = "up",
         Inside(h.stream) \/ h.stream \notin gaveUp,
         alive[h.stream] \/ h.op # "ROLLBACK"
  PROVE  /\ \E f \in out : f.sync = h.sync /\ f.owner = h.stream /\ f.op = h.op
         /\ alive[h.stream]
         /\ Inside(h.stream) => tx[h.stream] # "none"
  <1> USE TypeFacts DEF IndInv
  <1>1. PICK f \in out : f.sync = h.sync
    BY DEF AwaitedInv, Inside
  <1>2. f.owner = h.stream /\ f.op = h.op /\ alive[h.stream]
    BY <1>1 DEF FutureInv
  <1>3. ~ Ended(h.stream)
    <2> SUFFICES ASSUME NEW g \in out, NEW r \in Back, g.owner = h.stream, r.sync = g.sync,
                        g.op \in {"COMMIT", "ROLLBACK"}
                 PROVE  FALSE
      BY <1>2 DEF Ended
    <2>1. g = f  BY <1>2 DEF FutureInv
    <2> QED BY <1>1, <2>1 DEF QueueInv
  <1> QED BY <1>1, <1>2, <1>3 DEF TxInv

\* The server's side of the requests answered before.
LEMMA EndFrame ==
  ASSUME IndInv, NEW h \in OnWire, NEW a, Back' = Back \cup {a}, a.sync = h.sync, out' = out,
         \A t \in Streams : t # h.stream => tx'[t] = tx[t],
         h.op = "BEGIN" /\ a.ok => tx'[h.stream] # "none",
         h.op \in {"COMMIT", "ROLLBACK"} => tx'[h.stream] = "none"
  PROVE  EndInv'
  <1> USE TypeFacts DEF IndInv
  <1> SUFFICES ASSUME NEW f \in out, NEW r \in Back', r.sync = f.sync
               PROVE  /\ f.op = "BEGIN" /\ r.ok => tx'[f.owner] # "none"
                      /\ f.op \in {"COMMIT", "ROLLBACK"} => tx'[f.owner] = "none"
    BY DEF EndInv
  <1>1. CASE r = a
    BY <1>1 DEF FutureInv
  <1>2. CASE r \in Back /\ f.op # "WRITE"
    <2>1. f.owner # h.stream
      BY <1>2 DEF FutureInv, QueueInv
    <2> QED BY <1>2, <2>1 DEF EndInv
  <1> QED BY <1>1, <1>2
\* BEGIN opens a transaction where there is none.
LEMMA ServerBeginStep ==
  ASSUME IndInv, ServerBegin
  PROVE  IndInv'
  <1>a. PICK h, s : h = Head(wire) /\ s = h.stream
    OBVIOUS
  <1>b. PICK ok \in BOOLEAN : ok = (tx[s] = "none")
    OBVIOUS
  <1>0. h = Head(wire) /\ s = h.stream /\ ok = (tx[s] = "none")
    BY <1>a, <1>b
  <1> DEFINE a == [sync |-> h.sync, ok |-> ok]
  <1>1. /\ Serving("BEGIN") /\ Answer(ok) /\ tx' = [tx EXCEPT ![s] = IF @ = "none" THEN "open" ELSE @]
        /\ held' = held /\ db' = db
    BY <1>0 DEF ServerBegin
  <1>2. /\ link = "up" /\ h \in OnWire /\ h \in StreamPacket /\ h.op = "BEGIN"
        /\ Back' = Back \cup {a} /\ a.sync = h.sync /\ a.ok = ok
        /\ OnWire' \subseteq OnWire /\ InChan' = InChan
        /\ \A p \in OnWire' \cup InChan' : p \in OnWire \cup InChan /\ h.sync < p.sync
        /\ wire' \in Seq(StreamPacket) /\ wire' \in Seq(Packet) /\ replies' \in Seq(Reply)
        /\ UNCHANGED <<alive, inTransaction, out, nextSync, chan, link, links, book, gaveUp, lost>>
        /\ QueueInv' /\ FutureInv' /\ AwaitedInv'
    BY <1>0, <1>1, ServeFacts
  <1> HIDE DEF a
  <1> USE TypeFacts DEF IndInv
  <1>3. s \in Streams /\ s = h.stream  BY <1>0, <1>2
  <1>4. /\ tx' \in [Streams -> {"none", "open", "aborted"}]
        /\ tx'[s] = (IF tx[s] = "none" THEN "open" ELSE tx[s])
        /\ \A t \in Streams : t # s => tx'[t] = tx[t]
    BY <1>1, <1>3 DEF Types, TypeOK
  <1>5. Types'
    BY <1>1, <1>2, <1>4 DEF Types, TypeOK
  <1>6. WritesInv'
    BY <1>1, <1>2 DEF WritesInv
  <1>7. EndInv'
    BY <1>2, <1>3, <1>4, EndFrame
  <1>8. ASSUME NEW t \in Streams, t # s PROVE TxInv(t)' /\ KnownInv(t)'
    <2>1. tx'[t] = tx[t] /\ held'[t] = held[t]  BY <1>1, <1>4, <1>8
    <2> QED BY <1>1, <1>2, <1>3, <1>8, <2>1, OtherStreams
  <1>9. TxInv(s)'
    <2>1. Inside(s)' = Inside(s)  BY <1>2 DEF Inside
    <2>2. Answered(s)' \subseteq Answered(s)
      BY <1>2, <1>3 DEF Answered, FutureInv
    <2>3. Written(s)' \subseteq Written(s)  BY <1>2, <2>2 DEF Written
    <2>4. Inside(s) => tx[s] # "none"  BY <1>2, <1>3, ServedInside
    <2> QED BY <1>1, <1>2, <1>3, <1>4, <2>1, <2>3, <2>4 DEF TxInv
  <1>10. KnownInv(s)'
    <2> SUFFICES ASSUME alive[s], s \notin gaveUp, ~ inTransaction[s]
                 PROVE  \E g \in out, q \in Back' : g.owner = s /\ g.op = "BEGIN" /\ q.sync = g.sync /\ q.ok
      BY <1>2 DEF KnownInv
    <2>1. CASE tx[s] = "none"
      <3>1. PICK f \in out : f.sync = h.sync /\ f.owner = s /\ f.op = h.op
        BY <1>2, <1>3, ServedInside
      <3>2. a \in Back' /\ a.sync = f.sync /\ a.ok /\ f.op = "BEGIN"
        BY <1>0, <1>2, <2>1, <3>1
      <3> QED BY <3>1, <3>2
    <2>2. CASE tx[s] # "none"
      BY <1>2, <1>3, <2>2 DEF KnownInv
    <2> QED BY <2>1, <2>2
  <1> QED BY <1>2, <1>5, <1>6, <1>7, <1>8, <1>9, <1>10

\* A write is held while there is a transaction, and takes effect at once where
\* there is none.
LEMMA ServerWriteStep ==
  ASSUME IndInv, ServerWrite
  PROVE  IndInv'
  <1>0. PICK h, s : h = Head(wire) /\ s = h.stream
    OBVIOUS
  <1>1. PICK ok \in BOOLEAN :
          /\ Serving("WRITE") /\ Answer(ok) /\ tx' = tx
          /\ \/ (s = "none" \/ tx[s] = "none") /\ ok /\ db' = db \cup {h.sync} /\ held' = held
             \/ s # "none" /\ tx[s] = "open" /\ ok /\ db' = db /\ held' = [held EXCEPT ![s] = @ \cup {h.sync}]
             \/ s # "none" /\ tx[s] = "aborted" /\ ~ ok /\ db' = db /\ held' = held
    BY <1>0 DEF ServerWrite
  <1> DEFINE a == [sync |-> h.sync, ok |-> ok]
  <1>2. /\ link = "up" /\ h \in OnWire /\ h \in StreamPacket /\ h.op = "WRITE"
        /\ Back' = Back \cup {a} /\ a.sync = h.sync /\ a.ok = ok
        /\ OnWire' \subseteq OnWire /\ InChan' = InChan
        /\ \A p \in OnWire' \cup InChan' : p \in OnWire \cup InChan /\ h.sync < p.sync
        /\ wire' \in Seq(StreamPacket) /\ wire' \in Seq(Packet) /\ replies' \in Seq(Reply)
        /\ UNCHANGED <<alive, inTransaction, out, nextSync, chan, link, links, book, gaveUp, lost>>
        /\ QueueInv' /\ FutureInv' /\ AwaitedInv'
    BY <1>0, <1>1, ServeFacts
  <1> HIDE DEF a
  <1> USE TypeFacts DEF IndInv
  <1>3. s \in Streams /\ s = h.stream /\ s # "none" /\ h.sync \in Sync /\ h.sync \in Nat
    BY <1>0, <1>2, TransactionBounds
  <1>4. /\ held' \in [Streams -> SUBSET Sync] /\ held[s] \subseteq held'[s]
        /\ held'[s] \subseteq held[s] \cup {h.sync}
        /\ tx[s] = "open" => h.sync \in held'[s]
        /\ \A t \in Streams : t # s => held'[t] = held[t]
        /\ db \subseteq db' /\ db' \subseteq db \cup {h.sync} /\ (tx[s] # "none" => db' = db)
        /\ tx[s] = "aborted" => ~ ok
    BY <1>1, <1>3 DEF Types, TypeOK
  <1>5. Types'
    BY <1>1, <1>2, <1>3, <1>4 DEF Types, TypeOK
  <1>6. WritesInv'
    <2>1. h.sync < nextSync /\ \A p \in OnWire' \cup InChan' : h.sync < p.sync
      BY <1>2 DEF QueueInv
    <2>2. \A t \in Streams : /\ h.sync \notin book[t].writes
                             /\ held'[t] \subseteq held[t] \cup (IF t = s THEN {h.sync} ELSE {})
      BY <1>2, <1>3, <1>4 DEF WritesInv
    <2>3. \A f \in out : f.sync = h.sync => f.owner = s
      BY <1>2, <1>3 DEF FutureInv
    <2>4. \A t \in Streams : \A n \in held'[t] \cup book'[t].writes \cup db' :
            n < nextSync /\ \A p \in OnWire' \cup InChan' : n < p.sync
      BY <1>2, <1>4, <2>1, <2>2 DEF WritesInv
    <2>5. \A f \in out', t \in Streams : /\ f.sync \notin book'[t].writes
                                         /\ f.sync \in held'[t] => t = f.owner
      BY <1>2, <2>2, <2>3 DEF WritesInv
    <2>6. \A t, u \in Streams : t # u => held'[u] \cap book'[t].writes = {}
      BY <1>2, <2>2 DEF WritesInv
    <2> QED BY <1>2, <2>4, <2>5, <2>6 DEF WritesInv
  <1>7. EndInv'
    BY <1>1, <1>2, <1>3, EndFrame
  <1>8. ASSUME NEW t \in Streams, t # s PROVE TxInv(t)' /\ KnownInv(t)'
    <2>1. tx'[t] = tx[t] /\ held'[t] = held[t] /\ db' \subseteq db \cup {h.sync} \cup held[s]
      BY <1>1, <1>4, <1>8
    <2> QED BY <1>2, <1>3, <1>4, <1>8, <2>1, OtherStreams
  <1>9. TxInv(s)'
    <2>1. Inside(s)' = Inside(s)  BY <1>2 DEF Inside
    <2>2. CASE Inside(s)
      <3>1. tx[s] # "none" /\ tx'[s] = tx[s] /\ db' = db
        BY <1>1, <1>2, <1>3, <1>4, <2>2, ServedInside
      <3>2. \A f \in Answered(s)' : f \in Answered(s) \/ (f.sync = h.sync /\ ok)
        BY <1>2 DEF Answered
      <3>3. Written(s)' \subseteq Written(s) \cup (IF ok THEN {h.sync} ELSE {})
        BY <1>2, <3>2 DEF Written
      <3>4. h.sync \notin db
        BY <1>2, <1>3 DEF WritesInv
      <3>5. tx[s] = "open" \/ (tx[s] = "aborted" /\ ~ ok)
        BY <1>3, <1>4, <3>1
      <3> QED BY <1>2, <1>3, <1>4, <2>1, <2>2, <3>1, <3>3, <3>4, <3>5 DEF TxInv, Inside
    <2>3. CASE ~ Inside(s)
      BY <1>2, <1>3, <1>4, <2>1, <2>3 DEF TxInv
    <2> QED BY <2>2, <2>3
  <1>10. KnownInv(s)'
    BY <1>1, <1>2, <1>3 DEF KnownInv
  <1> QED BY <1>2, <1>5, <1>6, <1>7, <1>8, <1>9, <1>10

\* COMMIT makes what is held take effect, ROLLBACK drops it.
LEMMA ServerEndStep ==
  ASSUME IndInv, NEW op \in {"COMMIT", "ROLLBACK"}, ServerEnd(op)
  PROVE  IndInv'
  <1>a. PICK h, s : h = Head(wire) /\ s = h.stream
    OBVIOUS
  <1>b. PICK ok \in BOOLEAN : ok = (op = "ROLLBACK" \/ tx[s] # "aborted")
    OBVIOUS
  <1>0. h = Head(wire) /\ s = h.stream /\ ok = (op = "ROLLBACK" \/ tx[s] # "aborted")
    BY <1>a, <1>b
  <1> DEFINE a == [sync |-> h.sync, ok |-> ok]
  <1>1. /\ Serving(op) /\ Answer(ok)
        /\ db' = (IF op = "COMMIT" /\ tx[s] = "open" THEN db \cup held[s] ELSE db)
        /\ tx' = [tx EXCEPT ![s] = "none"] /\ held' = [held EXCEPT ![s] = {}]
    BY <1>0 DEF ServerEnd
  <1>2. /\ link = "up" /\ h \in OnWire /\ h \in StreamPacket /\ h.op = op
        /\ Back' = Back \cup {a} /\ a.sync = h.sync /\ a.ok = ok
        /\ OnWire' \subseteq OnWire /\ InChan' = InChan
        /\ \A p \in OnWire' \cup InChan' : p \in OnWire \cup InChan /\ h.sync < p.sync
        /\ wire' \in Seq(StreamPacket) /\ wire' \in Seq(Packet) /\ replies' \in Seq(Reply)
        /\ UNCHANGED <<alive, inTransaction, out, nextSync, chan, link, links, book, gaveUp, lost>>
        /\ QueueInv' /\ FutureInv' /\ AwaitedInv'
    BY <1>0, <1>1, ServeFacts
  <1> HIDE DEF a
  <1> USE TypeFacts DEF IndInv
  <1>3. s \in Streams /\ s = h.stream  BY <1>0, <1>2
  <1>4. /\ tx' \in [Streams -> {"none", "open", "aborted"}] /\ tx'[s] = "none"
        /\ held' \in [Streams -> SUBSET Sync] /\ held'[s] = {}
        /\ \A t \in Streams : t # s => tx'[t] = tx[t] /\ held'[t] = held[t]
        /\ db \subseteq db' /\ db' \subseteq db \cup held[s]
        /\ op = "ROLLBACK" => db' = db
    BY <1>1, <1>3 DEF Types, TypeOK
  <1>5. Types'
    BY <1>2, <1>3, <1>4 DEF Types, TypeOK
  <1>6. WritesInv'
    <2>1. \A t \in Streams : held'[t] \subseteq held[t]
      BY <1>4
    <2>2. \A n \in db' : n < nextSync /\ \A p \in OnWire \cup InChan : n < p.sync
      BY <1>3, <1>4 DEF WritesInv
    <2> QED BY <1>2, <2>1, <2>2 DEF WritesInv
  <1>7. EndInv'
    BY <1>2, <1>3, <1>4, EndFrame
  <1>8. ASSUME NEW t \in Streams, t # s PROVE TxInv(t)' /\ KnownInv(t)'
    <2>1. tx'[t] = tx[t] /\ held'[t] = held[t] /\ db' \subseteq db \cup {h.sync} \cup held[s]
      BY <1>4, <1>8
    <2> QED BY <1>2, <1>3, <1>4, <1>8, <2>1, OtherStreams
  <1>9. TxInv(s)'
    <2>1. Inside(s)' = Inside(s)  BY <1>2 DEF Inside
    <2>2. ASSUME Inside(s) PROVE Ended(s)'
      <3>1. CASE ~ alive[s] /\ op = "ROLLBACK"
        <4>1. book[s].writes \cap db = {}
          BY <1>2, <1>3, <2>2, <3>1 DEF TxInv, Ended, Written, FutureInv
        <4> QED BY <1>2, <1>4, <3>1, <4>1 DEF Ended
      <3>2. CASE alive[s] \/ op # "ROLLBACK"
        <4>1. tx[s] # "none"
          BY <1>2, <1>3, <2>2, <3>2, ServedInside
        <4>2. PICK f \in out : f.sync = h.sync /\ f.owner = s /\ f.op = h.op
          BY <1>2, <1>3, <2>2, <3>2, ServedInside
        <4>3. op = "COMMIT" /\ ok => book[s].writes \subseteq db'
          BY <1>0, <1>1, <1>2, <1>3, <2>2, <4>1 DEF TxInv, Written
        <4> QED BY <1>2, <4>2, <4>3 DEF Ended
      <3> QED BY <3>1, <3>2
    <2> QED BY <1>2, <1>3, <1>4, <2>1, <2>2 DEF TxInv
  <1>10. KnownInv(s)'
    BY <1>4 DEF KnownInv
  <1> QED BY <1>2, <1>5, <1>6, <1>7, <1>8, <1>9, <1>10

LEMMA ServerAbortStep ==
  ASSUME IndInv, NEW s \in Streams, ServerAbort(s)
  PROVE  IndInv'
  <1> USE TypeFacts DEF IndInv
  <1>1. /\ tx[s] = "open" /\ tx' = [tx EXCEPT ![s] = "aborted"] /\ held' = [held EXCEPT ![s] = {}]
        /\ UNCHANGED <<alive, inTransaction, out, nextSync, chan, link, links, wire, replies, db,
                       book, gaveUp, lost>>
    BY DEF ServerAbort, client, net, history
  <1>2. OnWire' = OnWire /\ InChan' = InChan /\ Back' = Back
    BY <1>1 DEF OnWire, InChan, Back
  <1>3. /\ tx' \in [Streams -> {"none", "open", "aborted"}] /\ tx'[s] = "aborted"
        /\ held' \in [Streams -> SUBSET Sync] /\ held'[s] = {}
        /\ \A t \in Streams : t # s => tx'[t] = tx[t] /\ held'[t] = held[t]
    BY <1>1 DEF Types, TypeOK
  <1>4. Types' /\ QueueInv' /\ FutureInv' /\ AwaitedInv'
    BY <1>1, <1>2, <1>3 DEF Types, TypeOK, QueueInv, FutureInv, AwaitedInv
  <1>5. WritesInv'
    BY <1>1, <1>2, <1>3 DEF WritesInv
  <1>6. EndInv'
    BY <1>1, <1>2, <1>3 DEF EndInv
  <1>7. ASSUME NEW t \in Streams PROVE TxInv(t)'
    <2>1. Written(t)' = Written(t) /\ Inside(t)' = Inside(t) /\ Ended(t)' = Ended(t)
      BY <1>1, <1>2 DEF Written, Answered, Inside, Ended
    <2>2. CASE t = s
      BY <1>1, <1>3, <2>1, <2>2 DEF TxInv
    <2>3. CASE t # s
      BY <1>1, <1>3, <1>7, <2>1, <2>3 DEF TxInv
    <2> QED BY <2>2, <2>3
  <1>8. \A t \in Streams : KnownInv(t)'
    BY <1>1, <1>2, <1>3 DEF KnownInv
  <1> QED BY <1>4, <1>5, <1>6, <1>7, <1>8

-----------------------------------------------------------------------------
(* The theorems *)

LEMMA IndInvInit == Init => IndInv
  <1> SUFFICES ASSUME Init PROVE IndInv
    OBVIOUS
  <1> USE TransactionBounds DEF Init
  <1>1. Types
    <2>1. NoBook \in Book  BY DEF NoBook, Book
    <2> QED BY <2>1 DEF Types, TypeOK
  <1>2. OnWire = {} /\ InChan = {} /\ Back = {} /\ Rising(chan)
    BY EmptyQueue DEF OnWire, InChan, Back
  <1>3. QueueInv /\ FutureInv /\ AwaitedInv /\ EndInv
    BY <1>2 DEF QueueInv, FutureInv, AwaitedInv, EndInv
  <1>4. \A s \in Streams : book[s].writes = {} /\ book[s].state = "none" /\ book[s].link = 0
    BY DEF NoBook
  <1>5. WritesInv
    BY <1>2, <1>4 DEF WritesInv
  <1>6. \A s \in Streams : TxInv(s) /\ KnownInv(s)
    BY <1>4 DEF TxInv, Inside, KnownInv
  <1> QED BY <1>1, <1>3, <1>5, <1>6 DEF IndInv

LEMMA StutterStep ==
  ASSUME IndInv, UNCHANGED vars
  PROVE  IndInv'
  <1> USE DEF vars, IndInv
  <1>1. OnWire' = OnWire /\ InChan' = InChan /\ Back' = Back
    BY DEF OnWire, InChan, Back
  <1>2. Types' /\ QueueInv'
    BY <1>1 DEF Types, TypeOK, QueueInv
  <1>3. FutureInv' /\ WritesInv' /\ AwaitedInv' /\ EndInv'
    BY <1>1 DEF FutureInv, WritesInv, AwaitedInv, EndInv
  <1>4. \A s \in Streams : TxInv(s)' /\ KnownInv(s)'
    BY <1>1 DEF TxInv, Inside, Written, Answered, Ended, KnownInv
  <1> QED BY <1>2, <1>3, <1>4

LEMMA IndInvStep == IndInv /\ [Next]_vars => IndInv'
  <1> SUFFICES ASSUME IndInv, [Next]_vars PROVE IndInv'
    OBVIOUS
  <1>1. ASSUME NEW s \in Streams, Owner(s) PROVE IndInv'
    BY <1>1, RequestStep, DropStep DEF Owner, Begin, Write, Commit, Rollback, Op
  <1>2. CASE Server
    BY <1>2, ServerBeginStep, ServerWriteStep, ServerEndStep DEF Server
  <1> QED BY <1>1, <1>2, GiveUpStep, ReturnStep, SendStep, LinkLostStep, ReconnectStep,
             ServerAbortStep, StutterStep DEF Next

LEMMA Inductive == Spec => []IndInv
  BY IndInvInit, IndInvStep, PTL DEF Spec

\* Every variable has its type: in particular the channel never holds more than
\* its capacity.
THEOREM TypeCorrect == Spec => []TypeOK
  BY Inductive, PTL DEF IndInv, Types

\* A transaction all of whose requests returned Ok on one link is atomic, for any
\* number of streams, whatever requests were given up before.
THEOREM TransactionsAreAtomic == Spec => []AtomicOnOneLink
  <1>1. IndInv => AtomicOnOneLink
    <2> SUFFICES ASSUME IndInv, NEW s \in Streams
                 PROVE  /\ (book[s].state = "committed" /\ book[s].sameLink) => book[s].writes \subseteq db
                        /\ (book[s].state = "open" /\ book[s].link = links /\ Awaited(s) = {})
                             => book[s].writes \cap db = {}
      BY DEF AtomicOnOneLink
    <2>1. ASSUME Inside(s), Awaited(s) = {} PROVE book[s].writes \cap db = {}
      <3>1. link \in {"up", "down"}  BY DEF IndInv, Types, TypeOK
      <3>2. CASE link = "up" /\ tx[s] = "none"
        BY <2>1, <3>2 DEF IndInv, TxInv, Ended, Awaited
      <3>3. CASE link = "up" /\ tx[s] # "none"
        BY <2>1, <3>3 DEF IndInv, TxInv, Written
      <3>4. CASE link = "down"
        BY <2>1, <3>4 DEF IndInv, TxInv
      <3> QED BY <3>1, <3>2, <3>3, <3>4
    <2> QED BY <2>1 DEF IndInv, TxInv, Inside
  <1> QED BY <1>1, Inductive, PTL

\* The server has no transaction its idle owner does not know of, unless one of
\* its requests was given up: dropping the stream then rolls it back.
THEOREM OwnerKnows == Spec => []OpenIsKnown
  <1>1. IndInv => OpenIsKnown
    BY DEF IndInv, KnownInv, OpenIsKnown, Awaited
  <1> QED BY <1>1, Inductive, PTL
=============================================================================
