---------------------------- MODULE Transactions ----------------------------
(***************************************************************************)
(* Stream (src/src/client.rs): an ordered request sequence and the scope   *)
(* of an interactive transaction, over sessions that come and go.  The     *)
(* connection is reduced to what Connection shows of it: a first-in        *)
(* first-out channel that outlives a link, requests in flight that fail    *)
(* with Closed when the link is lost, replies matched by sync.  The        *)
(* server's side of a stream is external: a session owns its streams'      *)
(* transactions and rolls them back when it ends; a request on a stream    *)
(* without one takes effect by itself; COMMIT and ROLLBACK without one     *)
(* succeed and do nothing.                                                 *)
(***************************************************************************)
EXTENDS Naturals, Sequences

CONSTANTS
  Streams,      \* the streams of the client (their ids)
  MaxSync,      \* bound: syncs handed out
  MaxLinks,     \* bound: links established; the last one stays up
  ChanCap,      \* capacity of the command channel (1024 in the code)
  HasTimeout,   \* requests may be given up: request_timeout, or a dropped future
  MayAbort      \* the server may abort a transaction (conflict, its timeout)

ASSUME TransactionBounds == /\ "none" \notin Streams
                            /\ MaxSync \in Nat
                            /\ MaxLinks \in Nat \ {0}
                            /\ ChanCap \in Nat \ {0}
                            /\ HasTimeout \in BOOLEAN
                            /\ MayAbort \in BOOLEAN

VARIABLES
  alive,          \* alive[s]: the Stream has not been dropped
  inTransaction,  \* inTransaction[s]: Stream.in_transaction
  out,            \* requests whose future is being awaited
  nextSync,       \* Shared.next_sync
  chan,           \* packets in the command channel, or deferred
  link,           \* "up" or "down"
  links,          \* links established
  wire,           \* packets sent on the link
  replies,        \* replies on their way back
  tx,             \* tx[s]: the transaction of stream s in this session
  held,           \* held[s]: the writes made in it
  db,             \* writes that took effect
  book,           \* history: book[s] is the transaction as its owner sees it
  gaveUp,         \* history: streams with a request that was given up
  lost            \* history: streams whose rollback on drop was not queued

client == <<alive, inTransaction, out, nextSync>>
net == <<chan, link, links, wire, replies>>
server == <<tx, held, db>>
history == <<book, gaveUp, lost>>
vars == <<alive, inTransaction, out, nextSync, chan, link, links, wire, replies,
          tx, held, db, book, gaveUp, lost>>

Sync == 1 .. MaxSync
Op == {"BEGIN", "WRITE", "COMMIT", "ROLLBACK"}
Packet == [sync : Sync, stream : Streams \cup {"none"}, op : Op]
Future == [sync : Sync, owner : Streams, op : Op]
Reply == [sync : Sync, ok : BOOLEAN]

\* The owner's view of a transaction: begin returned on link, writes returned
\* Ok in it, and whether it was still on that link when commit returned.
Book == [state : {"none", "open", "committed", "spoiled"},
         link : 0 .. MaxLinks, writes : SUBSET Sync, sameLink : BOOLEAN]
NoBook == [state |-> "none", link |-> 0, writes |-> {}, sameLink |-> TRUE]

\* The type of every variable.
TypeOK == /\ alive \in [Streams -> BOOLEAN]
          /\ inTransaction \in [Streams -> BOOLEAN]
          /\ out \subseteq Future
          /\ nextSync \in 1 .. MaxSync + 1
          /\ chan \in Seq(Packet) /\ Len(chan) <= ChanCap
          /\ link \in {"up", "down"}
          /\ links \in 1 .. MaxLinks
          /\ wire \in Seq(Packet)
          /\ replies \in Seq(Reply)
          /\ tx \in [Streams -> {"none", "open", "aborted"}]
          /\ held \in [Streams -> SUBSET Sync]
          /\ db \subseteq Sync
          /\ book \in [Streams -> Book]
          /\ gaveUp \subseteq Streams
          /\ lost \subseteq Streams

Init == /\ alive = [s \in Streams |-> TRUE]
        /\ inTransaction = [s \in Streams |-> FALSE]
        /\ out = {}
        /\ nextSync = 1
        /\ chan = <<>>
        /\ link = "up"
        /\ links = 1
        /\ wire = <<>>
        /\ replies = <<>>
        /\ tx = [s \in Streams |-> "none"]
        /\ held = [s \in Streams |-> {}]
        /\ db = {}
        /\ book = [s \in Streams |-> NoBook]
        /\ gaveUp = {}
        /\ lost = {}

-----------------------------------------------------------------------------
(* The owner of a stream *)

Awaited(s) == {f \in out : f.owner = s}

\* Mutant: the channel has no limit.
Request_Unbounded(s, stream, op) ==
  /\ alive[s]
  /\ nextSync <= MaxSync
  /\ nextSync' = nextSync + 1
  /\ chan' = Append(chan, [sync |-> nextSync, stream |-> stream, op |-> op])
  /\ out' = out \cup {[sync |-> nextSync, owner |-> s, op |-> op]}
  /\ UNCHANGED <<alive, inTransaction, link, links, wire, replies, server, history>>

\* next_sync, Request::new(op, sync, stream) and Handle::request up to its await.
Request(s, stream, op) ==
  /\ alive[s]
  /\ nextSync <= MaxSync
  /\ Len(chan) < ChanCap
  /\ nextSync' = nextSync + 1
  /\ chan' = Append(chan, [sync |-> nextSync, stream |-> stream, op |-> op])
  /\ out' = out \cup {[sync |-> nextSync, owner |-> s, op |-> op]}
  /\ UNCHANGED <<alive, inTransaction, link, links, wire, replies, server, history>>

\* Stream::begin, commit and rollback borrow the stream exclusively.
Begin(s) == Awaited(s) = {} /\ Request(s, s, "BEGIN")
Commit(s) == Awaited(s) = {} /\ Request(s, s, "COMMIT")
Rollback(s) == Awaited(s) = {} /\ Request(s, s, "ROLLBACK")

\* Mutant: the request is sent outside the stream.
Write_NoStreamId(s) == (\A f \in Awaited(s) : f.op = "WRITE") /\ Request(s, "none", "WRITE")

\* Stream::call, eval, execute and execute_prepared share it, so several may be
\* awaited at once.
Write(s) == (\A f \in Awaited(s) : f.op = "WRITE") /\ Request(s, s, "WRITE")

Spoil(b) == IF b.state = "open" THEN [b EXCEPT !.state = "spoiled"] ELSE b

\* What an Ok reply to f means to its owner.
Recorded(b, f) ==
  CASE f.op = "BEGIN" -> [NoBook EXCEPT !.state = "open", !.link = links]
    [] f.op = "WRITE" /\ b.state = "open" -> [b EXCEPT !.writes = @ \cup {f.sync}]
    [] f.op = "COMMIT" /\ b.state = "open" ->
         [b EXCEPT !.state = "committed", !.sameLink = (b.link = links)]
    [] f.op = "ROLLBACK" -> NoBook
    [] OTHER -> b

\* Mutant: any error ends the transaction for the client.
Return_ErrorEnds ==
  /\ link = "up"
  /\ replies # <<>>
  /\ replies' = Tail(replies)
  /\ LET r == Head(replies)
         f == CHOOSE g \in out : g.sync = r.sync
     IN IF \E g \in out : g.sync = r.sync
        THEN /\ out' = out \ {f}
             /\ inTransaction' = [inTransaction EXCEPT ![f.owner] =
                                    r.ok /\ (f.op = "BEGIN" \/ (f.op = "WRITE" /\ @))]
             /\ book' = [book EXCEPT ![f.owner] = IF r.ok THEN Recorded(@, f) ELSE Spoil(@)]
        ELSE UNCHANGED <<out, inTransaction, book>>
  /\ UNCHANGED <<alive, nextSync, chan, link, links, wire, server, gaveUp, lost>>

\* handle_response finds the request by its sync, the future returns: only
\* an Ok reply to begin, commit or rollback moves in_transaction.
Return ==
  /\ link = "up"
  /\ replies # <<>>
  /\ replies' = Tail(replies)
  /\ LET r == Head(replies)
         f == CHOOSE g \in out : g.sync = r.sync
     IN IF \E g \in out : g.sync = r.sync
        THEN /\ out' = out \ {f}
             /\ inTransaction' = [inTransaction EXCEPT ![f.owner] =
                                    IF r.ok /\ f.op # "WRITE" THEN f.op = "BEGIN" ELSE @]
             /\ book' = [book EXCEPT ![f.owner] = IF r.ok THEN Recorded(@, f) ELSE Spoil(@)]
        ELSE UNCHANGED <<out, inTransaction, book>>
  /\ UNCHANGED <<alive, nextSync, chan, link, links, wire, server, gaveUp, lost>>

\* The request timeout passes, or the future is dropped; the request goes on.
GiveUp(f) ==
  /\ HasTimeout
  /\ f \in out
  /\ out' = out \ {f}
  /\ book' = [book EXCEPT ![f.owner] = Spoil(@)]
  /\ gaveUp' = gaveUp \cup {f.owner}
  /\ UNCHANGED <<alive, inTransaction, nextSync, net, server, lost>>

\* Mutant: no rollback.
DropStream_Silent(s) ==
  /\ alive[s]
  /\ Awaited(s) = {}
  /\ alive' = [alive EXCEPT ![s] = FALSE]
  /\ UNCHANGED <<inTransaction, out, nextSync, net, server, history>>

\* Drop for Stream: inside a transaction a ROLLBACK is fired, which try_send
\* loses when the channel is full.
DropStream(s) ==
  /\ alive[s]
  /\ Awaited(s) = {}
  /\ alive' = [alive EXCEPT ![s] = FALSE]
  /\ IF inTransaction[s]
     THEN /\ nextSync <= MaxSync
          /\ nextSync' = nextSync + 1
          /\ IF Len(chan) < ChanCap
             THEN /\ chan' = Append(chan, [sync |-> nextSync, stream |-> s, op |-> "ROLLBACK"])
                  /\ UNCHANGED lost
             ELSE /\ lost' = lost \cup {s}
                  /\ UNCHANGED chan
     ELSE UNCHANGED <<nextSync, chan, lost>>
  /\ UNCHANGED <<inTransaction, out, link, links, wire, replies, server, book, gaveUp>>

-----------------------------------------------------------------------------
(* The connection *)

\* The task sends the next command.
Send ==
  /\ link = "up"
  /\ chan # <<>>
  /\ wire' = Append(wire, Head(chan))
  /\ chan' = Tail(chan)
  /\ UNCHANGED <<client, link, links, replies, server, history>>

Queued(f) == \E i \in 1 .. Len(chan) : chan[i].sync = f.sync

\* fail_link: what was sent and not answered fails with Closed.  The session
\* ends, and with it its transactions.
LinkLost ==
  /\ link = "up"
  /\ links < MaxLinks
  /\ link' = "down"
  /\ wire' = <<>>
  /\ replies' = <<>>
  /\ out' = {f \in out : Queued(f)}
  /\ book' = [s \in Streams |-> IF \E f \in Awaited(s) : ~Queued(f) THEN Spoil(book[s]) ELSE book[s]]
  /\ tx' = [s \in Streams |-> "none"]
  /\ held' = [s \in Streams |-> {}]
  /\ UNCHANGED <<alive, inTransaction, nextSync, chan, links, db, gaveUp, lost>>

\* Task::reconnect.
Reconnect ==
  /\ link = "down"
  /\ link' = "up"
  /\ links' = links + 1
  /\ UNCHANGED <<client, chan, wire, replies, server, history>>

-----------------------------------------------------------------------------
(* The server *)

Answer(ok) == replies' = Append(replies, [sync |-> Head(wire).sync, ok |-> ok])

Serving(op) == /\ link = "up"
               /\ wire # <<>>
               /\ Head(wire).op = op
               /\ wire' = Tail(wire)
               /\ UNCHANGED <<client, chan, link, links, history>>

ServerBegin ==
  /\ Serving("BEGIN")
  /\ LET s == Head(wire).stream
     IN /\ Answer(tx[s] = "none")
        /\ tx' = [tx EXCEPT ![s] = IF @ = "none" THEN "open" ELSE @]
        /\ UNCHANGED <<held, db>>

ServerWrite ==
  /\ Serving("WRITE")
  /\ LET s == Head(wire).stream
         inTx == s # "none" /\ tx[s] # "none"
     IN \/ /\ ~inTx
           /\ db' = db \cup {Head(wire).sync}
           /\ Answer(TRUE)
           /\ UNCHANGED held
        \/ /\ inTx /\ tx[s] = "open"
           /\ held' = [held EXCEPT ![s] = @ \cup {Head(wire).sync}]
           /\ Answer(TRUE)
           /\ UNCHANGED db
        \/ /\ inTx /\ tx[s] = "aborted"
           /\ Answer(FALSE)
           /\ UNCHANGED <<held, db>>
  /\ UNCHANGED tx

\* COMMIT and ROLLBACK end the stream's transaction, if it has one.
ServerEnd(op) ==
  /\ Serving(op)
  /\ LET s == Head(wire).stream
     IN /\ Answer(op = "ROLLBACK" \/ tx[s] # "aborted")
        /\ db' = IF op = "COMMIT" /\ tx[s] = "open" THEN db \cup held[s] ELSE db
        /\ tx' = [tx EXCEPT ![s] = "none"]
        /\ held' = [held EXCEPT ![s] = {}]

\* A conflict or the transaction's timeout.
ServerAbort(s) ==
  /\ MayAbort
  /\ tx[s] = "open"
  /\ tx' = [tx EXCEPT ![s] = "aborted"]
  /\ held' = [held EXCEPT ![s] = {}]
  /\ UNCHANGED <<client, net, db, history>>

-----------------------------------------------------------------------------

Owner(s) == \/ Begin(s)
            \/ Write(s)
            \/ Commit(s)
            \/ Rollback(s)
            \/ DropStream(s)

Server == \/ ServerBegin
          \/ ServerWrite
          \/ ServerEnd("COMMIT")
          \/ ServerEnd("ROLLBACK")

Next == \/ \E s \in Streams : Owner(s)
        \/ \E f \in out : GiveUp(f)
        \/ Return
        \/ Send
        \/ LinkLost
        \/ Reconnect
        \/ Server
        \/ \E s \in Streams : ServerAbort(s)

Spec == Init /\ [][Next]_vars

\* The task and the server are scheduled and links come back.
Fairness == WF_vars(Send) /\ WF_vars(Return) /\ WF_vars(Reconnect) /\ WF_vars(Server)

FairSpec == Spec /\ Fairness

-----------------------------------------------------------------------------
(* Properties *)

\* A transaction whose every request returned Ok, on one link from begin to
\* commit, is atomic: none of its writes takes effect before commit is called,
\* and all have when commit returned, whatever timed-out requests of earlier
\* transactions are still under way.
AtomicOnOneLink ==
  \A s \in Streams :
    /\ (book[s].state = "committed" /\ book[s].sameLink) => book[s].writes \subseteq db
    /\ (book[s].state = "open" /\ book[s].link = links /\ Awaited(s) = {})
         => book[s].writes \cap db = {}

\* The server never has a transaction its idle owner does not know of, so the
\* guard of Drop misses none, unless a request was given up.
OpenIsKnown ==
  \A s \in Streams :
    (alive[s] /\ Awaited(s) = {} /\ s \notin gaveUp /\ tx[s] # "none") => inTransaction[s]

\* A dropped stream's transaction ends, unless its rollback was lost to a full
\* channel or one of its requests was given up.
AbandonedEnds ==
  \A s \in Streams :
    (~alive[s] /\ s \notin lost /\ s \notin gaveUp) ~> tx[s] = "none"

\* "Wrap requests in begin ... commit to make them atomic": when every request
\* returned Ok, what the transaction wrote has taken effect.
Atomic ==
  \A s \in Streams : book[s].state = "committed" => book[s].writes \subseteq db
=============================================================================
