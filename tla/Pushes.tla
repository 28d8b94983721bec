------------------------------- MODULE Pushes -------------------------------
(***************************************************************************)
(* Calls whose function pushes values before it returns: PushCall          *)
(* (src/src/client.rs), request_with_pushes, PushStream and the chunk arm  *)
(* of handle_response (src/src/connection.rs).  Several calls share the    *)
(* link; each has an unbounded queue of chunks and a oneshot for its       *)
(* reply.  A queue ends when its sender is dropped, with the entry of the  *)
(* pending table that holds it.                                            *)
(***************************************************************************)
EXTENDS Naturals, Sequences, SequencesExt

CONSTANTS
  Call,         \* concurrent calls; a call stands for its sync
  MaxPush,      \* bound: values a function pushes
  HasTimeout    \* a request_timeout is set

ASSUME PushBounds == MaxPush \in Nat /\ HasTimeout \in BOOLEAN

VARIABLES
  reader,     \* reader[c]: the owner of the PushCall
  chan,       \* calls whose Request command is queued
  pending,    \* calls in Task.pending
  link,       \* "up", or "down" once it was lost (the task does not retry)
  inbox,      \* chunks and replies to the client
  queue,      \* queue[c]: chunks in the mpsc channel
  reply,      \* reply[c]: what the oneshot holds
  read,       \* read[c]: chunks next_push returned
  result,     \* result[c]: what finish returned
  running,    \* functions the server is running
  pushed      \* pushed[c]: how many values the function pushed

vars == <<reader, chan, pending, link, inbox, queue, reply, read, result, running, pushed>>

\* The owner reads pushes until None ("reading" to "ended"), then calls finish.
\* "early" is an owner that finished before the end and dropped the queue.
Reader == {"idle", "reading", "ended", "early", "finished", "gone"}
Item == [call : Call, kind : {"chunk", "reply"}, n : 0 .. MaxPush]

\* The type of every variable.
TypeOK == /\ reader \in [Call -> Reader]
          /\ chan \in Seq(Call)
          /\ pending \subseteq Call
          /\ link \in {"up", "down"}
          /\ inbox \in Seq(Item)
          /\ queue \in [Call -> Seq(1 .. MaxPush)]
          /\ reply \in [Call -> {"none", "ok", "closed"}]
          /\ read \in [Call -> Seq(1 .. MaxPush)]
          /\ result \in [Call -> {"none", "ok", "closed", "timeout"}]
          /\ running \subseteq Call
          /\ pushed \in [Call -> 0 .. MaxPush]

Init == /\ reader = [c \in Call |-> "idle"]
        /\ chan = <<>>
        /\ pending = {}
        /\ link = "up"
        /\ inbox = <<>>
        /\ queue = [c \in Call |-> <<>>]
        /\ reply = [c \in Call |-> "none"]
        /\ read = [c \in Call |-> <<>>]
        /\ result = [c \in Call |-> "none"]
        /\ running = {}
        /\ pushed = [c \in Call |-> 0]

-----------------------------------------------------------------------------
(* The owner of a PushCall *)

\* PushCall::start: request_with_pushes hands the packet over at once.
Start(c) ==
  /\ reader[c] = "idle"
  /\ link = "up"
  /\ reader' = [reader EXCEPT ![c] = "reading"]
  /\ chan' = Append(chan, c)
  /\ UNCHANGED <<pending, link, inbox, queue, reply, read, result, running, pushed>>

\* request_with_pushes after the client was closed.
StartClosed(c) ==
  /\ reader[c] = "idle"
  /\ link = "down"
  /\ reader' = [reader EXCEPT ![c] = "finished"]
  /\ result' = [result EXCEPT ![c] = "closed"]
  /\ UNCHANGED <<chan, pending, link, inbox, queue, reply, read, running, pushed>>

\* next_push returns Some.
NextPush(c) ==
  /\ reader[c] = "reading"
  /\ queue[c] # <<>>
  /\ read' = [read EXCEPT ![c] = Append(@, Head(queue[c]))]
  /\ queue' = [queue EXCEPT ![c] = Tail(@)]
  /\ UNCHANGED <<reader, chan, pending, link, inbox, reply, result, running, pushed>>

\* The sender of c's queue exists: in the command, or in the pending entry.
SenderAlive(c) == c \in pending \/ Contains(chan, c)

\* next_push returns None: the queue is empty and its sender gone.
NextPushNone(c) ==
  /\ reader[c] = "reading"
  /\ queue[c] = <<>>
  /\ ~SenderAlive(c)
  /\ reader' = [reader EXCEPT ![c] = "ended"]
  /\ UNCHANGED <<chan, pending, link, inbox, queue, reply, read, result, running, pushed>>

\* finish before the end of the pushes, which are dropped.
FinishEarly(c) ==
  /\ reader[c] = "reading"
  /\ reader' = [reader EXCEPT ![c] = "early"]
  /\ queue' = [queue EXCEPT ![c] = <<>>]
  /\ UNCHANGED <<chan, pending, link, inbox, reply, read, result, running, pushed>>

\* PushStream::finish returns what the oneshot holds.
Finish(c) ==
  /\ reader[c] \in {"ended", "early"}
  /\ reply[c] # "none"
  /\ result' = [result EXCEPT ![c] = reply[c]]
  /\ reader' = [reader EXCEPT ![c] = "finished"]
  /\ UNCHANGED <<chan, pending, link, inbox, queue, reply, read, running, pushed>>

\* PushStream::finish: the request timeout starts when finish is called.
FinishTimeout(c) ==
  /\ HasTimeout
  /\ reader[c] \in {"ended", "early"}
  /\ reply[c] = "none"
  /\ result' = [result EXCEPT ![c] = "timeout"]
  /\ reader' = [reader EXCEPT ![c] = "finished"]
  /\ UNCHANGED <<chan, pending, link, inbox, queue, reply, read, running, pushed>>

\* The PushCall is dropped.
Abandon(c) ==
  /\ reader[c] \in {"reading", "ended"}
  /\ reader' = [reader EXCEPT ![c] = "gone"]
  /\ queue' = [queue EXCEPT ![c] = <<>>]
  /\ UNCHANGED <<chan, pending, link, inbox, reply, read, result, running, pushed>>

-----------------------------------------------------------------------------
(* The task *)

\* handle_command, Command::Request: the entry owns the sender of the queue.
HandleRequest ==
  /\ link = "up"
  /\ chan # <<>>
  /\ chan' = Tail(chan)
  /\ pending' = pending \cup {Head(chan)}
  /\ running' = running \cup {Head(chan)}
  /\ UNCHANGED <<reader, link, inbox, queue, reply, read, result, pushed>>

\* A chunk goes to c, whose receiver may be gone.
Deliver(c, n) ==
  queue' = [queue EXCEPT ![c] = IF reader[c] = "reading" THEN Append(@, n) ELSE @]

\* Mutant: the chunk goes to the only request that listens, whichever it is.
HandleChunk_AnyPending ==
  /\ link = "up"
  /\ inbox # <<>>
  /\ Head(inbox).kind = "chunk"
  /\ inbox' = Tail(inbox)
  /\ \E c \in pending : Deliver(c, Head(inbox).n)
  /\ UNCHANGED <<reader, chan, pending, link, reply, read, result, running, pushed>>

\* handle_response, Kind::Chunk: to the queue of the request with its sync.
HandleChunk ==
  /\ link = "up"
  /\ inbox # <<>>
  /\ Head(inbox).kind = "chunk"
  /\ inbox' = Tail(inbox)
  /\ IF Head(inbox).call \in pending
     THEN Deliver(Head(inbox).call, Head(inbox).n)
     ELSE UNCHANGED queue
  /\ UNCHANGED <<reader, chan, pending, link, reply, read, result, running, pushed>>

\* Mutant: the entry stays in the table, and the sender with it.
HandleReply_KeepsEntry ==
  /\ link = "up"
  /\ inbox # <<>>
  /\ Head(inbox).kind = "reply"
  /\ inbox' = Tail(inbox)
  /\ reply' = [reply EXCEPT ![Head(inbox).call] = "ok"]
  /\ UNCHANGED <<reader, chan, pending, link, queue, read, result, running, pushed>>

\* handle_response, Kind::Ok or Kind::Error: removing the entry drops the sender,
\* which ends the push stream.
HandleReply ==
  /\ link = "up"
  /\ inbox # <<>>
  /\ Head(inbox).kind = "reply"
  /\ inbox' = Tail(inbox)
  /\ pending' = pending \ {Head(inbox).call}
  /\ reply' = [reply EXCEPT ![Head(inbox).call] = "ok"]
  /\ UNCHANGED <<reader, chan, link, queue, read, result, running, pushed>>

\* Calls not answered yet that the task holds, or that wait in its channel.
Unanswered == pending \cup {c \in Call : Contains(chan, c)}

\* The link is lost and not re-established, or the client is closed:
\* fail_pending, and the end of the task, settle everyone with Closed.
LinkLost ==
  /\ link = "up"
  /\ link' = "down"
  /\ reply' = [c \in Call |-> IF c \in Unanswered THEN "closed" ELSE reply[c]]
  /\ pending' = {}
  /\ chan' = <<>>
  /\ inbox' = <<>>
  /\ UNCHANGED <<reader, queue, read, result, running, pushed>>

-----------------------------------------------------------------------------
(* The server *)

\* box.session.push().
ServerPush(c) ==
  /\ link = "up"
  /\ c \in running
  /\ pushed[c] < MaxPush
  /\ pushed' = [pushed EXCEPT ![c] = @ + 1]
  /\ inbox' = Append(inbox, [call |-> c, kind |-> "chunk", n |-> pushed[c] + 1])
  /\ UNCHANGED <<reader, chan, pending, link, queue, reply, read, result, running>>

\* The function returns; its reply follows its chunks.
ServerReturn(c) ==
  /\ link = "up"
  /\ c \in running
  /\ running' = running \ {c}
  /\ inbox' = Append(inbox, [call |-> c, kind |-> "reply", n |-> 0])
  /\ UNCHANGED <<reader, chan, pending, link, queue, reply, read, result, pushed>>

-----------------------------------------------------------------------------

Owner(c) == \/ Start(c)
            \/ StartClosed(c)
            \/ NextPush(c)
            \/ NextPushNone(c)
            \/ FinishEarly(c)
            \/ Finish(c)
            \/ FinishTimeout(c)
            \/ Abandon(c)

Task == HandleRequest \/ HandleChunk \/ HandleReply \/ LinkLost

Next == \/ \E c \in Call : Owner(c) \/ ServerPush(c) \/ ServerReturn(c)
        \/ Task

Spec == Init /\ [][Next]_vars

\* The task runs, functions return, and owners go on reading.
Fairness == /\ WF_vars(HandleRequest \/ HandleChunk \/ HandleReply)
            /\ \A c \in Call : /\ WF_vars(ServerReturn(c))
                               /\ WF_vars(NextPush(c) \/ NextPushNone(c))
                               /\ WF_vars(Finish(c))

FairSpec == Spec /\ Fairness

-----------------------------------------------------------------------------
(* Properties *)

Count(n) == [i \in 1 .. n |-> i]

\* A reader gets its own function's pushes, in order and without a gap; after
\* None and an Ok from finish it has them all, however calls interleave and
\* wherever the link is cut (and every variable has its type).
PushesComplete ==
  TypeOK /\ \A c \in Call :
    /\ IsPrefix(read[c], Count(pushed[c]))
    /\ (reader[c] = "ended" /\ reply[c] = "ok") => read[c] = Count(pushed[c])

\* Everyone who reads to the end sees None, and then finish return, although
\* neither next_push nor the queue has a timeout.
PushesEnd ==
  \A c \in Call : reader[c] = "reading" ~> reader[c] \in {"early", "finished", "gone"}
=============================================================================
