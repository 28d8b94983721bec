----------------------------- MODULE Connection -----------------------------
(***************************************************************************)
(* The heart of the client, src/src/connection.rs: callers that allocate a *)
(* sync and push a command into a bounded channel, the one task that owns  *)
(* the link, pairs replies with requests, buffers commands during a        *)
(* reconnect and winds down on close or on the server's announcement, and  *)
(* the link and server as far as the task can observe them.                *)
(*                                                                         *)
(* This module is the projection of the task on Request, Fire and Close;   *)
(* the packets of watchers are seen here only through box.shutdown.        *)
(***************************************************************************)
EXTENDS Naturals, Sequences

CONSTANTS
  MaxSync,          \* bound: requests made (next_sync itself is a u64)
  MaxFires,         \* bound: fire-and-forget packets (Drop of Stream, Statement)
  MaxLinks,         \* bound: links established; the last one stays up
  ChanCap,          \* capacity of the command channel (1024 in the code)
  MaxDeferred,      \* MAX_DEFERRED (4096 in the code)
  MinDelay,         \* Reconnect::Backoff.min
  MaxDelay,         \* Reconnect::Backoff.max
  Retry,            \* TRUE: Reconnect::Backoff, FALSE: Reconnect::Never
  HasTimeout,       \* a request_timeout is configured
  ShutdownWatched   \* the application holds a watcher on box.shutdown

ASSUME BoundsAssumption == /\ MaxSync \in Nat
                           /\ MaxFires \in Nat
                           /\ MaxLinks \in Nat \ {0}
                           /\ ChanCap \in Nat \ {0}
                           /\ MaxDeferred \in Nat
ASSUME DelayAssumption == MinDelay \in Nat /\ MaxDelay \in Nat
ASSUME OptionAssumption == /\ Retry \in BOOLEAN
                           /\ HasTimeout \in BOOLEAN
                           /\ ShutdownWatched \in BOOLEAN

VARIABLES
  \* callers
  nextSync,     \* Shared.next_sync
  call,         \* call[s]: where the caller of request s is
  handles,      \* some Handle is alive, so the channel has a sender
  fires,        \* how many Fire commands were attempted
  closeSent,    \* Client::close put its command into the channel
  \* the channel and the shared flag
  chan,         \* commands between the handles and the task
  ticket,       \* history: how many commands ever entered the channel
  closed,       \* Shared.closed
  \* the task
  phase,        \* where Task::run is
  deferred,     \* Task.deferred
  pending,      \* Task.pending, by sync
  shutting,     \* Task.shutting_down
  delay,        \* `delay` of Task::reconnect
  lastSent,     \* history: ticket of the last command put on a link
  \* the link and the server
  link,         \* the socket as the task can find it
  gen,          \* how many links were established
  wire,         \* requests handed to the current link and not yet executed
  inbox,        \* packets on their way from the server
  orphan,       \* requests of earlier links the server may still execute
  announced,    \* the server behind the current link announced box.shutdown
  execs         \* execs[s]: how often the server executed s

callers == <<nextSync, handles, fires, closeSent>>
channel == <<chan, ticket>>
server == <<gen, orphan, announced, execs>>
vars == <<nextSync, call, handles, fires, closeSent, chan, ticket, closed, phase,
          deferred, pending, shutting, delay, lastSent, link, gen, wire, inbox,
          orphan, announced, execs>>

Sync == 1 .. MaxSync

\* A caller is in flight from next_sync() to the result of the request.
InProgress == {"alloc", "sending", "waiting"}
Outcome == {"answered", "closed", "shutting_down", "timeout", "cancelled"}

\* Command: n is the ticket, a history value; only a Request has a sync.
Command == [kind : {"request"}, sync : Sync, n : Nat]
           \cup [kind : {"fire", "close"}, sync : {0}, n : Nat]
Packet == [kind : {"reply"}, sync : Sync, down : {FALSE}]
          \cup [kind : {"event"}, sync : {0}, down : BOOLEAN]

\* The syncs of the requests among the commands of a queue.
SyncsIn(q) == {q[i].sync : i \in {j \in 1 .. Len(q) : q[j].kind = "request"}}

FlagsOK == /\ handles \in BOOLEAN
           /\ closeSent \in BOOLEAN
           /\ closed \in BOOLEAN
           /\ shutting \in BOOLEAN
           /\ announced \in BOOLEAN

\* The type of every variable, with the bounds of the two queues.
TypeOK == /\ FlagsOK
          /\ nextSync \in Nat \ {0}
          /\ call \in [Sync -> {"idle"} \cup InProgress \cup Outcome]
          /\ fires \in 0 .. MaxFires
          /\ chan \in Seq(Command) /\ Len(chan) <= ChanCap
          /\ ticket \in Nat
          /\ phase \in {"drain", "select", "sleep", "handshake", "giveup",
                        "closing", "done"}
          /\ deferred \in Seq(Command) /\ Len(deferred) <= MaxDeferred
          /\ pending \subseteq Sync
          /\ delay \in Nat
          /\ lastSent \in Nat
          /\ link \in {"up", "dead", "broken", "none"}
          /\ gen \in 1 .. MaxLinks
          /\ wire \subseteq Sync
          /\ inbox \in Seq(Packet)
          /\ orphan \subseteq Sync
          /\ execs \in [Sync -> Nat]

\* Handle::connect returned: the handshake is done and the task spawned.
Init == /\ nextSync = 1
        /\ call = [s \in Sync |-> "idle"]
        /\ handles = TRUE
        /\ fires = 0
        /\ closeSent = FALSE
        /\ chan = <<>>
        /\ ticket = 0
        /\ closed = FALSE
        /\ phase = "select"
        /\ deferred = <<>>
        /\ pending = {}
        /\ shutting = FALSE
        /\ delay = MinDelay
        /\ lastSent = 0
        /\ link = "up"
        /\ gen = 1
        /\ wire = {}
        /\ inbox = <<>>
        /\ orphan = {}
        /\ announced = FALSE
        /\ execs = [s \in Sync |-> 0]

-----------------------------------------------------------------------------
(* Callers *)

\* handle.next_sync(), before the packet is encoded.
NextSync ==
  /\ handles
  /\ nextSync <= MaxSync
  /\ nextSync' = nextSync + 1
  /\ call' = [call EXCEPT ![nextSync] = "alloc"]
  /\ UNCHANGED <<handles, fires, closeSent, channel, closed, phase, deferred,
                 pending, shutting, delay, lastSent, link, wire, inbox, server>>

\* request_inner: the early return on the shared flag.
CheckClosed(s) ==
  /\ call[s] = "alloc"
  /\ call' = [call EXCEPT ![s] = IF closed THEN "closed" ELSE "sending"]
  /\ UNCHANGED <<callers, channel, closed, phase, deferred, pending, shutting,
                 delay, lastSent, link, wire, inbox, server>>

\* The channel accepts a command while the receiver lives and there is room.
HasRoom == phase # "done" /\ Len(chan) < ChanCap

Push(kind, s) ==
  /\ chan' = Append(chan, [kind |-> kind, sync |-> s, n |-> ticket + 1])
  /\ ticket' = ticket + 1

\* request_inner: tx.send(Command::Request).await gets a permit.
Submit(s) ==
  /\ call[s] = "sending"
  /\ HasRoom
  /\ Push("request", s)
  /\ call' = [call EXCEPT ![s] = "waiting"]
  /\ UNCHANGED <<callers, closed, phase, deferred, pending, shutting, delay,
                 lastSent, link, wire, inbox, server>>

\* request_inner: tx.send fails because the task dropped the receiver.
SubmitFails(s) ==
  /\ call[s] = "sending"
  /\ phase = "done"
  /\ call' = [call EXCEPT ![s] = "closed"]
  /\ UNCHANGED <<callers, channel, closed, phase, deferred, pending, shutting,
                 delay, lastSent, link, wire, inbox, server>>

\* request_inner: the deadline passes while the reply is awaited.
Timeout(s) ==
  /\ HasTimeout
  /\ call[s] = "waiting"
  /\ call' = [call EXCEPT ![s] = "timeout"]
  /\ UNCHANGED <<callers, channel, closed, phase, deferred, pending, shutting,
                 delay, lastSent, link, wire, inbox, server>>

\* The caller drops the future of its request.
Cancel(s) ==
  /\ call[s] \in {"sending", "waiting"}
  /\ call' = [call EXCEPT ![s] = "cancelled"]
  /\ UNCHANGED <<callers, channel, closed, phase, deferred, pending, shutting,
                 delay, lastSent, link, wire, inbox, server>>

\* Handle::fire: try_send, so a full or a closed channel loses the packet.
Fire ==
  /\ handles
  /\ fires < MaxFires
  /\ fires' = fires + 1
  /\ IF HasRoom THEN Push("fire", 0) ELSE UNCHANGED channel
  /\ UNCHANGED <<nextSync, call, handles, closeSent, closed, phase, deferred,
                 pending, shutting, delay, lastSent, link, wire, inbox, server>>

\* Handle::close.  One such call suffices: the task never reads past the first.
Close ==
  /\ handles
  /\ ~closeSent
  /\ HasRoom
  /\ Push("close", 0)
  /\ closeSent' = TRUE
  /\ UNCHANGED <<nextSync, call, handles, fires, closed, phase, deferred,
                 pending, shutting, delay, lastSent, link, wire, inbox, server>>

\* The last clone of the Client goes; every call in progress borrows one.
DropHandles ==
  /\ handles
  /\ \A s \in Sync : call[s] \notin InProgress
  /\ handles' = FALSE
  /\ UNCHANGED <<nextSync, call, fires, closeSent, channel, closed, phase,
                 deferred, pending, shutting, delay, lastSent, link, wire,
                 inbox, server>>

-----------------------------------------------------------------------------
(* The task *)

\* Sending on a oneshot whose receiver is gone is ignored: only callers that
\* still wait learn the outcome.
Settle(S, outcome) ==
  [s \in Sync |-> IF s \in S /\ call[s] = "waiting" THEN outcome ELSE call[s]]

\* The syncs a command carries.
SyncOf(cmd) == IF cmd.kind = "request" THEN {cmd.sync} ELSE {}

\* The top of the loop of Task::run: deferred commands before new ones.
LoopTop(left) == IF left = <<>> THEN "select" ELSE "drain"

\* Where Outcome::Lost leads: Task::reconnect, which gives up under Never.
LostPhase == IF Retry THEN "sleep" ELSE "giveup"

\* handle_command refuses a Request after the server announced its shutdown.
Refused(cmd) == cmd.kind = "request" /\ shutting

\* Mutant: the refusal is sent, and so is the packet.
HandleOk_RefusesLate(cmd) ==
  /\ link \in {"up", "dead"}
  /\ call' = IF Refused(cmd) THEN Settle({cmd.sync}, "shutting_down") ELSE call
  /\ pending' = pending \cup SyncOf(cmd)
  /\ wire' = IF link = "up" THEN wire \cup SyncOf(cmd) ELSE wire
  /\ lastSent' = cmd.n

\* handle_command returns Ok: the Request is refused, or the packet is flushed
\* into the socket.  On a link whose peer is gone the flush may still succeed:
\* the bytes are lost and nobody is told.
HandleOk(cmd) ==
  \/ /\ Refused(cmd)
     /\ call' = Settle({cmd.sync}, "shutting_down")
     /\ UNCHANGED <<pending, wire, lastSent>>
  \/ /\ ~Refused(cmd)
     /\ link \in {"up", "dead"}
     /\ pending' = pending \cup SyncOf(cmd)
     /\ wire' = IF link = "up" THEN wire \cup SyncOf(cmd) ELSE wire
     /\ lastSent' = cmd.n
     /\ UNCHANGED call

\* handle_command returns Err: the Request is in `pending` before the send, so
\* the fail_link that follows in Task::run settles it with the others.
HandleErr(cmd) ==
  /\ ~Refused(cmd)
  /\ link \in {"dead", "broken"}
  /\ call' = Settle(pending \cup SyncOf(cmd), "closed")
  /\ pending' = {}
  /\ UNCHANGED <<wire, lastSent>>

\* Task::run, the drain loop: one deferred command handled.
DrainOk ==
  /\ phase = "drain"
  /\ HandleOk(Head(deferred))
  /\ deferred' = Tail(deferred)
  /\ phase' = LoopTop(Tail(deferred))
  /\ UNCHANGED <<callers, channel, closed, shutting, delay, link, inbox, server>>

\* Task::run, the drain loop: the send fails, the loop breaks, and select! runs
\* with the link that just failed; the rest stays deferred.
DrainErr ==
  /\ phase = "drain"
  /\ HandleErr(Head(deferred))
  /\ deferred' = Tail(deferred)
  /\ link' = "broken"
  /\ phase' = "select"
  /\ UNCHANGED <<callers, channel, closed, shutting, delay, inbox, server>>

\* Task::run, the command branch of select!: Outcome::Continue.
CommandOk ==
  /\ phase = "select"
  /\ chan # <<>>
  /\ Head(chan).kind # "close"
  /\ HandleOk(Head(chan))
  /\ chan' = Tail(chan)
  /\ phase' = LoopTop(deferred)
  /\ UNCHANGED <<callers, ticket, closed, deferred, shutting, delay, link, inbox,
                 server>>

\* Task::run, the command branch of select!: Outcome::Lost.
CommandErr ==
  /\ phase = "select"
  /\ chan # <<>>
  /\ Head(chan).kind # "close"
  /\ HandleErr(Head(chan))
  /\ chan' = Tail(chan)
  /\ link' = "none"
  /\ inbox' = <<>>
  /\ phase' = LostPhase
  /\ delay' = MinDelay
  /\ UNCHANGED <<callers, ticket, closed, deferred, shutting, server>>

\* Mutant: the flag is set but the loop goes on.
CommandClose_KeepsRunning ==
  /\ phase = "select"
  /\ \/ chan # <<>> /\ Head(chan).kind = "close" /\ chan' = Tail(chan)
     \/ chan = <<>> /\ ~handles /\ UNCHANGED chan
  /\ closed' = TRUE
  /\ phase' = LoopTop(deferred)
  /\ UNCHANGED <<callers, call, ticket, deferred, pending, shutting, delay,
                 lastSent, link, wire, inbox, server>>

\* Task::run, the command branch of select!: Command::Close, or the channel is
\* empty and has no sender left; the first step of Outcome::Close.
CommandClose ==
  /\ phase = "select"
  /\ \/ chan # <<>> /\ Head(chan).kind = "close" /\ chan' = Tail(chan)
     \/ chan = <<>> /\ ~handles /\ UNCHANGED chan
  /\ closed' = TRUE
  /\ phase' = "closing"
  /\ UNCHANGED <<callers, call, ticket, deferred, pending, shutting, delay,
                 lastSent, link, wire, inbox, server>>

\* After a packet: leave for good once the shutdown was announced and nothing
\* is in flight.
AfterPacket ==
  IF shutting' /\ pending' = {}
  THEN closed' = TRUE /\ phase' = "closing"
  ELSE phase' = LoopTop(deferred) /\ UNCHANGED closed

\* Mutant: replies are paired with requests by order instead of by sync.
PacketReply_FirstPending ==
  /\ phase = "select"
  /\ inbox # <<>>
  /\ Head(inbox).kind = "reply"
  /\ LET first == {p \in pending : \A q \in pending : p <= q}
     IN /\ call' = Settle(first, "answered")
        /\ pending' = pending \ first
  /\ inbox' = Tail(inbox)
  /\ UNCHANGED shutting
  /\ AfterPacket
  /\ UNCHANGED <<callers, channel, deferred, delay, lastSent, link, wire, server>>

\* handle_response, Kind::Ok or Kind::Error: the reply goes to its own request,
\* or to nobody.
PacketReply ==
  /\ phase = "select"
  /\ inbox # <<>>
  /\ Head(inbox).kind = "reply"
  /\ LET s == Head(inbox).sync
     IN /\ call' = Settle({s} \cap pending, "answered")
        /\ pending' = pending \ {s}
  /\ inbox' = Tail(inbox)
  /\ UNCHANGED shutting
  /\ AfterPacket
  /\ UNCHANGED <<callers, channel, deferred, delay, lastSent, link, wire, server>>

\* handle_response, Kind::Event for box.shutdown.
PacketEvent ==
  /\ phase = "select"
  /\ inbox # <<>>
  /\ Head(inbox).kind = "event"
  /\ shutting' = (shutting \/ Head(inbox).down)
  /\ inbox' = Tail(inbox)
  /\ UNCHANGED pending
  /\ AfterPacket
  /\ UNCHANGED <<callers, call, channel, deferred, delay, lastSent, link, wire,
                 server>>

\* Mutant: fail_link is forgotten, the requests in flight stay pending.
PacketLost_KeepsPending ==
  /\ phase = "select"
  /\ link \in {"dead", "broken"}
  /\ inbox = <<>>
  /\ link' = "none"
  /\ phase' = LostPhase
  /\ delay' = MinDelay
  /\ UNCHANGED <<callers, call, channel, closed, deferred, pending, shutting,
                 lastSent, wire, inbox, server>>

\* Mutant: a request in flight is sent again on the next link.
PacketLost_Resends ==
  /\ phase = "select"
  /\ link \in {"dead", "broken"}
  /\ inbox = <<>>
  /\ \E s \in pending :
       /\ deferred' = Append(deferred, [kind |-> "request", sync |-> s, n |-> lastSent])
       /\ call' = Settle(pending \ {s}, "closed")
  /\ pending' = {}
  /\ link' = "none"
  /\ phase' = LostPhase
  /\ delay' = MinDelay
  /\ UNCHANGED <<callers, channel, closed, shutting, lastSent, wire, inbox, server>>

\* Task::run, the packet branch of select!: the stream ended or failed.
PacketLost ==
  /\ phase = "select"
  /\ link \in {"dead", "broken"}
  /\ inbox = <<>>
  /\ call' = Settle(pending, "closed")
  /\ pending' = {}
  /\ link' = "none"
  /\ phase' = LostPhase
  /\ delay' = MinDelay
  /\ UNCHANGED <<callers, channel, closed, deferred, shutting, lastSent, wire,
                 inbox, server>>

\* The rest of Outcome::Close: the socket is closed, `pending` failed, and the
\* return drops the receiver and with it every queued or deferred command.
\* What is on the wire may still reach the server.
FinishClose ==
  /\ phase = "closing"
  /\ call' = Settle(pending \cup SyncsIn(deferred) \cup SyncsIn(chan), "closed")
  /\ pending' = {}
  /\ deferred' = <<>>
  /\ chan' = <<>>
  /\ phase' = "done"
  /\ link' = "none"
  /\ wire' = {}
  /\ inbox' = <<>>
  /\ \E S \in SUBSET wire : orphan' = orphan \cup S
  /\ UNCHANGED <<callers, ticket, closed, shutting, delay, lastSent, gen,
                 announced, execs>>

\* reconnect returned None: the flag, fail_deferred, and the receiver dropped.
GiveUp ==
  /\ phase = "giveup"
  /\ closed' = TRUE
  /\ call' = Settle(pending \cup SyncsIn(deferred) \cup SyncsIn(chan), "closed")
  /\ pending' = {}
  /\ deferred' = <<>>
  /\ chan' = <<>>
  /\ phase' = "done"
  /\ UNCHANGED <<callers, ticket, shutting, delay, lastSent, link, wire, inbox,
                 server>>

\* reconnect: the delay passes with no command.
SleepElapsed ==
  /\ phase = "sleep"
  /\ phase' = "handshake"
  /\ UNCHANGED <<callers, call, channel, closed, deferred, pending, shutting,
                 delay, lastSent, link, wire, inbox, server>>

\* Mutant: the bound on deferred commands is off by one.
DeferCommand_OffByOne ==
  /\ phase = "sleep"
  /\ chan # <<>>
  /\ Head(chan).kind # "close"
  /\ IF Len(deferred) > MaxDeferred
     THEN /\ call' = Settle(SyncOf(Head(chan)), "closed")
          /\ UNCHANGED deferred
     ELSE /\ deferred' = Append(deferred, Head(chan))
          /\ UNCHANGED call
  /\ chan' = Tail(chan)
  /\ phase' = "handshake"
  /\ UNCHANGED <<callers, ticket, closed, pending, shutting, delay, lastSent,
                 link, wire, inbox, server>>

\* reconnect and defer: one command per attempt is buffered, or failed when
\* the buffer is full; then the rest of the delay is slept out.
DeferCommand ==
  /\ phase = "sleep"
  /\ chan # <<>>
  /\ Head(chan).kind # "close"
  /\ IF Len(deferred) >= MaxDeferred
     THEN /\ call' = Settle(SyncOf(Head(chan)), "closed")
          /\ UNCHANGED deferred
     ELSE /\ deferred' = Append(deferred, Head(chan))
          /\ UNCHANGED call
  /\ chan' = Tail(chan)
  /\ phase' = "handshake"
  /\ UNCHANGED <<callers, ticket, closed, pending, shutting, delay, lastSent,
                 link, wire, inbox, server>>

\* Mutant: a Close that arrives during a reconnect is dropped like any command
\* that needs no reply.
CloseWhileDown_Swallows ==
  /\ phase = "sleep"
  /\ chan # <<>> /\ Head(chan).kind = "close" /\ chan' = Tail(chan)
  /\ phase' = "handshake"
  /\ UNCHANGED <<callers, call, ticket, closed, deferred, pending, shutting,
                 delay, lastSent, link, wire, inbox, server>>

\* reconnect: Close, or no handle left.
CloseWhileDown ==
  /\ phase = "sleep"
  /\ \/ chan # <<>> /\ Head(chan).kind = "close" /\ chan' = Tail(chan)
     \/ chan = <<>> /\ ~handles /\ UNCHANGED chan
  /\ phase' = "giveup"
  /\ UNCHANGED <<callers, call, ticket, closed, deferred, pending, shutting,
                 delay, lastSent, link, wire, inbox, server>>

\* Mutant: the new link is read and fed before the deferred commands are sent.
HandshakeOk_SkipsDrain ==
  /\ phase = "handshake"
  /\ gen < MaxLinks
  /\ gen' = gen + 1
  /\ link' = "up"
  /\ inbox' = <<>>
  /\ announced' = FALSE
  /\ phase' = "select"
  /\ UNCHANGED <<callers, call, channel, closed, deferred, pending, shutting,
                 delay, lastSent, wire, orphan, execs>>

\* reconnect: the handshake succeeds and every watched key is subscribed again;
\* the new server answers the subscription of box.shutdown with its value.
HandshakeOk ==
  /\ phase = "handshake"
  /\ gen < MaxLinks
  /\ gen' = gen + 1
  /\ link' = "up"
  /\ inbox' = IF ShutdownWatched
              THEN <<[kind |-> "event", sync |-> 0, down |-> FALSE]>>
              ELSE <<>>
  /\ announced' = FALSE
  /\ phase' = LoopTop(deferred)
  /\ UNCHANGED <<callers, call, channel, closed, deferred, pending, shutting,
                 delay, lastSent, wire, orphan, execs>>

\* reconnect: the handshake fails or times out; the delay doubles up to max.
HandshakeErr ==
  /\ phase = "handshake"
  /\ delay' = IF 2 * delay < MaxDelay THEN 2 * delay ELSE MaxDelay
  /\ phase' = "sleep"
  /\ UNCHANGED <<callers, call, channel, closed, deferred, pending, shutting,
                 lastSent, link, wire, inbox, server>>

-----------------------------------------------------------------------------
(* The link and the server, as the task observes them *)

\* The peer or the path goes away unnoticed: some of what was on the way, in
\* either direction, still arrives and the rest is lost.
LinkDies ==
  /\ link = "up"
  /\ gen < MaxLinks
  /\ link' = "dead"
  /\ \E S \in SUBSET wire : orphan' = orphan \cup S
  /\ wire' = {}
  /\ \E k \in 0 .. Len(inbox) : inbox' = SubSeq(inbox, 1, k)
  /\ UNCHANGED <<callers, call, channel, closed, phase, deferred, pending,
                 shutting, delay, lastSent, gen, announced, execs>>

\* Tarantool runs the requests of a connection concurrently: replies come in
\* any order.
ServerExecute(s) ==
  /\ link = "up"
  /\ s \in wire
  /\ wire' = wire \ {s}
  /\ execs' = [execs EXCEPT ![s] = @ + 1]
  /\ inbox' = Append(inbox, [kind |-> "reply", sync |-> s, down |-> FALSE])
  /\ UNCHANGED <<callers, call, channel, closed, phase, deferred, pending,
                 shutting, delay, lastSent, link, gen, orphan, announced>>

\* A request that outlived its connection runs too; its reply has nowhere to go.
ServerExecuteOrphan(s) ==
  /\ s \in orphan
  /\ orphan' = orphan \ {s}
  /\ execs' = [execs EXCEPT ![s] = @ + 1]
  /\ UNCHANGED <<callers, call, channel, closed, phase, deferred, pending,
                 shutting, delay, lastSent, link, gen, wire, inbox, announced>>

\* The server broadcasts box.shutdown = true to a client that watches it.
ServerAnnounce ==
  /\ ShutdownWatched
  /\ link = "up"
  /\ ~announced
  /\ announced' = TRUE
  /\ inbox' = Append(inbox, [kind |-> "event", sync |-> 0, down |-> TRUE])
  /\ UNCHANGED <<callers, call, channel, closed, phase, deferred, pending,
                 shutting, delay, lastSent, link, gen, wire, orphan, execs>>

-----------------------------------------------------------------------------

Caller == \/ NextSync
          \/ \E s \in Sync : \/ CheckClosed(s)
                             \/ Submit(s)
                             \/ SubmitFails(s)
                             \/ Timeout(s)
                             \/ Cancel(s)
          \/ Fire
          \/ Close
          \/ DropHandles

Task == \/ DrainOk \/ DrainErr
        \/ CommandOk \/ CommandErr \/ CommandClose
        \/ PacketReply \/ PacketEvent \/ PacketLost
        \/ FinishClose \/ GiveUp
        \/ SleepElapsed \/ DeferCommand \/ CloseWhileDown
        \/ HandshakeOk \/ HandshakeErr

Environment == \/ LinkDies
               \/ \E s \in Sync : ServerExecute(s) \/ ServerExecuteOrphan(s)
               \/ ServerAnnounce

\* The task has ended and every caller knows it: nothing is left to do.
Finished ==
  /\ phase = "done"
  /\ \A s \in Sync : call[s] \notin InProgress
  /\ UNCHANGED vars

Next == Caller \/ Task \/ Environment \/ Finished

Spec == Init /\ [][Next]_vars

-----------------------------------------------------------------------------
(* Fairness *)

\* The runtime polls a ready task, select! picks among ready branches at random
\* so that no branch is starved, sleep and the handshake (connect_timeout) end.
TaskFairness == /\ WF_vars(DrainOk \/ DrainErr)
                /\ SF_vars(CommandOk \/ CommandErr \/ CommandClose)
                /\ SF_vars(PacketReply \/ PacketEvent \/ PacketLost)
                /\ WF_vars(FinishClose)
                /\ WF_vars(GiveUp)
                /\ WF_vars(SleepElapsed \/ DeferCommand \/ CloseWhileDown)
                /\ SF_vars(DeferCommand \/ CloseWhileDown)
                /\ WF_vars(HandshakeOk \/ HandshakeErr)

\* Callers are polled; the channel hands its permits out in order.
CallerFairness == \A s \in Sync : /\ WF_vars(CheckClosed(s))
                                  /\ SF_vars(Submit(s))
                                  /\ WF_vars(SubmitFails(s))

\* The server can be reached again in the end and answers what it received.
NetworkFairness == /\ SF_vars(HandshakeOk)
                   /\ \A s \in Sync : WF_vars(ServerExecute(s))

ClientSpec == Spec /\ TaskFairness /\ CallerFairness

-----------------------------------------------------------------------------
(* Safety *)

\* At most once: a request whose link broke is failed, not sent again, so the
\* server runs no request twice, on whatever links (fail_link, reconnect).
AtMostOnce == \A s \in Sync : execs[s] <= 1

\* A caller that gets an answer gets the answer to its own request: the one the
\* server gave after running it (handle_response pairs by sync, never by order).
AnswerIsOwn == \A s \in Sync : call[s] = "answered" => execs[s] = 1

\* ShuttingDown can be retried elsewhere without a second thought: the refused
\* request did not run and is nowhere from where it could still run.
RefusalIsFinal ==
  \A s \in Sync : call[s] = "shutting_down" =>
    /\ execs[s] = 0
    /\ s \notin wire \cup orphan \cup SyncsIn(deferred) \cup SyncsIn(chan)

\* No caller is forgotten: a request whose reply is awaited is in the channel,
\* deferred, or in flight on a link the task still holds and will read from.
NobodyForgotten ==
  /\ \A s \in Sync : call[s] = "waiting" =>
        s \in pending \cup SyncsIn(deferred) \cup SyncsIn(chan)
  /\ pending # {} => link # "none"

\* Commands reach links in the order in which they entered the channel, across
\* reconnects and broken drains: deferred commands are never overtaken by
\* newer ones (a rollback fired after a request follows it).
SentInOrder == [][lastSent' # lastSent => lastSent' > lastSent]_vars

\* Once the flag says closed the task puts nothing more on the link and takes
\* no new request in, whatever is still queued or deferred.
ClosedSendsNothing ==
  [][closed => /\ closed'
               /\ lastSent' = lastSent
               /\ wire' \subseteq wire
               /\ pending' \subseteq pending]_vars

\* The connection implements the request contract: what the caller of a request
\* sees and what the server does with it, everything else hidden.
Contract == INSTANCE RequestContract WITH
  call <- [s \in Sync |-> IF call[s] \in InProgress THEN "open" ELSE call[s]]
ImplementsContract == Contract!Spec

-----------------------------------------------------------------------------
(* The inductive invariant behind the safety properties *)

Queued == SyncsIn(chan) \cup SyncsIn(deferred)

\* No sync occurs twice in a queue.
Uniq(q) == \A i, j \in 1 .. Len(q) :
  /\ q[i].kind = "request"
  /\ q[j].kind = "request"
  /\ q[i].sync = q[j].sync
  => i = j

\* A request is in at most one queue, once, and has not been sent yet.
QueueInv == /\ Uniq(chan)
            /\ Uniq(deferred)
            /\ SyncsIn(chan) \cap SyncsIn(deferred) = {}
            /\ \A s \in Queued : /\ s \notin pending \cup wire \cup orphan
                                 /\ execs[s] = 0
                                 /\ call[s] \notin {"answered", "shutting_down"}

\* A request its caller has not submitted is nowhere.
FreshInv == /\ \A s \in Sync : s >= nextSync => call[s] = "idle"
            /\ \A s \in Sync : call[s] \in {"idle", "alloc", "sending"} =>
                  /\ s \notin Queued \cup pending \cup wire \cup orphan
                  /\ execs[s] = 0

\* What is on a link or outlived one has not run; what was answered has.
FlightInv == /\ wire \cap orphan = {}
             /\ \A s \in wire \cup orphan : /\ execs[s] = 0
                                            /\ call[s] \notin {"answered", "shutting_down"}
             /\ \A i \in 1 .. Len(inbox) :
                  inbox[i].kind = "reply" => execs[inbox[i].sync] = 1

\* Which link state goes with which phase of the task.
LinkInv == /\ link = "none" <=> phase \in {"sleep", "handshake", "giveup", "done"}
           /\ link # "up" => wire = {}
           /\ phase = "drain" => deferred # <<>>

IndInv == /\ TypeOK
          /\ QueueInv
          /\ FreshInv
          /\ FlightInv
          /\ LinkInv
          /\ AtMostOnce
          /\ AnswerIsOwn
          /\ RefusalIsFinal
          /\ NobodyForgotten

\* Tickets rise along a queue.
Rising(q) == \A i, j \in 1 .. Len(q) : i < j => q[i].n < q[j].n

\* Everything already sent is older than everything deferred, which is older
\* than everything in the channel.  Only on a broken link, on which nothing can
\* be sent, does the task look at the channel before the deferred commands.
OrderInv == /\ Rising(chan)
            /\ Rising(deferred)
            /\ \A i \in 1 .. Len(chan) : lastSent < chan[i].n /\ chan[i].n <= ticket
            /\ \A j \in 1 .. Len(deferred) : lastSent < deferred[j].n /\ deferred[j].n <= ticket
            /\ \A i \in 1 .. Len(chan), j \in 1 .. Len(deferred) : deferred[j].n < chan[i].n
            /\ lastSent <= ticket
            /\ phase = "select" /\ deferred # <<>> => link = "broken"

\* The flag goes up in the very step in which the task stops handling commands.
ClosedInv == closed => phase \in {"closing", "done"}

-----------------------------------------------------------------------------
(* Liveness *)

\* Every call returns: without a request timeout, as long as links come back
\* and the server answers, whatever was lost on the way.
EveryCallReturns ==
  NetworkFairness =>
    \A s \in Sync : call[s] \in InProgress ~> call[s] \notin InProgress

\* A client that is told to close ends its task even if no server ever comes
\* back, however many commands wait in front of the Close.
CloseEndsTask == closeSent ~> phase = "done"

-----------------------------------------------------------------------------
(* What the documentation says and the code does not do *)

\* "Close the connection, letting in-flight requests finish first": closing
\* fails no request that waits for its reply on the link.
CloseLetsFinish ==
  [][phase = "closing" =>
       \A s \in pending : call[s] = "waiting" => call'[s] # "closed"]_vars

\* "The server announced it is shutting down": a request is refused only by
\* word of the server that the task is connected to.
RefusedByThisServer ==
  [][\A s \in Sync :
       call[s] # "shutting_down" /\ call'[s] = "shutting_down" => announced]_vars
=============================================================================
