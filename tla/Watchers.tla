------------------------------ MODULE Watchers ------------------------------
(***************************************************************************)
(* Subscriptions to broadcast keys: Watcher (src/src/watcher.rs), the      *)
(* watchers table of the connection task (Watch and Unwatch commands,      *)
(* events, re-subscription after a reconnect; src/src/connection.rs) and   *)
(* the server's side of IPROTO_WATCH as the client relies on it: an event  *)
(* is followed by the next one only after the client acknowledged it by    *)
(* sending WATCH again.  Requests are left out; Connection models them.    *)
(***************************************************************************)
EXTENDS Naturals, Sequences, FiniteSets, SequencesExt

CONSTANTS
  Watcher,        \* watchers the application may create (the watch ids)
  Key,            \* broadcast keys
  MaxVersion,     \* bound: the last version of a key's value
  MaxLinks,       \* bound: links established; the last one stays up
  ChanCap,        \* capacity of the command channel (1024 in the code)
  MaxDeferred,    \* MAX_DEFERRED, 4096 in the code
  MayCancel       \* the application may drop the future of Client::watch

ASSUME WatchBounds == /\ IsFiniteSet(Watcher)
                      /\ IsFiniteSet(Key)
                      /\ MaxVersion \in Nat \ {0}
                      /\ MaxLinks \in Nat \ {0}
                      /\ ChanCap \in Nat \ {0}
                      /\ MaxDeferred \in Nat
                      /\ MayCancel \in BOOLEAN

VARIABLES
  stage,      \* stage[w]: where the owner of w is
  keyOf,      \* keyOf[w]: the key w was created for
  cell,       \* cell[w]: version in w's watch channel, 0 for None
  unseen,     \* unseen[w]: the version has not been marked as seen
  got,        \* got[w]: version the last get() returned
  leaked,     \* history: keys with an Unwatch that was lost or never sent
  chan,       \* Watch and Unwatch commands on their way to the task
  phase,      \* the task: "drain" (of deferred), "run" (in select), "down" (in
              \* reconnect) or "done"
  deferred,   \* Task.deferred
  entry,      \* keys present in Task.watchers
  subs,       \* subs[k]: the watchers in the list of key k
  link,       \* "up", "dead" (the peer is gone, unnoticed) or "none"
  links,      \* how many links were established
  wire,       \* packets to the server
  inbox,      \* events to the client
  srv,        \* srv[k]: this session's subscription to k at the server
  sent,       \* sent[k]: version of the last event sent for k
  value       \* value[k]: version of the latest broadcast

app == <<stage, keyOf, got, leaked>>
cells == <<cell, unseen>>
task == <<phase, deferred, entry, subs>>
net == <<link, links, wire, inbox>>
remote == <<srv, sent, value>>
vars == <<stage, keyOf, cell, unseen, got, leaked, chan, phase, deferred, entry, subs,
          link, links, wire, inbox, srv, sent, value>>

\* "first": subscribe waits for the first event.  "live": the owner is about to
\* call get, "watching": it waits in changed.
Stage == {"idle", "sending", "first", "live", "watching", "closed", "gone"}
Version == 1 .. MaxVersion
Cmd == [op : {"watch", "unwatch"}, w : Watcher]
Packet == [op : {"WATCH", "UNWATCH"}, key : Key]
Event == [key : Key, version : Version]

\* The type of every variable.
TypeOK == /\ stage \in [Watcher -> Stage]
          /\ keyOf \in [Watcher -> Key]
          /\ cell \in [Watcher -> 0 .. MaxVersion]
          /\ unseen \in [Watcher -> BOOLEAN]
          /\ got \in [Watcher -> 0 .. MaxVersion]
          /\ leaked \subseteq Key
          /\ chan \in Seq(Cmd) /\ Len(chan) <= ChanCap
          /\ phase \in {"drain", "run", "down", "done"}
          /\ deferred \in Seq(Cmd) /\ Len(deferred) <= MaxDeferred
          /\ entry \subseteq Key
          /\ subs \in [Key -> SUBSET Watcher]
          /\ link \in {"up", "dead", "none"}
          /\ links \in 1 .. MaxLinks
          /\ wire \in Seq(Packet)
          /\ inbox \in Seq(Event)
          /\ srv \in [Key -> {"none", "ready", "busy"}]
          /\ sent \in [Key -> 0 .. MaxVersion]
          /\ value \in [Key -> Version]

Init == /\ stage = [w \in Watcher |-> "idle"]
        /\ keyOf \in [Watcher -> Key]
        /\ cell = [w \in Watcher |-> 0]
        /\ unseen = [w \in Watcher |-> FALSE]
        /\ got = [w \in Watcher |-> 0]
        /\ leaked = {}
        /\ chan = <<>>
        /\ phase = "run"
        /\ deferred = <<>>
        /\ entry = {}
        /\ subs = [k \in Key |-> {}]
        /\ link = "up"
        /\ links = 1
        /\ wire = <<>>
        /\ inbox = <<>>
        /\ srv = [k \in Key |-> "none"]
        /\ sent = [k \in Key |-> 0]
        /\ value = [k \in Key |-> 1]

HasRoom == phase # "done" /\ Len(chan) < ChanCap

\* The sender half of w's watch channel is in the task or on its way to it.
SenderAlive(w) ==
  \/ w \in subs[keyOf[w]]
  \/ \E i \in 1 .. Len(deferred \o chan) : (deferred \o chan)[i] = [op |-> "watch", w |-> w]

-----------------------------------------------------------------------------
(* The application: Client::watch and Watcher *)

\* Client::watch is called on a connection that supports watchers (on any other
\* it returns Unsupported and changes nothing); Handle::watch makes the channel.
Subscribe(w) ==
  /\ stage[w] = "idle"
  /\ stage' = [stage EXCEPT ![w] = "sending"]
  /\ UNCHANGED <<keyOf, got, leaked, cells, chan, task, net, remote>>

\* Mutant: the channel has no limit.
SendWatch_Unbounded(w) ==
  /\ stage[w] = "sending"
  /\ phase # "done"
  /\ chan' = Append(chan, [op |-> "watch", w |-> w])
  /\ stage' = [stage EXCEPT ![w] = "first"]
  /\ UNCHANGED <<keyOf, got, leaked, cells, task, net, remote>>

\* Handle::watch: tx.send(Command::Watch).await gets a permit.
SendWatch(w) ==
  /\ stage[w] = "sending"
  /\ HasRoom
  /\ chan' = Append(chan, [op |-> "watch", w |-> w])
  /\ stage' = [stage EXCEPT ![w] = "first"]
  /\ UNCHANGED <<keyOf, got, leaked, cells, task, net, remote>>

\* Handle::watch: the task is gone.
SendWatchFails(w) ==
  /\ stage[w] = "sending"
  /\ phase = "done"
  /\ stage' = [stage EXCEPT ![w] = "closed"]
  /\ UNCHANGED <<keyOf, got, leaked, cells, chan, task, net, remote>>

\* Watcher::subscribe sees the first value: found by borrow, which does not
\* mark it as seen, or awaited with changed, which does.
FirstValue(w) ==
  /\ stage[w] = "first"
  /\ cell[w] # 0
  /\ stage' = [stage EXCEPT ![w] = "live"]
  /\ \E b \in BOOLEAN : unseen' = [unseen EXCEPT ![w] = b]
  /\ UNCHANGED <<keyOf, got, leaked, cell, chan, task, net, remote>>

\* Watcher::subscribe: changed fails, the sender was dropped before any event.
FirstClosed(w) ==
  /\ stage[w] = "first"
  /\ cell[w] = 0
  /\ ~SenderAlive(w)
  /\ stage' = [stage EXCEPT ![w] = "closed"]
  /\ UNCHANGED <<keyOf, got, leaked, cells, chan, task, net, remote>>

\* The future of Client::watch is dropped: there is no Watcher yet whose Drop
\* would send Unwatch.
CancelSubscribe(w) ==
  /\ MayCancel
  /\ stage[w] \in {"sending", "first"}
  /\ stage' = [stage EXCEPT ![w] = "gone"]
  /\ leaked' = IF stage[w] = "first" THEN leaked \cup {keyOf[w]} ELSE leaked
  /\ UNCHANGED <<keyOf, got, cells, chan, task, net, remote>>

\* Watcher::get, which does not mark the value as seen.
Get(w) ==
  /\ stage[w] = "live"
  /\ got' = [got EXCEPT ![w] = cell[w]]
  /\ stage' = [stage EXCEPT ![w] = "watching"]
  /\ UNCHANGED <<keyOf, leaked, cells, chan, task, net, remote>>

\* Watcher::changed returns Ok.
Changed(w) ==
  /\ stage[w] = "watching"
  /\ unseen[w]
  /\ unseen' = [unseen EXCEPT ![w] = FALSE]
  /\ stage' = [stage EXCEPT ![w] = "live"]
  /\ UNCHANGED <<keyOf, got, leaked, cell, chan, task, net, remote>>

\* Watcher::changed returns Error::Closed.
ChangedClosed(w) ==
  /\ stage[w] = "watching"
  /\ ~unseen[w]
  /\ ~SenderAlive(w)
  /\ stage' = [stage EXCEPT ![w] = "closed"]
  /\ UNCHANGED <<keyOf, got, leaked, cells, chan, task, net, remote>>

\* Drop for Watcher: try_send, so a full channel loses the Unwatch.
DropWatcher(w) ==
  /\ stage[w] \in {"live", "watching"}
  /\ stage' = [stage EXCEPT ![w] = "gone"]
  /\ IF HasRoom
     THEN /\ chan' = Append(chan, [op |-> "unwatch", w |-> w])
          /\ UNCHANGED leaked
     ELSE /\ leaked' = leaked \cup {keyOf[w]}
          /\ UNCHANGED chan
  /\ UNCHANGED <<keyOf, got, cells, task, net, remote>>

-----------------------------------------------------------------------------
(* The task *)

\* Task::run: the top of the loop drains what was deferred, then selects.
LoopTop(rest) == IF rest = <<>> THEN "run" ELSE "drain"

NextCmd == IF phase = "drain" THEN Head(deferred) ELSE Head(chan)

TakeCmd ==
  \/ /\ phase = "drain"
     /\ deferred' = Tail(deferred)
     /\ UNCHANGED chan
  \/ /\ phase = "run"
     /\ chan # <<>>
     /\ chan' = Tail(chan)
     /\ UNCHANGED deferred

\* send on the link: flushed, or lost unnoticed, or an error.  An error in the
\* select gives the link up; one in the drain only leaves the drain.
SendOrLose(packets) ==
  \/ /\ link = "up"
     /\ wire' = wire \o packets
     /\ phase' = LoopTop(deferred')
     /\ UNCHANGED <<link, inbox>>
  \/ /\ link = "dead"
     /\ phase' = LoopTop(deferred')
     /\ UNCHANGED <<link, wire, inbox>>
  \/ /\ link = "dead"
     /\ packets # <<>>
     /\ phase = "drain"
     /\ phase' = "run"
     /\ UNCHANGED <<link, wire, inbox>>
  \/ /\ link = "dead"
     /\ packets # <<>>
     /\ phase = "run"
     /\ phase' = "down"
     /\ link' = "none"
     /\ inbox' = <<>>
     /\ UNCHANGED wire

\* handle_command, Command::Watch: only the first watcher of a key is told to
\* the server.
HandleWatch ==
  /\ TakeCmd
  /\ NextCmd.op = "watch"
  /\ LET w == NextCmd.w
         k == keyOf[w]
     IN /\ entry' = entry \cup {k}
        /\ subs' = [subs EXCEPT ![k] = @ \cup {w}]
        /\ SendOrLose(IF k \in entry THEN <<>> ELSE <<[op |-> "WATCH", key |-> k]>>)
  /\ UNCHANGED <<app, cells, links, remote>>

\* Mutant: the server is never told.
HandleUnwatch_TellsNobody ==
  /\ TakeCmd
  /\ NextCmd.op = "unwatch"
  /\ subs' = [subs EXCEPT ![keyOf[NextCmd.w]] = @ \ {NextCmd.w}]
  /\ SendOrLose(<<>>)
  /\ UNCHANGED <<app, cells, entry, links, remote>>

\* handle_command, Command::Unwatch: the server is told when the list of an
\* existing key becomes empty.
HandleUnwatch ==
  /\ TakeCmd
  /\ NextCmd.op = "unwatch"
  /\ LET w == NextCmd.w
         k == keyOf[w]
         gone == k \in entry /\ subs[k] \ {w} = {}
     IN /\ subs' = [subs EXCEPT ![k] = @ \ {w}]
        /\ entry' = IF gone THEN entry \ {k} ELSE entry
        /\ SendOrLose(IF gone THEN <<[op |-> "UNWATCH", key |-> k]>> ELSE <<>>)
  /\ UNCHANGED <<app, cells, links, remote>>

\* The event at the head of inbox reaches the watchers of its key whose
\* receiver still exists; the others are forgotten.
Deliver(e) ==
  LET kept == {w \in subs[e.key] : stage[w] # "gone"}
  IN /\ cell' = [w \in Watcher |-> IF w \in kept THEN e.version ELSE cell[w]]
     /\ unseen' = [w \in Watcher |-> w \in kept \/ unseen[w]]
     /\ subs' = [subs EXCEPT ![e.key] = kept]

\* WATCH for k, if the link still carries it; a failed acknowledgement is ignored.
Acknowledge(k) ==
  wire' = IF link = "up" THEN Append(wire, [op |-> "WATCH", key |-> k]) ELSE wire

\* Mutant: an event for a key without watchers is acknowledged too.
HandleEvent_AcksUnwatched ==
  /\ phase = "run"
  /\ inbox # <<>>
  /\ Deliver(Head(inbox))
  /\ Acknowledge(Head(inbox).key)
  /\ inbox' = Tail(inbox)
  /\ phase' = LoopTop(deferred)
  /\ UNCHANGED <<app, chan, deferred, entry, link, links, remote>>

\* Mutant: an event is not acknowledged.
HandleEvent_NoAck ==
  /\ phase = "run"
  /\ inbox # <<>>
  /\ Deliver(Head(inbox))
  /\ inbox' = Tail(inbox)
  /\ phase' = LoopTop(deferred)
  /\ UNCHANGED <<app, chan, deferred, entry, link, links, wire, remote>>

\* handle_response, Kind::Event: deliver and acknowledge, if the key has an entry.
HandleEvent ==
  /\ phase = "run"
  /\ inbox # <<>>
  /\ Deliver(Head(inbox))
  /\ IF Head(inbox).key \in entry THEN Acknowledge(Head(inbox).key) ELSE UNCHANGED wire
  /\ inbox' = Tail(inbox)
  /\ phase' = LoopTop(deferred)
  /\ UNCHANGED <<app, chan, deferred, entry, link, links, remote>>

\* Task::run: the packet branch finds the stream at its end.
LinkLost ==
  /\ phase = "run"
  /\ link = "dead"
  /\ inbox = <<>>
  /\ phase' = "down"
  /\ link' = "none"
  /\ UNCHANGED <<app, cells, chan, deferred, entry, subs, links, wire, inbox, remote>>

\* reconnect and defer: a command is buffered while the link is down; at the
\* limit it is dropped, an Unwatch with it.
DeferCmd ==
  /\ phase = "down"
  /\ chan # <<>>
  /\ chan' = Tail(chan)
  /\ \/ /\ Len(deferred) < MaxDeferred
        /\ deferred' = Append(deferred, Head(chan))
        /\ UNCHANGED leaked
     \/ /\ Len(deferred) >= MaxDeferred
        /\ leaked' = IF Head(chan).op = "unwatch" THEN leaked \cup {keyOf[Head(chan).w]} ELSE leaked
        /\ UNCHANGED deferred
  /\ UNCHANGED <<stage, keyOf, got, cells, phase, entry, subs, net, remote>>

\* One WATCH for every key of the table.
Resubscription == LET keys == SetToSeq(entry)
                  IN [i \in 1 .. Len(keys) |-> [op |-> "WATCH", key |-> keys[i]]]

\* reconnect: a new session, in which every key of the table is watched again.
Reconnect ==
  /\ phase = "down"
  /\ links < MaxLinks
  /\ phase' = LoopTop(deferred)
  /\ link' = "up"
  /\ links' = links + 1
  /\ wire' = Resubscription
  /\ inbox' = <<>>
  /\ srv' = [k \in Key |-> "none"]
  /\ UNCHANGED <<app, cells, chan, deferred, entry, subs, sent, value>>

\* The task ends, on Close or by giving up: every sender is dropped with it.
TaskEnds ==
  /\ phase \in {"run", "down"}
  /\ phase' = "done"
  /\ chan' = <<>>
  /\ deferred' = <<>>
  /\ entry' = {}
  /\ subs' = [k \in Key |-> {}]
  /\ link' = "none"
  /\ wire' = <<>>
  /\ inbox' = <<>>
  /\ UNCHANGED <<app, cells, links, remote>>

-----------------------------------------------------------------------------
(* The server and the link *)

\* Send the latest value of k and wait for its acknowledgement.
Notify(k, version) ==
  /\ inbox' = Append(inbox, [key |-> k, version |-> version])
  /\ sent' = [sent EXCEPT ![k] = version]

\* IPROTO_WATCH registers the session, or acknowledges its last event.
ServerWatch ==
  /\ link = "up"
  /\ wire # <<>>
  /\ Head(wire).op = "WATCH"
  /\ wire' = Tail(wire)
  /\ LET k == Head(wire).key
     IN IF srv[k] = "none" \/ sent[k] # value[k]
        THEN /\ Notify(k, value[k])
             /\ srv' = [srv EXCEPT ![k] = "busy"]
        ELSE /\ srv' = [srv EXCEPT ![k] = "ready"]
             /\ UNCHANGED <<inbox, sent>>
  /\ UNCHANGED <<app, cells, chan, task, link, links, value>>

\* IPROTO_UNWATCH.
ServerUnwatch ==
  /\ link = "up"
  /\ wire # <<>>
  /\ Head(wire).op = "UNWATCH"
  /\ wire' = Tail(wire)
  /\ srv' = [srv EXCEPT ![Head(wire).key] = "none"]
  /\ UNCHANGED <<app, cells, chan, task, link, links, inbox, sent, value>>

\* box.broadcast: sessions that acknowledged the last event get the next one.
Broadcast(k) ==
  /\ value[k] < MaxVersion
  /\ value' = [value EXCEPT ![k] = @ + 1]
  /\ IF link = "up" /\ srv[k] = "ready"
     THEN /\ Notify(k, value[k] + 1)
          /\ srv' = [srv EXCEPT ![k] = "busy"]
     ELSE UNCHANGED <<inbox, sent, srv>>
  /\ UNCHANGED <<app, cells, chan, task, link, links, wire>>

\* The link dies unnoticed; what was on the way to the client may be cut short.
LinkDies ==
  /\ link = "up"
  /\ links < MaxLinks
  /\ link' = "dead"
  /\ wire' = <<>>
  /\ \E n \in 0 .. Len(inbox) : inbox' = SubSeq(inbox, 1, n)
  /\ UNCHANGED <<app, cells, chan, task, links, remote>>

-----------------------------------------------------------------------------

Owner(w) == \/ Subscribe(w)
            \/ SendWatch(w)
            \/ SendWatchFails(w)
            \/ FirstValue(w)
            \/ FirstClosed(w)
            \/ CancelSubscribe(w)
            \/ Get(w)
            \/ Changed(w)
            \/ ChangedClosed(w)
            \/ DropWatcher(w)

Task == \/ HandleWatch
        \/ HandleUnwatch
        \/ HandleEvent
        \/ LinkLost
        \/ DeferCmd
        \/ Reconnect
        \/ TaskEnds

Remote == \/ ServerWatch
          \/ ServerUnwatch
          \/ \E k \in Key : Broadcast(k)
          \/ LinkDies

\* The task has ended and every owner knows it.
Finished == /\ phase = "done"
            /\ \A w \in Watcher : stage[w] \in {"closed", "gone"}
            /\ UNCHANGED vars

Next == (\E w \in Watcher : Owner(w)) \/ Task \/ Remote \/ Finished

Spec == Init /\ [][Next]_vars

\* The task and the server are scheduled, links come back, and the owner of a
\* watcher keeps reading it.
Fairness == /\ WF_vars(HandleWatch \/ HandleUnwatch)
            /\ WF_vars(HandleEvent)
            /\ WF_vars(LinkLost)
            /\ WF_vars(DeferCmd)
            /\ WF_vars(Reconnect)
            /\ WF_vars(ServerWatch \/ ServerUnwatch)
            /\ \A w \in Watcher : /\ WF_vars(SendWatch(w))
                                  /\ WF_vars(SendWatchFails(w))
                                  /\ WF_vars(FirstValue(w))
                                  /\ WF_vars(FirstClosed(w))
                                  /\ WF_vars(Get(w))
                                  /\ WF_vars(Changed(w))
                                  /\ WF_vars(ChangedClosed(w))

FairSpec == Spec /\ Fairness

-----------------------------------------------------------------------------
(* Properties *)

\* Once the server has read what is on the wire, is it subscribed to k?
WillBeSubscribed(k) ==
  LET about == {i \in 1 .. Len(wire) : wire[i].key = k}
  IN IF about = {}
     THEN srv[k] # "none"
     ELSE wire[Max(about)].op = "WATCH"

\* The task's table and the server's agree, as soon as the packets on the wire
\* are read: no key with watchers is without a subscription (across drops,
\* acknowledgements and reconnects), and none without an entry keeps one.
TablesAgree ==
  link = "up" => \A k \in Key : WillBeSubscribed(k) <=> k \in entry

OpenState(st) == CASE st \in {"idle", "sending", "first"} -> "no"
                   [] st \in {"live", "watching"} -> "yes"
                   [] st \in {"closed", "gone"} -> "over"

Register == INSTANCE WatchRegister WITH
  open <- [w \in Watcher |-> OpenState(stage[w])], shown <- got, latest <- value

\* To its owner a watcher is a reader of a register: what get returns never goes
\* back to an older value, not even across a reconnect, and once Client::watch
\* has returned it gets to every value broadcast or to a later one, until the
\* client is closed or the watcher dropped; through deferred commands, lost
\* events, resubscriptions and acknowledgements.
ImplementsRegister == Register!Spec

Wanted(k) == \E w \in Watcher : keyOf[w] = k /\ stage[w] \in {"sending", "first", "live", "watching"}

\* When the last watcher of a key goes, the server is told to stop, provided no
\* Unwatch was lost to a full channel and no subscribe was cancelled.
StopsSending ==
  \A k \in Key :
    (~Wanted(k) /\ k \notin leaked)
      ~> (srv[k] = "none" \/ link # "up" \/ Wanted(k) \/ k \in leaked)
=============================================================================
