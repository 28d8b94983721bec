--------------------------- MODULE WatcherProofs ---------------------------
(***************************************************************************)
(* Watchers: for any watchers, keys, links and limits, the task's table    *)
(* and the server's agree once the packets on the wire are read, and every *)
(* step is, to the owners, a step of WatchRegister or none: what get       *)
(* returns never goes back.                                                *)
(***************************************************************************)
EXTENDS Watchers, SequenceTheorems, FiniteSetTheorems, TLAPS

-----------------------------------------------------------------------------
(* The inductive invariant *)

\* The drain goes on as long as something is deferred; a list holds watchers of
\* its key.
TaskInv == /\ phase = "drain" => deferred # <<>>
           /\ \A k \in Key : \A w \in subs[k] : keyOf[w] = k

About(i, k) == i \in 1 .. Len(wire) /\ wire[i].key = k

\* The last packet about k, or the session without one, is as the table has it.
Agreed(k) ==
  \/ /\ \A i \in 1 .. Len(wire) : ~About(i, k)
     /\ srv[k] # "none" <=> k \in entry
  \/ \E i \in 1 .. Len(wire) :
       /\ About(i, k)
       /\ \A j \in 1 .. Len(wire) : About(j, k) => j <= i
       /\ wire[i].op = "WATCH" <=> k \in entry

TableInv == link = "up" => \A k \in Key : Agreed(k)

\* Versions only grow on their way: from what was read to what was broadcast.
VersionInv ==
  /\ \A w \in Watcher : got[w] <= cell[w] /\ cell[w] <= value[keyOf[w]]
  /\ \A i \in 1 .. Len(inbox) :
       /\ inbox[i].version <= value[inbox[i].key]
       /\ \A w \in Watcher : keyOf[w] = inbox[i].key => cell[w] <= inbox[i].version
  /\ \A i, j \in 1 .. Len(inbox) :
       i < j /\ inbox[i].key = inbox[j].key => inbox[i].version <= inbox[j].version

IndInv == TypeOK /\ TaskInv /\ TableInv /\ VersionInv
-----------------------------------------------------------------------------
(* Sequences *)

\* A sequence with one more element.
LEMMA AppendFacts ==
  ASSUME NEW S, NEW q \in Seq(S), NEW x \in S
  PROVE  /\ Append(q, x) \in Seq(S)
         /\ Len(q) \in Nat /\ Len(Append(q, x)) = Len(q) + 1
         /\ \A i \in 1 .. Len(q) : Append(q, x)[i] = q[i] /\ q[i] \in S
         /\ Append(q, x)[Len(q) + 1] = x
         /\ q \o <<x>> = Append(q, x)
  BY AppendIsConcat

\* A sequence without its head.
LEMMA TailFacts ==
  ASSUME NEW S, NEW q \in Seq(S), q # <<>>
  PROVE  /\ Tail(q) \in Seq(S)
         /\ Len(q) \in Nat /\ Len(q) >= 1 /\ Len(Tail(q)) = Len(q) - 1
         /\ Head(q) = q[1] /\ q[1] \in S
         /\ \A i \in 1 .. Len(q) - 1 : Tail(q)[i] = q[i + 1]
  OBVIOUS

\* What is cut short is a prefix.
LEMMA CutFacts ==
  ASSUME NEW S, NEW q \in Seq(S), NEW n \in 0 .. Len(q)
  PROVE  /\ SubSeq(q, 1, n) \in Seq(S)
         /\ Len(SubSeq(q, 1, n)) = n
         /\ \A i \in 1 .. n : SubSeq(q, 1, n)[i] = q[i] /\ i \in 1 .. Len(q)
  <1>1. Len(q) \in Nat /\ n \in Int /\ \A i \in 1 .. n : i \in 1 .. Len(q) /\ q[i] \in S
    OBVIOUS
  <1> QED BY <1>1, SubSeqProperties

\* A sequence made of a finite set has each of its elements once.
LEMMA SetToSeqFacts ==
  ASSUME NEW S, IsFiniteSet(S)
  PROVE  /\ SetToSeq(S) \in Seq(S)
         /\ \A i, j \in 1 .. Len(SetToSeq(S)) : SetToSeq(S)[i] = SetToSeq(S)[j] => i = j
         /\ \A x \in S : \E i \in 1 .. Len(SetToSeq(S)) : SetToSeq(S)[i] = x
  <1> DEFINE n == Cardinality(S)
             f == SetToSeq(S)
  <1>1. n \in Nat /\ ExistsBijection(1 .. n, S)
    BY FS_CardinalityType
  <1>2. \E g \in [1 .. n -> S] : IsInjective(g)
    BY <1>1 DEF ExistsBijection, Bijection, Injection
  <1>3. f \in [1 .. n -> S] /\ IsInjective(f)
    BY <1>2 DEF SetToSeq
  <1> HIDE DEF f
  <1>4. f \in Seq(S) /\ Len(f) = n
    BY <1>1, <1>3
  <1>5. f \in Injection(1 .. n, S)
    BY <1>3 DEF Injection
  <1>6. Cardinality(1 .. n) = n
    BY <1>1, FS_Interval
  <1>7. f \in Surjection(1 .. n, S)
    BY <1>5, <1>6, FS_Injection
  <1> QED BY <1>3, <1>4, <1>7 DEF IsInjective, Surjection, f

\* The records on the links.
LEMMA RecordFacts ==
  /\ \A p \in Packet : p.key \in Key /\ p.op \in {"WATCH", "UNWATCH"}
  /\ \A k \in Key, o \in {"WATCH", "UNWATCH"} :
       /\ [op |-> o, key |-> k] \in Packet
       /\ [op |-> o, key |-> k].op = o /\ [op |-> o, key |-> k].key = k
  /\ \A e \in Event : e.key \in Key /\ e.version \in Version
  /\ \A k \in Key, v \in Version :
       /\ [key |-> k, version |-> v] \in Event
       /\ [key |-> k, version |-> v].key = k /\ [key |-> k, version |-> v].version = v
  /\ \A c \in Cmd : c.w \in Watcher /\ c.op \in {"watch", "unwatch"}
  /\ \A w \in Watcher, o \in {"watch", "unwatch"} : [op |-> o, w |-> w] \in Cmd
  BY DEF Packet, Event, Cmd

\* The packets of a re-subscription.
LEMMA ResubscriptionFacts ==
  ASSUME entry \subseteq Key
  PROVE  /\ Resubscription \in Seq(Packet)
         /\ \A i \in 1 .. Len(Resubscription) :
              Resubscription[i].op = "WATCH" /\ Resubscription[i].key \in entry
         /\ \A i, j \in 1 .. Len(Resubscription) : Resubscription[i].key = Resubscription[j].key => i = j
         /\ \A k \in entry : \E i \in 1 .. Len(Resubscription) : Resubscription[i].key = k
  <1> DEFINE q == SetToSeq(entry)
             R == [i \in 1 .. Len(q) |-> [op |-> "WATCH", key |-> q[i]]]
  <1>1. IsFiniteSet(entry)
    BY WatchBounds, FS_Subset
  <1>2. /\ q \in Seq(entry)
        /\ \A i, j \in 1 .. Len(q) : q[i] = q[j] => i = j
        /\ \A x \in entry : \E i \in 1 .. Len(q) : q[i] = x
    BY <1>1, SetToSeqFacts
  <1> HIDE DEF q
  <1>3. Len(q) \in Nat /\ \A i \in 1 .. Len(q) : q[i] \in entry
    BY <1>2
  <1>4. \A i \in 1 .. Len(q) : R[i] \in Packet /\ R[i].op = "WATCH" /\ R[i].key = q[i]
    BY <1>3, RecordFacts
  <1>5. R \in Seq(Packet) /\ Len(R) = Len(q)
    BY <1>3, <1>4
  <1>6. Resubscription = R
    BY DEF Resubscription, q
  <1> HIDE DEF R
  <1> QED BY <1>2, <1>3, <1>4, <1>5, <1>6
-----------------------------------------------------------------------------
(* The steps *)

\* A step of an owner, of the task, of the server and the link, or none.
LEMMA StepCases ==
  ASSUME [Next]_vars
  PROVE  (\E w \in Watcher : Owner(w)) \/ Task \/ Remote \/ UNCHANGED vars
  BY DEF Next, Finished

\* Taking a command.
LEMMA TakeFacts ==
  ASSUME TypeOK, TaskInv, TakeCmd
  PROVE  /\ NextCmd \in Cmd
         /\ chan' \in Seq(Cmd) /\ Len(chan') <= ChanCap
         /\ deferred' \in Seq(Cmd) /\ Len(deferred') <= MaxDeferred
  <1>1. ASSUME NEW q \in Seq(Cmd), q # <<>>, NEW n \in Nat, Len(q) <= n
        PROVE  Tail(q) \in Seq(Cmd) /\ Head(q) \in Cmd /\ Len(Tail(q)) <= n
    BY <1>1, TailFacts
  <1>2. chan \in Seq(Cmd) /\ Len(chan) <= ChanCap /\ deferred \in Seq(Cmd) /\ Len(deferred) <= MaxDeferred
    BY DEF TypeOK
  <1>3. CASE phase = "drain"
    BY <1>1, <1>2, <1>3, WatchBounds DEF TakeCmd, NextCmd, TaskInv
  <1>4. CASE phase # "drain"
    BY <1>1, <1>2, <1>4, WatchBounds DEF TakeCmd, NextCmd
  <1> QED BY <1>3, <1>4

\* What sending does to the link.
LEMMA SendFacts ==
  ASSUME TypeOK, NEW packets \in Seq(Packet), SendOrLose(packets)
  PROVE  /\ wire' \in Seq(Packet)
         /\ phase' \in {"drain", "run", "down"} /\ (phase' = "drain" => deferred' # <<>>)
         /\ link' \in {"up", "dead", "none"}
         /\ inbox' = inbox \/ inbox' = <<>>
         /\ link' = "up" => link = "up" /\ wire' = wire \o packets
  <1>1. wire \in Seq(Packet) /\ wire \o packets \in Seq(Packet)
    BY ConcatProperties DEF TypeOK
  <1> QED BY <1>1 DEF SendOrLose, LoopTop, TypeOK

\* One packet, or none.
LEMMA PacketFacts ==
  ASSUME NEW k \in Key, NEW o \in {"WATCH", "UNWATCH"}
  PROVE  <<>> \in Seq(Packet) /\ <<[op |-> o, key |-> k]>> \in Seq(Packet)
  <1>1. \A x \in Packet : <<x>> \in Seq(Packet)
    OBVIOUS
  <1>2. [op |-> o, key |-> k] \in Packet
    BY RecordFacts
  <1> QED BY <1>1, <1>2, EmptySeq
-----------------------------------------------------------------------------
(* Types *)

\* The steps of an owner.
LEMMA OwnerTypes ==
  ASSUME TypeOK, TaskInv, NEW w \in Watcher, Owner(w)
  PROVE  TypeOK' /\ TaskInv'
  <1> USE DEF TypeOK, TaskInv, Stage, app, cells, task, net, remote
  <1>0. ASSUME NEW o \in {"watch", "unwatch"}, HasRoom, chan' = Append(chan, [op |-> o, w |-> w])
        PROVE  chan' \in Seq(Cmd) /\ Len(chan') <= ChanCap
    <2>1. [op |-> o, w |-> w] \in Cmd
      BY RecordFacts
    <2>2. Len(chan) \in Nat /\ Len(chan') = Len(chan) + 1 /\ chan' \in Seq(Cmd)
      BY <1>0, <2>1, AppendFacts
    <2> QED BY <1>0, <2>2, WatchBounds DEF HasRoom
  <1>1. CASE Subscribe(w)  BY <1>1 DEF Subscribe
  <1>2. CASE SendWatch(w)
    <2>1. chan' \in Seq(Cmd) /\ Len(chan') <= ChanCap
      BY <1>0, <1>2 DEF SendWatch
    <2> QED BY <1>2, <2>1 DEF SendWatch
  <1>3. CASE SendWatchFails(w)  BY <1>3 DEF SendWatchFails
  <1>4. CASE FirstValue(w)  BY <1>4 DEF FirstValue
  <1>5. CASE FirstClosed(w)  BY <1>5 DEF FirstClosed
  <1>6. CASE CancelSubscribe(w)  BY <1>6 DEF CancelSubscribe
  <1>7. CASE Get(w)  BY <1>7 DEF Get
  <1>8. CASE Changed(w)  BY <1>8 DEF Changed
  <1>9. CASE ChangedClosed(w)  BY <1>9 DEF ChangedClosed
  <1>10. CASE DropWatcher(w)
    <2>1. chan' \in Seq(Cmd) /\ Len(chan') <= ChanCap
      BY <1>0, <1>10 DEF DropWatcher
    <2> QED BY <1>10, <2>1 DEF DropWatcher
  <1> QED BY <1>1, <1>2, <1>3, <1>4, <1>5, <1>6, <1>7, <1>8, <1>9, <1>10 DEF Owner

\* The steps of the task.
LEMMA TaskTypes ==
  ASSUME TypeOK, TaskInv, Task
  PROVE  TypeOK' /\ TaskInv'
  <1>1. CASE HandleWatch
    <2>1. PICK w \in Watcher, k \in Key : w = NextCmd.w /\ k = keyOf[w]
      BY <1>1, TakeFacts, RecordFacts DEF HandleWatch, TypeOK
    <2>2. /\ entry' = entry \cup {k} /\ subs' = [subs EXCEPT ![k] = @ \cup {w}]
          /\ SendOrLose(IF k \in entry THEN <<>> ELSE <<[op |-> "WATCH", key |-> k]>>)
          /\ UNCHANGED <<app, cells, links, remote>>
      BY <1>1, <2>1 DEF HandleWatch
    <2>3. /\ wire' \in Seq(Packet) /\ phase' \in {"drain", "run", "down"}
          /\ (phase' = "drain" => deferred' # <<>>)
          /\ link' \in {"up", "dead", "none"} /\ (inbox' = inbox \/ inbox' = <<>>)
      BY <2>2, SendFacts, PacketFacts
    <2>4. entry' \subseteq Key /\ subs' \in [Key -> SUBSET Watcher]
      BY <2>2 DEF TypeOK
    <2>5. \A l \in Key : \A v \in subs'[l] : keyOf[v] = l
      BY <2>1, <2>2 DEF TypeOK, TaskInv
    <2>6. inbox' \in Seq(Event)
      BY <2>3, EmptySeq DEF TypeOK
    <2>7. /\ chan' \in Seq(Cmd) /\ Len(chan') <= ChanCap
          /\ deferred' \in Seq(Cmd) /\ Len(deferred') <= MaxDeferred
      BY <1>1, TakeFacts DEF HandleWatch
    <2> QED BY <2>2, <2>3, <2>4, <2>5, <2>6, <2>7 DEF TypeOK, TaskInv, app, cells, remote
  <1>2. CASE HandleUnwatch
    <2>1. PICK w \in Watcher, k \in Key : w = NextCmd.w /\ k = keyOf[w]
      BY <1>2, TakeFacts, RecordFacts DEF HandleUnwatch, TypeOK
    <2>2. PICK gone \in BOOLEAN : gone = (k \in entry /\ subs[k] \ {w} = {})
      OBVIOUS
    <2>3. /\ entry' = (IF gone THEN entry \ {k} ELSE entry) /\ subs' = [subs EXCEPT ![k] = @ \ {w}]
          /\ SendOrLose(IF gone THEN <<[op |-> "UNWATCH", key |-> k]>> ELSE <<>>)
          /\ UNCHANGED <<app, cells, links, remote>>
      BY <1>2, <2>1, <2>2 DEF HandleUnwatch
    <2>4. /\ wire' \in Seq(Packet) /\ phase' \in {"drain", "run", "down"}
          /\ (phase' = "drain" => deferred' # <<>>)
          /\ link' \in {"up", "dead", "none"} /\ (inbox' = inbox \/ inbox' = <<>>)
      BY <2>3, SendFacts, PacketFacts
    <2>5. entry' \subseteq Key /\ subs' \in [Key -> SUBSET Watcher]
      BY <2>3 DEF TypeOK
    <2>6. \A l \in Key : \A v \in subs'[l] : keyOf[v] = l
      BY <2>3 DEF TypeOK, TaskInv
    <2>7. inbox' \in Seq(Event)
      BY <2>4, EmptySeq DEF TypeOK
    <2>8. /\ chan' \in Seq(Cmd) /\ Len(chan') <= ChanCap
          /\ deferred' \in Seq(Cmd) /\ Len(deferred') <= MaxDeferred
      BY <1>2, TakeFacts DEF HandleUnwatch
    <2> QED BY <2>3, <2>4, <2>5, <2>6, <2>7, <2>8 DEF TypeOK, TaskInv, app, cells, remote
  <1>3. CASE HandleEvent
    <2>1. PICK e \in Event : e = Head(inbox)
      BY <1>3, TailFacts DEF HandleEvent, TypeOK
    <2>2. e.key \in Key /\ e.version \in Version /\ e.version \in 0 .. MaxVersion
      BY WatchBounds, RecordFacts DEF Version
    <2>3. inbox' \in Seq(Event)
      BY <1>3, TailFacts DEF HandleEvent, TypeOK
    <2>4. wire' \in Seq(Packet)
      <3>1. [op |-> "WATCH", key |-> e.key] \in Packet
        BY <2>2, RecordFacts
      <3>2. wire \in Seq(Packet) /\ Append(wire, [op |-> "WATCH", key |-> e.key]) \in Seq(Packet)
        BY <3>1, AppendFacts DEF TypeOK
      <3>3. wire' = wire \/ wire' = Append(wire, [op |-> "WATCH", key |-> e.key])
        BY <1>3, <2>1 DEF HandleEvent, Acknowledge
      <3> QED BY <3>2, <3>3
    <2>5. PICK kept \in SUBSET subs[e.key] :
            /\ cell' = [w \in Watcher |-> IF w \in kept THEN e.version ELSE cell[w]]
            /\ unseen' = [w \in Watcher |-> w \in kept \/ unseen[w]]
            /\ subs' = [subs EXCEPT ![e.key] = kept]
      BY <1>3, <2>1 DEF HandleEvent, Deliver
    <2>6. cell' \in [Watcher -> 0 .. MaxVersion] /\ unseen' \in [Watcher -> BOOLEAN]
      BY <2>2, <2>5 DEF TypeOK
    <2>7. subs' \in [Key -> SUBSET Watcher]
      BY <2>2, <2>5 DEF TypeOK
    <2>8. \A l \in Key : \A v \in subs'[l] : keyOf[v] = l
      BY <2>2, <2>5 DEF TypeOK, TaskInv
    <2>9. phase' \in {"drain", "run"} /\ (phase' = "drain" => deferred # <<>>)
      BY <1>3 DEF HandleEvent, LoopTop
    <2>10. UNCHANGED <<app, chan, deferred, entry, link, links, remote>>
      BY <1>3 DEF HandleEvent
    <2> QED BY <2>3, <2>4, <2>6, <2>7, <2>8, <2>9, <2>10 DEF TypeOK, TaskInv, app, remote
  <1>4. CASE LinkLost
    BY <1>4 DEF LinkLost, TypeOK, TaskInv, app, cells, remote
  <1>5. CASE DeferCmd
    <2>1. /\ chan' \in Seq(Cmd) /\ Head(chan) \in Cmd
          /\ Len(chan) \in Nat /\ Len(chan') = Len(chan) - 1
      BY <1>5, TailFacts DEF DeferCmd, TypeOK
    <2>2. Len(chan') <= ChanCap
      BY <2>1, WatchBounds DEF TypeOK
    <2>3. deferred' \in Seq(Cmd) /\ Len(deferred') <= MaxDeferred
      <3>1. deferred \in Seq(Cmd) /\ Len(deferred) <= MaxDeferred
        BY DEF TypeOK
      <3>2. /\ Append(deferred, Head(chan)) \in Seq(Cmd)
            /\ Len(deferred) \in Nat /\ Len(Append(deferred, Head(chan))) = Len(deferred) + 1
        BY <2>1, <3>1, AppendFacts
      <3>3. deferred' = deferred \/ (Len(deferred) < MaxDeferred /\ deferred' = Append(deferred, Head(chan)))
        BY <1>5 DEF DeferCmd
      <3> QED BY <3>1, <3>2, <3>3, WatchBounds
    <2>4. leaked' \subseteq Key
      <3>1. keyOf[Head(chan).w] \in Key
        BY <2>1, RecordFacts DEF TypeOK
      <3> QED BY <1>5, <3>1 DEF DeferCmd, TypeOK
    <2> QED BY <1>5, <2>1, <2>2, <2>3, <2>4 DEF DeferCmd, TypeOK, TaskInv, cells, net, remote
  <1>6. CASE Reconnect
    <2>1. wire' \in Seq(Packet)
      BY <1>6, ResubscriptionFacts DEF Reconnect, TypeOK
    <2>2. links' \in 1 .. MaxLinks
      BY <1>6, WatchBounds DEF Reconnect, TypeOK
    <2>3. srv' \in [Key -> {"none", "ready", "busy"}] /\ inbox' \in Seq(Event)
      BY <1>6 DEF Reconnect
    <2>4. phase' \in {"drain", "run"} /\ (phase' = "drain" => deferred # <<>>)
      BY <1>6 DEF Reconnect, LoopTop
    <2> QED BY <1>6, <2>1, <2>2, <2>3, <2>4 DEF Reconnect, TypeOK, TaskInv, app, cells
  <1>7. CASE TaskEnds
    <2>1. /\ \A S : <<>> \in Seq(S)
          /\ Len(<<>>) = 0
      OBVIOUS
    <2> QED BY <1>7, <2>1, WatchBounds DEF TaskEnds, TypeOK, TaskInv, app, cells, remote
  <1> QED BY <1>1, <1>2, <1>3, <1>4, <1>5, <1>6, <1>7 DEF Task

\* The steps of the server and the link.
LEMMA RemoteTypes ==
  ASSUME TypeOK, TaskInv, Remote
  PROVE  TypeOK' /\ TaskInv'
  <1>0. ASSUME NEW k \in Key, NEW v \in Version, Notify(k, v)
        PROVE  inbox' \in Seq(Event) /\ sent' \in [Key -> 0 .. MaxVersion]
    <2>1. [key |-> k, version |-> v] \in Event /\ v \in 0 .. MaxVersion
      BY RecordFacts, WatchBounds DEF Version
    <2> QED BY <1>0, <2>1, AppendFacts DEF Notify, TypeOK
  <1>1. CASE ServerWatch
    <2>1. PICK k \in Key : k = Head(wire).key
      BY <1>1, TailFacts, RecordFacts DEF ServerWatch, TypeOK
    <2>2. wire' \in Seq(Packet)
      BY <1>1, TailFacts DEF ServerWatch, TypeOK
    <2>3. value[k] \in Version
      BY DEF TypeOK
    <2>4. inbox' \in Seq(Event) /\ sent' \in [Key -> 0 .. MaxVersion]
      BY <1>0, <1>1, <2>1, <2>3 DEF ServerWatch, TypeOK
    <2>5. srv' \in [Key -> {"none", "ready", "busy"}]
      BY <1>1, <2>1 DEF ServerWatch, TypeOK
    <2> QED BY <1>1, <2>2, <2>4, <2>5 DEF ServerWatch, TypeOK, TaskInv, app, cells, task
  <1>2. CASE ServerUnwatch
    <2>1. wire' \in Seq(Packet)
      BY <1>2, TailFacts DEF ServerUnwatch, TypeOK
    <2>2. srv' \in [Key -> {"none", "ready", "busy"}]
      BY <1>2 DEF ServerUnwatch, TypeOK
    <2> QED BY <1>2, <2>1, <2>2 DEF ServerUnwatch, TypeOK, TaskInv, app, cells, task
  <1>3. ASSUME NEW k \in Key, Broadcast(k) PROVE TypeOK' /\ TaskInv'
    <2>1. value[k] + 1 \in Version /\ value' \in [Key -> Version]
      BY <1>3, WatchBounds DEF Broadcast, TypeOK, Version
    <2>2. inbox' \in Seq(Event) /\ sent' \in [Key -> 0 .. MaxVersion]
      BY <1>0, <1>3, <2>1 DEF Broadcast, TypeOK
    <2>3. srv' \in [Key -> {"none", "ready", "busy"}]
      BY <1>3 DEF Broadcast, TypeOK
    <2> QED BY <1>3, <2>1, <2>2, <2>3 DEF Broadcast, TypeOK, TaskInv, app, cells, task
  <1>4. CASE LinkDies
    <2>1. inbox' \in Seq(Event)
      BY <1>4, CutFacts DEF LinkDies, TypeOK
    <2> QED BY <1>4, <2>1 DEF LinkDies, TypeOK, TaskInv, app, cells, task, remote
  <1> QED BY <1>1, <1>2, <1>3, <1>4 DEF Remote

\* Every step leaves every variable in its type.
LEMMA TypeStep ==
  ASSUME TypeOK, TaskInv, [Next]_vars
  PROVE  TypeOK' /\ TaskInv'
  <1>1. CASE UNCHANGED vars
    BY <1>1 DEF vars, TypeOK, TaskInv
  <1> QED BY <1>1, OwnerTypes, TaskTypes, RemoteTypes, StepCases
-----------------------------------------------------------------------------
(* The two tables *)

\* No packet was sent or read.
LEMMA AgreedFrame ==
  ASSUME NEW k, Agreed(k), wire' = wire, k \in entry' <=> k \in entry,
         srv'[k] = "none" <=> srv[k] = "none"
  PROVE  Agreed(k)'
  BY DEF Agreed, About

\* A packet was sent: it is the last about its key.
LEMMA AgreedAppend ==
  ASSUME NEW k, Agreed(k), wire \in Seq(Packet), NEW p \in Packet, wire' = Append(wire, p), srv' = srv,
         IF k = p.key THEN p.op = "WATCH" <=> k \in entry' ELSE k \in entry' <=> k \in entry
  PROVE  Agreed(k)'
  <1>1. /\ Len(wire) \in Nat /\ Len(wire') = Len(wire) + 1 /\ wire'[Len(wire) + 1] = p
        /\ \A i \in 1 .. Len(wire) : wire'[i] = wire[i]
    BY AppendFacts
  <1>2. Len(wire) + 1 \in 1 .. Len(wire')
    BY <1>1
  <1>3. CASE k = p.key
    <2>1. PICK n \in 1 .. Len(wire') : n = Len(wire) + 1
      BY <1>2
    <2>2. About(n, k)' /\ wire'[n] = p
      BY <1>1, <1>3, <2>1 DEF About
    <2>3. \A j \in 1 .. Len(wire') : j <= n
      BY <1>1, <2>1
    <2> QED BY <1>3, <2>2, <2>3 DEF Agreed
  <1>4. CASE k # p.key
    <2>1. \A i \in 1 .. Len(wire') : About(i, k)' <=> About(i, k)
      BY <1>1, <1>4 DEF About
    <2>2. \A i \in 1 .. Len(wire) : i \in 1 .. Len(wire')
      BY <1>1
    <2>3. CASE \A i \in 1 .. Len(wire) : ~About(i, k)
      <3>1. \A i : ~About(i, k)
        BY <2>3 DEF About
      <3>2. srv[k] # "none" <=> k \in entry
        BY <2>3 DEF Agreed
      <3> QED BY <1>4, <2>1, <3>1, <3>2 DEF Agreed
    <2>4. ASSUME NEW i \in 1 .. Len(wire), About(i, k),
                 \A j \in 1 .. Len(wire) : About(j, k) => j <= i,
                 wire[i].op = "WATCH" <=> k \in entry
          PROVE  Agreed(k)'
      <3>1. \A j \in 1 .. Len(wire') : About(j, k)' => j <= i
        BY <2>1, <2>4 DEF About
      <3> QED BY <1>1, <1>4, <2>1, <2>2, <2>4, <3>1 DEF Agreed
    <2> QED BY <2>3, <2>4 DEF Agreed
  <1> QED BY <1>3, <1>4

\* The server read a packet: the session is as its last packet has it.
LEMMA AgreedTail ==
  ASSUME NEW k, Agreed(k), wire \in Seq(Packet), wire # <<>>, wire' = Tail(wire), entry' = entry,
         IF k = Head(wire).key THEN Head(wire).op = "WATCH" <=> srv'[k] # "none" ELSE srv'[k] = srv[k]
  PROVE  Agreed(k)'
  <1>1. /\ Len(wire) \in Nat /\ Len(wire) >= 1 /\ Len(wire') = Len(wire) - 1 /\ Head(wire) = wire[1]
        /\ \A i \in 1 .. Len(wire') : i + 1 \in 1 .. Len(wire) /\ wire'[i] = wire[i + 1]
    BY TailFacts
  <1>2. \A i \in 1 .. Len(wire') : About(i, k)' <=> About(i + 1, k)
    BY <1>1 DEF About
  <1>3. CASE \A i \in 1 .. Len(wire) : ~About(i, k)
    <2>1. srv[k] # "none" <=> k \in entry
      BY <1>3 DEF Agreed
    <2>2. k # Head(wire).key
      BY <1>1, <1>3 DEF About
    <2> QED BY <1>1, <1>2, <1>3, <2>1, <2>2 DEF Agreed
  <1>4. ASSUME NEW i \in 1 .. Len(wire), About(i, k),
               \A j \in 1 .. Len(wire) : About(j, k) => j <= i,
               wire[i].op = "WATCH" <=> k \in entry
        PROVE  Agreed(k)'
    <2>1. CASE i = 1
      <3>1. \A j \in 1 .. Len(wire') : ~About(j, k)'
        BY <1>1, <1>2, <1>4, <2>1
      <3>2. k = Head(wire).key
        BY <1>1, <1>4, <2>1 DEF About
      <3> QED BY <1>1, <1>4, <2>1, <3>1, <3>2 DEF Agreed
    <2>2. CASE i # 1
      <3>1. i - 1 \in 1 .. Len(wire') /\ (i - 1) + 1 = i
        BY <1>1, <2>2
      <3>2. About(i - 1, k)' /\ wire'[i - 1] = wire[i]
        BY <1>1, <1>2, <1>4, <3>1
      <3>3. \A j \in 1 .. Len(wire') : About(j, k)' => j <= i - 1
        <4> SUFFICES ASSUME NEW j \in 1 .. Len(wire'), About(j, k)' PROVE j <= i - 1
          OBVIOUS
        <4>1. j + 1 \in 1 .. Len(wire) /\ About(j + 1, k)
          BY <1>1, <1>2
        <4>2. j + 1 <= i
          BY <1>4, <4>1
        <4> QED BY <4>2
      <3> QED BY <1>4, <3>1, <3>2, <3>3 DEF Agreed
    <2> QED BY <2>1, <2>2
  <1> QED BY <1>3, <1>4 DEF Agreed

\* Sending on the link, with the change of the table it tells.
LEMMA SendKeepsTables ==
  ASSUME TypeOK, TableInv, srv' = srv, link' = "up",
         NEW packets \in Seq(Packet), SendOrLose(packets),
         \/ packets = <<>> /\ entry' = entry
         \/ \E p \in Packet : /\ packets = <<p>>
                              /\ p.op = "WATCH" <=> p.key \in entry'
                              /\ \A k \in Key : k # p.key => (k \in entry' <=> k \in entry)
  PROVE  TableInv'
  <1>1. link = "up" /\ wire' = wire \o packets /\ wire \in Seq(Packet)
    BY SendFacts DEF TypeOK
  <1>2. \A k \in Key : Agreed(k)
    BY <1>1 DEF TableInv
  <1>3. CASE packets = <<>> /\ entry' = entry
    <2>1. wire' = wire
      BY <1>1, <1>3, ConcatEmptySeq
    <2> QED BY <1>2, <1>3, <2>1, AgreedFrame DEF TableInv
  <1>4. ASSUME NEW p \in Packet, packets = <<p>>, p.op = "WATCH" <=> p.key \in entry',
               \A k \in Key : k # p.key => (k \in entry' <=> k \in entry)
        PROVE  TableInv'
    <2>1. wire' = Append(wire, p)
      BY <1>1, <1>4, AppendFacts
    <2> QED BY <1>1, <1>2, <1>4, <2>1, AgreedAppend DEF TableInv
  <1> QED BY <1>3, <1>4

\* Across drops, acknowledgements and reconnects the tables agree.
LEMMA TableStep ==
  ASSUME TypeOK, TaskInv, TableInv, [Next]_vars
  PROVE  TableInv'
  <1> SUFFICES ASSUME link' = "up" PROVE TableInv'
    BY DEF TableInv
  <1>0. ASSUME link = "up", wire' = wire, entry' = entry, \A k \in Key : srv'[k] = "none" <=> srv[k] = "none"
        PROVE  TableInv'
    BY <1>0, AgreedFrame DEF TableInv
  <1>1. ASSUME NEW w \in Watcher, Owner(w) PROVE TableInv'
    <2>1. UNCHANGED <<link, wire, entry, srv>>
      BY <1>1 DEF Owner, Subscribe, SendWatch, SendWatchFails, FirstValue, FirstClosed, CancelSubscribe,
                  Get, Changed, ChangedClosed, DropWatcher, task, net, remote
    <2> QED BY <1>0, <2>1
  <1>2. CASE HandleWatch
    <2>1. PICK k \in Key : /\ entry' = entry \cup {k}
                           /\ SendOrLose(IF k \in entry THEN <<>> ELSE <<[op |-> "WATCH", key |-> k]>>)
      BY <1>2, TakeFacts, RecordFacts DEF HandleWatch, TypeOK
    <2>2. srv' = srv
      BY <1>2 DEF HandleWatch, remote
    <2>3. CASE k \in entry
      BY <2>1, <2>2, <2>3, SendKeepsTables, PacketFacts
    <2>4. CASE k \notin entry
      <3>1. PICK p \in Packet : p = [op |-> "WATCH", key |-> k] /\ p.op = "WATCH" /\ p.key = k
        BY RecordFacts
      <3>2. SendOrLose(<<p>>) /\ <<p>> \in Seq(Packet)
        BY <2>1, <2>4, <3>1, PacketFacts
      <3> QED BY <2>1, <2>2, <3>1, <3>2, SendKeepsTables
    <2> QED BY <2>3, <2>4
  <1>3. CASE HandleUnwatch
    <2>0. PICK w \in Watcher, k \in Key : w = NextCmd.w /\ k = keyOf[w]
      BY <1>3, TakeFacts, RecordFacts DEF HandleUnwatch, TypeOK
    <2>1. PICK gone \in BOOLEAN :
                /\ entry' = (IF gone THEN entry \ {k} ELSE entry)
                /\ SendOrLose(IF gone THEN <<[op |-> "UNWATCH", key |-> k]>> ELSE <<>>)
      <3>1. PICK gone \in BOOLEAN : gone = (k \in entry /\ subs[k] \ {w} = {})
        OBVIOUS
      <3> QED BY <1>3, <2>0, <3>1 DEF HandleUnwatch
    <2>2. srv' = srv
      BY <1>3 DEF HandleUnwatch, remote
    <2>3. CASE ~gone
      BY <2>1, <2>2, <2>3, SendKeepsTables, PacketFacts
    <2>4. CASE gone
      <3>1. PICK p \in Packet : p = [op |-> "UNWATCH", key |-> k] /\ p.op = "UNWATCH" /\ p.key = k
        BY RecordFacts
      <3>2. SendOrLose(<<p>>) /\ <<p>> \in Seq(Packet)
        BY <2>1, <2>4, <3>1, PacketFacts
      <3> QED BY <2>1, <2>2, <2>4, <3>1, <3>2, SendKeepsTables
    <2> QED BY <2>3, <2>4
  <1>4. CASE HandleEvent
    <2>1. PICK k \in Key : k = Head(inbox).key
      BY <1>4, TailFacts, RecordFacts DEF HandleEvent, TypeOK
    <2>2. link = "up" /\ entry' = entry /\ srv' = srv /\ wire \in Seq(Packet)
      BY <1>4 DEF HandleEvent, remote, TypeOK
    <2>3. CASE k \in entry
      <3>1. PICK p \in Packet : p = [op |-> "WATCH", key |-> k] /\ p.op = "WATCH" /\ p.key = k
        BY RecordFacts
      <3>2. wire' = Append(wire, p)
        BY <1>4, <2>1, <2>2, <2>3, <3>1 DEF HandleEvent, Acknowledge
      <3> QED BY <2>2, <2>3, <3>1, <3>2, AgreedAppend DEF TableInv
    <2>4. CASE k \notin entry
      BY <1>0, <1>4, <2>1, <2>2, <2>4 DEF HandleEvent
    <2> QED BY <2>3, <2>4
  <1>5. CASE LinkLost \/ TaskEnds \/ LinkDies
    BY <1>5 DEF LinkLost, TaskEnds, LinkDies
  <1>6. CASE DeferCmd
    BY <1>0, <1>6 DEF DeferCmd, net, remote
  <1>7. CASE Reconnect
    <2>1. /\ wire' = Resubscription /\ entry' = entry /\ entry \subseteq Key
          /\ srv' = [k \in Key |-> "none"]
      BY <1>7 DEF Reconnect, TypeOK
    <2>2. ASSUME NEW k \in Key PROVE Agreed(k)'
      <3>1. CASE k \in entry
        <4>1. PICK i \in 1 .. Len(wire') : wire'[i].key = k /\ wire'[i].op = "WATCH"
          BY <2>1, <3>1, ResubscriptionFacts
        <4>2. \A j \in 1 .. Len(wire') : wire'[j].key = k => j <= i
          BY <2>1, <4>1, ResubscriptionFacts
        <4> QED BY <2>1, <3>1, <4>1, <4>2 DEF Agreed, About
      <3>2. CASE k \notin entry
        <4>1. \A j \in 1 .. Len(wire') : wire'[j].key # k
          BY <2>1, <3>2, ResubscriptionFacts
        <4> QED BY <2>1, <3>2, <4>1 DEF Agreed, About
      <3> QED BY <3>1, <3>2
    <2> QED BY <2>2 DEF TableInv
  <1>8. CASE ServerWatch
    <2>1. PICK k \in Key : k = Head(wire).key
      BY <1>8, TailFacts, RecordFacts DEF ServerWatch, TypeOK
    <2>2. /\ link = "up" /\ entry' = entry /\ wire \in Seq(Packet) /\ wire # <<>> /\ wire' = Tail(wire)
          /\ Head(wire).op = "WATCH"
      BY <1>8 DEF ServerWatch, task, TypeOK
    <2>3. srv'[k] # "none" /\ \A l \in Key \ {k} : srv'[l] = srv[l]
      BY <1>8, <2>1 DEF ServerWatch, TypeOK
    <2> QED BY <2>1, <2>2, <2>3, AgreedTail DEF TableInv
  <1>9. CASE ServerUnwatch
    <2>1. PICK k \in Key : k = Head(wire).key
      BY <1>9, TailFacts, RecordFacts DEF ServerUnwatch, TypeOK
    <2>2. /\ link = "up" /\ entry' = entry /\ wire \in Seq(Packet) /\ wire # <<>> /\ wire' = Tail(wire)
          /\ Head(wire).op = "UNWATCH"
      BY <1>9 DEF ServerUnwatch, task, TypeOK
    <2>3. srv'[k] = "none" /\ \A l \in Key \ {k} : srv'[l] = srv[l]
      BY <1>9, <2>1 DEF ServerUnwatch, TypeOK
    <2> QED BY <2>1, <2>2, <2>3, AgreedTail DEF TableInv
  <1>10. ASSUME NEW k \in Key, Broadcast(k) PROVE TableInv'
    <2>1. \A l \in Key : srv'[l] = "none" <=> srv[l] = "none"
      BY <1>10 DEF Broadcast, TypeOK
    <2> QED BY <1>0, <1>10, <2>1 DEF Broadcast, task
  <1>11. CASE UNCHANGED vars
    BY <1>0, <1>11 DEF vars
  <1> QED BY <1>1, <1>2, <1>3, <1>4, <1>5, <1>6, <1>7, <1>8, <1>9, <1>10, <1>11, StepCases DEF Task, Remote
-----------------------------------------------------------------------------
(* Versions *)

\* An event that was sent carries the latest version of its key.
LEMMA NotifyVersions ==
  ASSUME TypeOK, VersionInv, NEW k \in Key, NEW v \in Version,
         inbox' = Append(inbox, [key |-> k, version |-> v]),
         UNCHANGED <<keyOf, cell, got>>,
         v = value'[k], value[k] <= v, \A l \in Key \ {k} : value'[l] = value[l]
  PROVE  VersionInv'
  <1>1. PICK e \in Event : e = [key |-> k, version |-> v] /\ e.key = k /\ e.version = v
    BY RecordFacts
  <1>2. /\ Len(inbox) \in Nat /\ Len(inbox') = Len(inbox) + 1 /\ inbox'[Len(inbox) + 1] = e
        /\ \A i \in 1 .. Len(inbox) : inbox'[i] = inbox[i] /\ inbox[i] \in Event
    BY <1>1, AppendFacts DEF TypeOK
  <1>3. /\ \A l \in Key : value[l] \in Nat /\ value'[l] \in Nat /\ value[l] <= value'[l]
        /\ \A w \in Watcher : keyOf[w] \in Key /\ cell[w] \in Nat /\ got[w] \in Nat
        /\ \A f \in Event : f.key \in Key /\ f.version \in Nat
        /\ v \in Nat
    <2>1. v \in Nat /\ \A l \in Key : value[l] \in Nat
      BY WatchBounds DEF TypeOK, Version
    <2>2. \A l \in Key : value'[l] \in Nat /\ value[l] <= value'[l]
      BY <2>1
    <2>3. \A w \in Watcher : keyOf[w] \in Key /\ cell[w] \in Nat /\ got[w] \in Nat
      BY WatchBounds DEF TypeOK
    <2>4. \A f \in Event : f.key \in Key /\ f.version \in Nat
      BY WatchBounds, RecordFacts DEF Version
    <2> QED BY <2>1, <2>2, <2>3, <2>4
  <1>4. /\ \A w \in Watcher : got[w] <= cell[w] /\ cell[w] <= value'[keyOf[w]]
    BY <1>3 DEF VersionInv
  <1>5. \A i \in 1 .. Len(inbox') : i \in 1 .. Len(inbox) \/ i = Len(inbox) + 1
    BY <1>2
  <1>6. ASSUME NEW i \in 1 .. Len(inbox')
        PROVE  /\ inbox'[i].version <= value'[inbox'[i].key]
               /\ \A w \in Watcher : keyOf[w] = inbox'[i].key => cell[w] <= inbox'[i].version
    <2>1. CASE i \in 1 .. Len(inbox)
      <3>1. inbox[i].version <= value[inbox[i].key]
        BY <2>1 DEF VersionInv
      <3> QED BY <1>2, <1>3, <2>1, <3>1 DEF VersionInv
    <2>2. CASE i = Len(inbox) + 1
      BY <1>1, <1>2, <1>3, <1>4, <2>2
    <2> QED BY <1>5, <2>1, <2>2
  <1>7. ASSUME NEW i \in 1 .. Len(inbox'), NEW j \in 1 .. Len(inbox'), i < j,
               inbox'[i].key = inbox'[j].key
        PROVE  inbox'[i].version <= inbox'[j].version
    <2>1. i \in 1 .. Len(inbox)
      BY <1>2, <1>7
    <2>2. CASE j \in 1 .. Len(inbox)
      BY <1>2, <1>7, <2>1, <2>2 DEF VersionInv
    <2>3. CASE j = Len(inbox) + 1
      <3>1. inbox[i].version <= value[k]
        BY <1>1, <1>2, <1>7, <2>1, <2>3 DEF VersionInv
      <3> QED BY <1>1, <1>2, <1>3, <2>1, <2>3, <3>1
    <2> QED BY <1>5, <2>2, <2>3
  <1> QED BY <1>4, <1>6, <1>7 DEF VersionInv

\* Fewer events, and nothing else changed.
LEMMA CutVersions ==
  ASSUME VersionInv, UNCHANGED <<keyOf, cell, got, value>>,
         \A i \in 1 .. Len(inbox') : i \in 1 .. Len(inbox) /\ inbox'[i] = inbox[i]
  PROVE  VersionInv'
  BY DEF VersionInv

\* Versions only grow.
LEMMA VersionStep ==
  ASSUME TypeOK, TaskInv, VersionInv, [Next]_vars
  PROVE  VersionInv'
  <1>t. /\ \A w \in Watcher : keyOf[w] \in Key /\ cell[w] \in Nat /\ got[w] \in Nat
        /\ \A l \in Key : value[l] \in Nat
    BY WatchBounds DEF TypeOK, Version
  <1>e. Len(<<>>) = 0 /\ inbox \in Seq(Event) /\ Len(inbox) \in Nat
    BY DEF TypeOK
  <1>0. ASSUME UNCHANGED <<keyOf, cell, got, value>>, inbox' = inbox \/ inbox' = <<>>
        PROVE  VersionInv'
    BY <1>0, <1>e, CutVersions
  <1>1. ASSUME NEW w \in Watcher, Owner(w) PROVE VersionInv'
    <2>1. CASE Get(w)
      <3>1. \A v \in Watcher : got'[v] = got[v] \/ got'[v] = cell[v]
        BY <2>1 DEF Get, TypeOK
      <3>2. \A v \in Watcher : got'[v] <= cell[v]
        BY <1>t, <3>1 DEF VersionInv
      <3> QED BY <2>1, <3>2 DEF Get, VersionInv, cells, net, remote
    <2>2. CASE ~Get(w)
      BY <1>0, <1>1, <2>2
      DEF Owner, Subscribe, SendWatch, SendWatchFails, FirstValue, FirstClosed, CancelSubscribe,
          Changed, ChangedClosed, DropWatcher, cells, net, remote
    <2> QED BY <2>1, <2>2
  <1>2. CASE HandleWatch
    BY <1>0, <1>2 DEF HandleWatch, SendOrLose, app, cells, remote
  <1>3. CASE HandleUnwatch
    BY <1>0, <1>3 DEF HandleUnwatch, SendOrLose, app, cells, remote
  <1>4. CASE HandleEvent
    <2>1. /\ Len(inbox) >= 1 /\ Head(inbox) = inbox[1] /\ inbox[1] \in Event
          /\ Len(inbox') = Len(inbox) - 1
          /\ \A i \in 1 .. Len(inbox') : i + 1 \in 1 .. Len(inbox) /\ inbox'[i] = inbox[i + 1]
      BY <1>4, <1>e, TailFacts DEF HandleEvent
    <2>2. PICK e \in Event : e = inbox[1]
      BY <2>1
    <2>3. e.key \in Key /\ e.version \in Nat
      BY RecordFacts, WatchBounds DEF Version
    <2>4. UNCHANGED <<keyOf, got, value>>
      BY <1>4 DEF HandleEvent, app, remote
    <2>5. ASSUME NEW w \in Watcher
          PROVE  cell'[w] = cell[w] \/ (cell'[w] = e.version /\ keyOf[w] = e.key)
      BY <1>4, <2>1, <2>2, <2>3 DEF HandleEvent, Deliver, TypeOK, TaskInv
    <2>6. /\ e.version <= value[e.key]
          /\ \A w \in Watcher : keyOf[w] = e.key => cell[w] <= e.version
      BY <1>e, <2>1, <2>2 DEF VersionInv
    <2>7. ASSUME NEW i \in 1 .. Len(inbox'), inbox'[i].key = e.key PROVE e.version <= inbox'[i].version
      <3>1. 1 \in 1 .. Len(inbox) /\ i + 1 \in 1 .. Len(inbox) /\ 1 < i + 1 /\ inbox'[i] = inbox[i + 1]
        BY <1>e, <2>1
      <3> QED BY <2>2, <2>7, <3>1 DEF VersionInv
    <2>8. \A w \in Watcher : got[w] <= cell'[w] /\ cell'[w] <= value[keyOf[w]]
      <3> SUFFICES ASSUME NEW w \in Watcher PROVE got[w] <= cell'[w] /\ cell'[w] <= value[keyOf[w]]
        OBVIOUS
      <3>1. got[w] <= cell[w] /\ cell[w] <= value[keyOf[w]]
        BY DEF VersionInv
      <3> QED BY <1>t, <2>3, <2>5, <2>6, <3>1
    <2>9. \A i \in 1 .. Len(inbox') :
            /\ inbox'[i].version <= value[inbox'[i].key]
            /\ \A w \in Watcher : keyOf[w] = inbox'[i].key => cell'[w] <= inbox'[i].version
      <3> SUFFICES ASSUME NEW i \in 1 .. Len(inbox'), NEW w \in Watcher
                   PROVE  /\ inbox'[i].version <= value[inbox'[i].key]
                          /\ keyOf[w] = inbox'[i].key => cell'[w] <= inbox'[i].version
        <4>1. \A i \in 1 .. Len(inbox') : inbox'[i].version <= value[inbox'[i].key]
          BY <2>1 DEF VersionInv
        <4> QED BY <4>1
      <3>1. /\ inbox'[i].version <= value[inbox'[i].key]
            /\ keyOf[w] = inbox'[i].key => cell[w] <= inbox'[i].version
        BY <2>1 DEF VersionInv
      <3> QED BY <2>5, <2>7, <3>1
    <2>10. ASSUME NEW i \in 1 .. Len(inbox'), NEW j \in 1 .. Len(inbox'), i < j,
                  inbox'[i].key = inbox'[j].key
           PROVE  inbox'[i].version <= inbox'[j].version
      <3>1. /\ i + 1 \in 1 .. Len(inbox) /\ j + 1 \in 1 .. Len(inbox) /\ i + 1 < j + 1
            /\ inbox'[i] = inbox[i + 1] /\ inbox'[j] = inbox[j + 1]
        BY <2>1, <2>10
      <3> QED BY <2>10, <3>1 DEF VersionInv
    <2> QED BY <2>4, <2>8, <2>9, <2>10 DEF VersionInv
  <1>5. CASE LinkLost \/ DeferCmd \/ Reconnect \/ TaskEnds
    BY <1>0, <1>5 DEF LinkLost, DeferCmd, Reconnect, TaskEnds, app, cells, net, remote
  <1>6. CASE ServerWatch
    <2>1. PICK k \in Key : k = Head(wire).key
      BY <1>6, TailFacts, RecordFacts DEF ServerWatch, TypeOK
    <2>2. UNCHANGED <<keyOf, cell, got, value>> /\ value[k] \in Version
      BY <1>6 DEF ServerWatch, app, cells, TypeOK
    <2>3. inbox' = inbox \/ inbox' = Append(inbox, [key |-> k, version |-> value[k]])
      BY <1>6, <2>1 DEF ServerWatch, Notify
    <2>4. CASE inbox' = inbox
      BY <1>0, <2>2, <2>4
    <2>5. CASE inbox' = Append(inbox, [key |-> k, version |-> value[k]])
      BY <1>t, <2>2, <2>5, NotifyVersions
    <2> QED BY <2>3, <2>4, <2>5
  <1>7. CASE ServerUnwatch
    BY <1>0, <1>7 DEF ServerUnwatch, app, cells
  <1>8. ASSUME NEW k \in Key, Broadcast(k) PROVE VersionInv'
    <2>1. PICK v \in Version : v = value[k] + 1
      BY <1>8, WatchBounds DEF Broadcast, TypeOK, Version
    <2>2. /\ UNCHANGED <<keyOf, cell, got>> /\ v = value'[k] /\ value[k] <= v
          /\ \A l \in Key \ {k} : value'[l] = value[l]
      BY <1>8, <2>1, <1>t DEF Broadcast, app, cells, TypeOK
    <2>3. inbox' = inbox \/ inbox' = Append(inbox, [key |-> k, version |-> v])
      BY <1>8, <2>1 DEF Broadcast, Notify
    <2>4. CASE inbox' = inbox
      <3>1. \A l \in Key : value[l] <= value'[l] /\ value'[l] \in Nat
        BY <1>t, <2>1, <2>2
      <3>2. \A i \in 1 .. Len(inbox) : inbox[i] \in Event /\ inbox[i].key \in Key /\ inbox[i].version \in Nat
        BY <1>e, RecordFacts, WatchBounds DEF Version
      <3>3. \A w \in Watcher : got[w] <= cell[w] /\ cell[w] <= value'[keyOf[w]]
        BY <1>t, <3>1 DEF VersionInv
      <3>4. \A i \in 1 .. Len(inbox) : inbox[i].version <= value'[inbox[i].key]
        BY <1>t, <3>1, <3>2 DEF VersionInv
      <3> QED BY <2>2, <2>4, <3>3, <3>4 DEF VersionInv
    <2>5. CASE inbox' = Append(inbox, [key |-> k, version |-> v])
      BY <2>2, <2>5, NotifyVersions
    <2> QED BY <2>3, <2>4, <2>5
  <1>9. CASE LinkDies
    <2>1. PICK n \in 0 .. Len(inbox) : inbox' = SubSeq(inbox, 1, n)
      BY <1>9 DEF LinkDies
    <2>2. Len(inbox') = n /\ \A i \in 1 .. n : inbox'[i] = inbox[i] /\ i \in 1 .. Len(inbox)
      BY <1>e, <2>1, CutFacts
    <2> QED BY <1>9, <2>2, CutVersions DEF LinkDies, app, cells, remote
  <1>10. CASE UNCHANGED vars
    BY <1>0, <1>10 DEF vars
  <1> QED BY <1>1, <1>2, <1>3, <1>4, <1>5, <1>6, <1>7, <1>8, <1>9, <1>10, StepCases DEF Task, Remote
-----------------------------------------------------------------------------
(* The theorems *)

LEMMA InitInd == Init => IndInv
  <1> SUFFICES ASSUME Init PROVE IndInv
    OBVIOUS
  <1>1. Len(<<>>) = 0 /\ \A S : <<>> \in Seq(S)
    BY EmptySeq
  <1>2. Len(wire) = 0 /\ Len(inbox) = 0
    BY <1>1 DEF Init
  <1>3. TypeOK
    BY <1>1, WatchBounds DEF Init, TypeOK, Stage, Version
  <1>4. TaskInv /\ TableInv
    BY <1>2 DEF Init, TaskInv, TableInv, Agreed, About
  <1>5. VersionInv
    BY <1>2 DEF Init, VersionInv
  <1> QED BY <1>3, <1>4, <1>5 DEF IndInv

LEMMA Inductive == Spec => []IndInv
  <1>1. IndInv /\ [Next]_vars => IndInv'
    BY TypeStep, TableStep, VersionStep DEF IndInv
  <1> QED BY <1>1, InitInd, PTL DEF Spec

\* Every variable keeps its type; the command channel and the list of deferred
\* commands keep their limits.
THEOREM TypeCorrect == Spec => []TypeOK
  BY Inductive, PTL DEF IndInv

\* The table of the task and the one of the server agree as soon as the packets
\* on the wire are read, across drops, acknowledgements and reconnects.
THEOREM TablesStayInStep == Spec => []TablesAgree
  <1>1. ASSUME NEW k \in Key, Agreed(k), wire \in Seq(Packet)
        PROVE  WillBeSubscribed(k) <=> k \in entry
    <2> DEFINE about == {i \in 1 .. Len(wire) : wire[i].key = k}
    <2>1. CASE about = {}
      <3>1. \A i \in 1 .. Len(wire) : ~About(i, k)
        BY <2>1 DEF About
      <3> QED BY <1>1, <2>1, <3>1 DEF WillBeSubscribed, Agreed
    <2>2. CASE about # {}
      <3>1. PICK i \in 1 .. Len(wire) : /\ About(i, k)
                                        /\ \A j \in 1 .. Len(wire) : About(j, k) => j <= i
                                        /\ wire[i].op = "WATCH" <=> k \in entry
        BY <1>1, <2>2 DEF Agreed, About
      <3>2. i \in about /\ \A j \in about : i >= j
        BY <3>1 DEF About
      <3>3. \A x \in about : (\A j \in about : x >= j) => x = i
        BY <3>2
      <3>4. Max(about) = i
        BY <3>2, <3>3 DEF Max
      <3> QED BY <2>2, <3>1, <3>4 DEF WillBeSubscribed
    <2> QED BY <2>1, <2>2
  <1>2. IndInv => TablesAgree
    BY <1>1 DEF IndInv, TypeOK, TableInv, TablesAgree
  <1> QED BY <1>2, Inductive, PTL

\* What the register calls `open`.
Opened == [w \in Watcher |-> OpenState(stage[w])]

\* A step no owner sees.
LEMMA Invisible ==
  ASSUME UNCHANGED <<stage, keyOf, got, value>>
  PROVE  UNCHANGED Register!vars
  BY DEF Register!vars, OpenState

\* A step of the owner of w that only moves it on.
LEMMA Moved ==
  ASSUME TypeOK, NEW w \in Watcher, NEW st, stage' = [stage EXCEPT ![w] = st],
         UNCHANGED <<keyOf, got, value>>,
         \/ OpenState(st) = OpenState(stage[w])
         \/ OpenState(stage[w]) = "no" /\ OpenState(st) = "yes"
         \/ OpenState(stage[w]) \in {"no", "yes"} /\ OpenState(st) = "over"
  PROVE  Register!Next \/ UNCHANGED Register!vars
  <1>1. Opened' = [Opened EXCEPT ![w] = OpenState(st)] /\ Opened[w] = OpenState(stage[w])
    BY DEF Opened, TypeOK
  <1>2. CASE OpenState(st) = OpenState(stage[w])
    <2>1. Opened' = Opened
      BY <1>1, <1>2 DEF Opened
    <2> QED BY <2>1 DEF Register!vars, Opened
  <1>3. CASE OpenState(stage[w]) = "no" /\ OpenState(st) = "yes"
    <2>1. Register!Open(w)
      BY <1>1, <1>3 DEF Register!Open, Opened
    <2> QED BY <2>1 DEF Register!Next
  <1>4. CASE OpenState(stage[w]) \in {"no", "yes"} /\ OpenState(st) = "over"
    <2>1. Register!End(w)
      BY <1>1, <1>4 DEF Register!End, Opened
    <2> QED BY <2>1 DEF Register!Next
  <1> QED BY <1>2, <1>3, <1>4

\* The stages, to the register.
LEMMA OpenStates ==
  /\ OpenState("idle") = "no" /\ OpenState("sending") = "no" /\ OpenState("first") = "no"
  /\ OpenState("live") = "yes" /\ OpenState("watching") = "yes"
  /\ OpenState("closed") = "over" /\ OpenState("gone") = "over"
  BY DEF OpenState

\* What an owner does is a step of the register.
LEMMA OwnerRefines ==
  ASSUME IndInv, NEW w \in Watcher, Owner(w)
  PROVE  Register!Next \/ UNCHANGED Register!vars
  <1>0. TypeOK
    BY DEF IndInv
  <1> USE OpenStates DEF app, cells, net, remote
  <1>1. CASE Subscribe(w)  BY <1>0, <1>1, Moved DEF Subscribe
  <1>2. CASE SendWatch(w)  BY <1>0, <1>2, Moved DEF SendWatch
  <1>3. CASE SendWatchFails(w)  BY <1>0, <1>3, Moved DEF SendWatchFails
  <1>4. CASE FirstValue(w)  BY <1>0, <1>4, Moved DEF FirstValue
  <1>5. CASE FirstClosed(w)  BY <1>0, <1>5, Moved DEF FirstClosed
  <1>6. CASE CancelSubscribe(w)  BY <1>0, <1>6, Moved DEF CancelSubscribe
  <1>7. CASE Get(w)
    <2>1. Opened[w] = "yes" /\ Opened' = Opened
      BY <1>0, <1>7 DEF Get, Opened, TypeOK
    <2>2. got' = [got EXCEPT ![w] = cell[w]] /\ UNCHANGED <<keyOf, value>>
      BY <1>7 DEF Get
    <2>3. /\ got[w] \in Nat /\ cell[w] \in Nat /\ value[keyOf[w]] \in Nat
          /\ got[w] <= cell[w] /\ cell[w] <= value[keyOf[w]]
      BY <1>0, WatchBounds DEF TypeOK, Version, IndInv, VersionInv
    <2>4. CASE cell[w] = got[w]
      <3>1. got' = got
        BY <1>0, <2>2, <2>4 DEF TypeOK
      <3> QED BY <2>1, <2>2, <3>1 DEF Register!vars, Opened
    <2>5. CASE cell[w] # got[w]
      <3>1. cell[w] \in got[w] + 1 .. value[keyOf[w]]
        BY <2>3, <2>5
      <3>2. Register!Show(w)
        BY <2>1, <2>2, <3>1 DEF Register!Show, Opened
      <3> QED BY <3>2 DEF Register!Next
    <2> QED BY <2>4, <2>5
  <1>8. CASE Changed(w)  BY <1>0, <1>8, Moved DEF Changed
  <1>9. CASE ChangedClosed(w)  BY <1>0, <1>9, Moved DEF ChangedClosed
  <1>10. CASE DropWatcher(w)  BY <1>0, <1>10, Moved DEF DropWatcher
  <1> QED BY <1>1, <1>2, <1>3, <1>4, <1>5, <1>6, <1>7, <1>8, <1>9, <1>10 DEF Owner

\* A watcher is a reader of a register: to its owner, every step of the system
\* opens it, shows a version later than the last one and no later than the
\* latest broadcast, ends it, or is nothing at all.
THEOREM WatcherRefinesRegister == Spec => Register!Steps
  <1>1. Init => Register!Init
    BY OpenStates DEF Init, Register!Init
  <1>2. IndInv /\ [Next]_vars => [Register!Next]_(Register!vars)
    <2> SUFFICES ASSUME IndInv, [Next]_vars PROVE Register!Next \/ UNCHANGED Register!vars
      OBVIOUS
    <2>1. CASE Task
      BY <2>1, Invisible
      DEF Task, HandleWatch, HandleUnwatch, HandleEvent, LinkLost, DeferCmd, Reconnect, TaskEnds,
          app, remote
    <2>2. CASE ServerWatch \/ ServerUnwatch \/ LinkDies
      BY <2>2, Invisible DEF ServerWatch, ServerUnwatch, LinkDies, app, remote
    <2>3. ASSUME NEW k \in Key, Broadcast(k) PROVE Register!Next
      <3>1. Register!Set(k)
        BY <2>3 DEF Broadcast, Register!Set, app, OpenState
      <3> QED BY <3>1 DEF Register!Next
    <2>4. CASE UNCHANGED vars
      BY <2>4, Invisible DEF vars
    <2> QED BY <2>1, <2>2, <2>3, <2>4, OwnerRefines, StepCases DEF Remote
  <1> QED BY <1>1, <1>2, Inductive, PTL DEF Spec, Register!Steps
=============================================================================
