-------------------------- MODULE ConnectionProofs --------------------------
(***************************************************************************)
(* Proofs about Connection for every number of requests, links and         *)
(* commands and every capacity: the invariant IndInv is inductive, so each *)
(* safety invariant of the module holds of Spec, and Spec implements the   *)
(* contract of a request.                                                  *)
(***************************************************************************)
EXTENDS Connection, TLAPS

-----------------------------------------------------------------------------
(* Queues of commands *)

\* Appending a command to a queue adds its sync, if it has one.
LEMMA AppendSyncs ==
  ASSUME NEW q \in Seq(Command), NEW c \in Command
  PROVE  /\ Append(q, c) \in Seq(Command)
         /\ Len(Append(q, c)) = Len(q) + 1
         /\ SyncsIn(Append(q, c)) = SyncsIn(q) \cup SyncOf(c)
  <1> DEFINE a == Append(q, c)
  <1>1. /\ a \in Seq(Command)
        /\ Len(a) = Len(q) + 1
        /\ \A i \in 1 .. Len(q) : a[i] = q[i]
        /\ a[Len(q) + 1] = c
        /\ Len(q) \in Nat
    OBVIOUS
  <1>2. ASSUME NEW s \in SyncsIn(a)
        PROVE  s \in SyncsIn(q) \cup SyncOf(c)
    <2>1. PICK i \in 1 .. Len(a) : a[i].kind = "request" /\ s = a[i].sync
      BY <1>2 DEF SyncsIn
    <2>2. CASE i = Len(q) + 1
      BY <1>1, <2>1, <2>2 DEF SyncOf
    <2>3. CASE i # Len(q) + 1
      <3>1. i \in 1 .. Len(q) /\ q[i].kind = "request" /\ s = q[i].sync
        BY <1>1, <2>1, <2>3
      <3> QED BY <3>1 DEF SyncsIn
    <2> QED BY <2>2, <2>3
  <1>3. ASSUME NEW s \in SyncsIn(q)
        PROVE  s \in SyncsIn(a)
    <2>1. PICK i \in 1 .. Len(q) : q[i].kind = "request" /\ s = q[i].sync
      BY <1>3 DEF SyncsIn
    <2>2. i \in 1 .. Len(a) /\ a[i].kind = "request" /\ s = a[i].sync
      BY <1>1, <2>1
    <2> QED BY <2>2 DEF SyncsIn
  <1>4. ASSUME NEW s \in SyncOf(c)
        PROVE  s \in SyncsIn(a)
    <2>1. Len(q) + 1 \in 1 .. Len(a) /\ a[Len(q) + 1].kind = "request"
          /\ s = a[Len(q) + 1].sync
      BY <1>1, <1>4 DEF SyncOf
    <2> QED BY <2>1 DEF SyncsIn
  <1> QED BY <1>1, <1>2, <1>3, <1>4

\* A queue without repeated syncs stays one when a new sync is appended.
LEMMA AppendUniq ==
  ASSUME NEW q \in Seq(Command), NEW c \in Command, Uniq(q),
         SyncOf(c) \cap SyncsIn(q) = {}
  PROVE  Uniq(Append(q, c))
  <1> DEFINE a == Append(q, c)
  <1>1. /\ Len(a) = Len(q) + 1
        /\ \A i \in 1 .. Len(q) : a[i] = q[i]
        /\ a[Len(q) + 1] = c
        /\ Len(q) \in Nat
    OBVIOUS
  <1>2. \A i \in 1 .. Len(q) : q[i].kind = "request" /\ c.kind = "request" => q[i].sync # c.sync
    BY DEF SyncsIn, SyncOf
  <1> QED BY <1>1, <1>2 DEF Uniq

\* Taking the head off a queue without repeated syncs removes exactly its sync.
LEMMA TailSyncs ==
  ASSUME NEW q \in Seq(Command), q # <<>>, Uniq(q)
  PROVE  /\ Head(q) \in Command
         /\ Tail(q) \in Seq(Command)
         /\ Len(Tail(q)) = Len(q) - 1
         /\ Len(q) > 0
         /\ Uniq(Tail(q))
         /\ SyncOf(Head(q)) \subseteq SyncsIn(q)
         /\ SyncsIn(Tail(q)) = SyncsIn(q) \ SyncOf(Head(q))
  <1> DEFINE t == Tail(q)
  <1>1. /\ t \in Seq(Command)
        /\ Len(q) \in Nat /\ Len(q) > 0
        /\ Len(t) = Len(q) - 1
        /\ \A i \in 1 .. Len(t) : t[i] = q[i + 1]
        /\ Head(q) = q[1]
        /\ Head(q) \in Command
    OBVIOUS
  <1>2. Uniq(t)
    BY <1>1 DEF Uniq
  <1>3. SyncOf(Head(q)) \subseteq SyncsIn(q)
    BY <1>1 DEF SyncOf, SyncsIn
  <1>4. ASSUME NEW s \in SyncsIn(t)
        PROVE  s \in SyncsIn(q) \ SyncOf(Head(q))
    <2>1. PICK i \in 1 .. Len(t) : t[i].kind = "request" /\ s = t[i].sync
      BY <1>4 DEF SyncsIn
    <2>2. i + 1 \in 1 .. Len(q) /\ q[i + 1].kind = "request" /\ s = q[i + 1].sync
      BY <1>1, <2>1
    <2>3. s \in SyncsIn(q)
      BY <2>2 DEF SyncsIn
    <2>4. s \notin SyncOf(Head(q))
      <3>1. 1 \in 1 .. Len(q) /\ i + 1 # 1
        BY <1>1, <2>1
      <3> QED BY <1>1, <2>2, <3>1 DEF Uniq, SyncOf
    <2> QED BY <2>3, <2>4
  <1>5. ASSUME NEW s \in SyncsIn(q), s \notin SyncOf(Head(q))
        PROVE  s \in SyncsIn(t)
    <2>1. PICK i \in 1 .. Len(q) : q[i].kind = "request" /\ s = q[i].sync
      BY <1>5 DEF SyncsIn
    <2>2. i # 1
      BY <1>1, <1>5, <2>1 DEF SyncOf
    <2>3. i - 1 \in 1 .. Len(t) /\ t[i - 1].kind = "request" /\ s = t[i - 1].sync
      BY <1>1, <2>1, <2>2
    <2> QED BY <2>3 DEF SyncsIn
  <1> QED BY <1>1, <1>2, <1>3, <1>4, <1>5

\* An empty queue holds no sync.
LEMMA EmptySyncs == SyncsIn(<<>>) = {} /\ Uniq(<<>>) /\ <<>> \in Seq(Command)
  BY DEF SyncsIn, Uniq

\* The syncs of a queue are syncs of requests.
LEMMA SyncsInSync ==
  ASSUME NEW q \in Seq(Command)
  PROVE  SyncsIn(q) \subseteq Sync
  BY DEF SyncsIn, Command

\* A command carries at most one sync.
LEMMA SyncOfCommand ==
  ASSUME NEW c \in Command
  PROVE  /\ SyncOf(c) \subseteq Sync
         /\ c.n \in Nat
         /\ c.kind = "request" => SyncOf(c) = {c.sync} /\ c.sync \in Sync
         /\ c.kind # "request" => SyncOf(c) = {}
  BY DEF SyncOf, Command

\* The commands a task has yet to handle belong to requests.
LEMMA QueuedSync ==
  ASSUME TypeOK
  PROVE  /\ Queued \subseteq Sync
         /\ SyncsIn(chan) \subseteq Sync
         /\ SyncsIn(deferred) \subseteq Sync
  BY SyncsInSync DEF TypeOK, Queued

\* What handling the first command of a queue takes from it.
Taken(q, rest) ==
  /\ Head(q) \in Command
  /\ rest \in Seq(Command)
  /\ Len(rest) = Len(q) - 1
  /\ Uniq(rest)
  /\ SyncOf(Head(q)) \subseteq SyncsIn(q) \cap Sync
  /\ SyncsIn(rest) = SyncsIn(q) \ SyncOf(Head(q))
  /\ Head(q).n \in Nat
  /\ Head(q).kind = "request" => SyncOf(Head(q)) = {Head(q).sync}
  /\ Head(q).kind # "request" => SyncOf(Head(q)) = {}

\* Taking the head off a queue of distinct requests is a Taken step, and the head
\* is no longer in what is left.
LEMMA TakeHead ==
  ASSUME NEW q \in Seq(Command), q # <<>>, Uniq(q)
  PROVE  Taken(q, Tail(q))
  BY TailSyncs, SyncOfCommand DEF Taken

-----------------------------------------------------------------------------
(* IndInv is inductive *)

\* The task starts with nothing queued, pending or executed.
LEMMA InitInv == Init => IndInv
  <1> SUFFICES ASSUME Init PROVE IndInv
    OBVIOUS
  <1> USE BoundsAssumption, DelayAssumption, EmptySyncs
  <1>1. TypeOK
    <2>1. FlagsOK
      BY DEF Init, FlagsOK
    <2>2. /\ call \in [Sync -> {"idle"} \cup InProgress \cup Outcome]
          /\ execs \in [Sync -> Nat]
          /\ inbox \in Seq(Packet)
      BY DEF Init
    <2> QED BY <2>1, <2>2 DEF Init, TypeOK
  <1> QED BY <1>1 DEF Init, IndInv, QueueInv, FreshInv, FlightInv, LinkInv, AtMostOnce,
       AnswerIsOwn, RefusalIsFinal, NobodyForgotten, Queued

\* Steps that move no request: the commands queued are the same requests, and
\* every reply still to be read is to a request that ran.
LEMMA FrameInv ==
  ASSUME IndInv, TypeOK', LinkInv',
         UNCHANGED <<nextSync, call, pending, wire, orphan, execs>>,
         Uniq(chan'), SyncsIn(chan') = SyncsIn(chan),
         UNCHANGED deferred,
         \A i \in 1 .. Len(inbox') : inbox'[i].kind = "reply" => execs[inbox'[i].sync] = 1,
         pending # {} => link' # "none"
  PROVE  IndInv'
  <1>1. QueueInv'
    BY DEF IndInv, QueueInv, Queued
  <1>2. FreshInv'
    BY DEF IndInv, FreshInv, Queued
  <1>3. FlightInv'
    BY DEF IndInv, FlightInv
  <1>4. AtMostOnce' /\ AnswerIsOwn' /\ RefusalIsFinal' /\ NobodyForgotten'
    BY DEF IndInv, AtMostOnce, AnswerIsOwn, RefusalIsFinal, NobodyForgotten
  <1> QED BY <1>1, <1>2, <1>3, <1>4 DEF IndInv

\* next_sync hands out a sync that nothing in the system refers to.
LEMMA NextSyncInv ==
  ASSUME IndInv, NextSync
  PROVE  IndInv'
  <1> USE DEF IndInv, NextSync, channel, server
  <1>1. nextSync \in Sync /\ nextSync' = nextSync + 1 /\ nextSync \in Nat
    BY BoundsAssumption DEF TypeOK, Sync, FreshInv
  <1>2. FlagsOK'
    BY DEF TypeOK, FlagsOK
  <1>3. TypeOK'
    BY <1>1, <1>2 DEF TypeOK, InProgress
  <1>4. call[nextSync] = "idle"
    BY <1>1 DEF FreshInv
  <1>5. QueueInv' /\ FlightInv' /\ LinkInv'
    BY <1>1, <1>4, QueuedSync DEF TypeOK, QueueInv, FlightInv, LinkInv, Queued
  <1>6. FreshInv'
    <2>1. \A s \in Sync : s \in Nat
      BY BoundsAssumption DEF Sync
    <2> QED BY <1>1, <1>4, <2>1 DEF TypeOK, FreshInv, Queued
  <1>7. AtMostOnce' /\ AnswerIsOwn' /\ RefusalIsFinal' /\ NobodyForgotten'
    BY <1>1, <1>4 DEF TypeOK, AtMostOnce, AnswerIsOwn, RefusalIsFinal, NobodyForgotten
  <1> QED BY <1>3, <1>5, <1>6, <1>7 DEF IndInv

\* The early return of request_inner moves no request.
LEMMA CheckClosedInv ==
  ASSUME IndInv, NEW s \in Sync, CheckClosed(s)
  PROVE  IndInv'
  <1> USE DEF IndInv, CheckClosed, callers, channel, server
  <1>1. FlagsOK'
    BY DEF TypeOK, FlagsOK
  <1>2. TypeOK'
    BY <1>1 DEF TypeOK, InProgress, Outcome
  <1>3. QueueInv' /\ FlightInv' /\ LinkInv'
    BY QueuedSync DEF TypeOK, QueueInv, FlightInv, LinkInv, Queued
  <1>4. FreshInv'
    BY DEF TypeOK, FreshInv, Queued
  <1>5. AtMostOnce' /\ AnswerIsOwn' /\ RefusalIsFinal' /\ NobodyForgotten'
    BY DEF TypeOK, AtMostOnce, AnswerIsOwn, RefusalIsFinal, NobodyForgotten
  <1> QED BY <1>2, <1>3, <1>4, <1>5 DEF IndInv

\* A closed channel fails a request that was never submitted.
LEMMA SubmitFailsInv ==
  ASSUME IndInv, NEW s \in Sync, SubmitFails(s)
  PROVE  IndInv'
  <1> USE DEF IndInv, SubmitFails, callers, channel, server
  <1>1. FlagsOK'
    BY DEF TypeOK, FlagsOK
  <1>2. TypeOK'
    BY <1>1 DEF TypeOK, InProgress, Outcome
  <1>3. QueueInv' /\ FlightInv' /\ LinkInv'
    BY QueuedSync DEF TypeOK, QueueInv, FlightInv, LinkInv, Queued
  <1>4. FreshInv'
    BY DEF TypeOK, FreshInv, Queued
  <1>5. AtMostOnce' /\ AnswerIsOwn' /\ RefusalIsFinal' /\ NobodyForgotten'
    BY DEF TypeOK, AtMostOnce, AnswerIsOwn, RefusalIsFinal, NobodyForgotten
  <1> QED BY <1>2, <1>3, <1>4, <1>5 DEF IndInv

\* A timeout leaves the request where it is, with nobody to answer to.
LEMMA TimeoutInv ==
  ASSUME IndInv, NEW s \in Sync, Timeout(s)
  PROVE  IndInv'
  <1> USE DEF IndInv, Timeout, callers, channel, server
  <1>1. FlagsOK'
    BY DEF TypeOK, FlagsOK
  <1>2. TypeOK'
    BY <1>1 DEF TypeOK, InProgress, Outcome
  <1>3. QueueInv' /\ FlightInv' /\ LinkInv'
    BY QueuedSync DEF TypeOK, QueueInv, FlightInv, LinkInv, Queued
  <1>4. FreshInv'
    BY DEF TypeOK, FreshInv, Queued
  <1>5. AtMostOnce' /\ AnswerIsOwn' /\ RefusalIsFinal' /\ NobodyForgotten'
    BY DEF TypeOK, AtMostOnce, AnswerIsOwn, RefusalIsFinal, NobodyForgotten
  <1> QED BY <1>2, <1>3, <1>4, <1>5 DEF IndInv

\* So does dropping the future.
LEMMA CancelInv ==
  ASSUME IndInv, NEW s \in Sync, Cancel(s)
  PROVE  IndInv'
  <1> USE DEF IndInv, Cancel, callers, channel, server
  <1>1. FlagsOK'
    BY DEF TypeOK, FlagsOK
  <1>2. TypeOK'
    BY <1>1 DEF TypeOK, InProgress, Outcome
  <1>3. QueueInv' /\ FlightInv' /\ LinkInv'
    BY QueuedSync DEF TypeOK, QueueInv, FlightInv, LinkInv, Queued
  <1>4. FreshInv'
    BY DEF TypeOK, FreshInv, Queued
  <1>5. AtMostOnce' /\ AnswerIsOwn' /\ RefusalIsFinal' /\ NobodyForgotten'
    BY DEF TypeOK, AtMostOnce, AnswerIsOwn, RefusalIsFinal, NobodyForgotten
  <1> QED BY <1>2, <1>3, <1>4, <1>5 DEF IndInv

\* A submitted request enters the channel from nowhere else.
LEMMA SubmitInv ==
  ASSUME IndInv, NEW s \in Sync, Submit(s)
  PROVE  IndInv'
  <1> USE DEF IndInv, Submit, HasRoom, Push, callers, server
  <1> DEFINE c == [kind |-> "request", sync |-> s, n |-> ticket + 1]
  <1>1. c \in Command /\ SyncOf(c) = {s}
    BY DEF Command, SyncOf, TypeOK
  <1>2. s \notin Queued \cup pending \cup wire \cup orphan /\ execs[s] = 0
    BY DEF FreshInv
  <1>3. chan' = Append(chan, c) /\ ticket' = ticket + 1
    OBVIOUS
  <1> HIDE DEF c
  <1>4. /\ chan' \in Seq(Command)
        /\ Len(chan') = Len(chan) + 1
        /\ SyncsIn(chan') = SyncsIn(chan) \cup {s}
        /\ Uniq(chan')
    BY <1>1, <1>2, <1>3, AppendSyncs, AppendUniq DEF TypeOK, QueueInv, Queued
  <1>5. FlagsOK'
    BY DEF TypeOK, FlagsOK
  <1>6. TypeOK'
    BY <1>3, <1>4, <1>5, BoundsAssumption DEF TypeOK, InProgress
  <1>7. QueueInv'
    BY <1>2, <1>4, QueuedSync DEF TypeOK, QueueInv, Queued
  <1>8. FreshInv'
    BY <1>2, <1>4 DEF TypeOK, FreshInv, Queued
  <1>9. FlightInv' /\ LinkInv' /\ AtMostOnce' /\ AnswerIsOwn'
    BY <1>2 DEF TypeOK, FlightInv, LinkInv, AtMostOnce, AnswerIsOwn
  <1>10. RefusalIsFinal' /\ NobodyForgotten'
    BY <1>4 DEF TypeOK, RefusalIsFinal, NobodyForgotten
  <1> QED BY <1>6, <1>7, <1>8, <1>9, <1>10 DEF IndInv

\* A fired packet carries no sync; a lost one leaves no trace.
LEMMA FireInv ==
  ASSUME IndInv, Fire
  PROVE  IndInv'
  <1> USE DEF IndInv, Fire, server
  <1> DEFINE c == [kind |-> "fire", sync |-> 0, n |-> ticket + 1]
  <1>1. c \in Command /\ SyncOf(c) = {}
    BY DEF Command, SyncOf, TypeOK
  <1>2. HasRoom => chan' = Append(chan, c) /\ ticket' = ticket + 1
    BY DEF Push
  <1> HIDE DEF c
  <1>3. /\ chan' \in Seq(Command) /\ Len(chan') <= ChanCap
        /\ SyncsIn(chan') = SyncsIn(chan)
        /\ Uniq(chan')
        /\ ticket' \in Nat
    <2>1. CASE HasRoom
      <3>1. /\ chan' \in Seq(Command) /\ Len(chan') = Len(chan) + 1
            /\ SyncsIn(chan') = SyncsIn(chan)
        BY ZenonT(30), <1>1, <1>2, <2>1, AppendSyncs DEF TypeOK
      <3>2. Uniq(chan')
        BY <1>1, <1>2, <2>1, AppendUniq DEF TypeOK, QueueInv
      <3> QED BY <1>2, <2>1, <3>1, <3>2, BoundsAssumption DEF TypeOK, HasRoom
    <2>2. CASE ~HasRoom
      BY <2>2 DEF TypeOK, QueueInv, channel
    <2> QED BY <2>1, <2>2
  <1>4. FlagsOK'
    BY DEF TypeOK, FlagsOK
  <1>5. TypeOK'
    BY <1>3, <1>4, BoundsAssumption DEF TypeOK
  <1>6. LinkInv'
    BY DEF LinkInv
  <1> QED BY <1>3, <1>5, <1>6, FrameInv DEF FlightInv, NobodyForgotten

\* Close carries no sync.
LEMMA CloseInv ==
  ASSUME IndInv, Close
  PROVE  IndInv'
  <1> USE DEF IndInv, Close, server
  <1> DEFINE c == [kind |-> "close", sync |-> 0, n |-> ticket + 1]
  <1>1. c \in Command /\ SyncOf(c) = {}
    BY DEF Command, SyncOf, TypeOK
  <1>2. chan' = Append(chan, c) /\ ticket' = ticket + 1
    BY DEF Push
  <1> HIDE DEF c
  <1>3. /\ chan' \in Seq(Command) /\ Len(chan') <= ChanCap
        /\ SyncsIn(chan') = SyncsIn(chan)
        /\ Uniq(chan')
        /\ ticket' \in Nat
    <2>1. CASE HasRoom
      <3>1. /\ chan' \in Seq(Command) /\ Len(chan') = Len(chan) + 1
            /\ SyncsIn(chan') = SyncsIn(chan)
        BY ZenonT(30), <1>1, <1>2, <2>1, AppendSyncs DEF TypeOK
      <3>2. Uniq(chan')
        BY <1>1, <1>2, <2>1, AppendUniq DEF TypeOK, QueueInv
      <3> QED BY <1>2, <2>1, <3>1, <3>2, BoundsAssumption DEF TypeOK, HasRoom
    <2>2. CASE ~HasRoom
      BY <2>2 DEF TypeOK, QueueInv, channel
    <2> QED BY <2>1, <2>2
  <1>4. FlagsOK'
    BY DEF TypeOK, FlagsOK
  <1>5. TypeOK'
    BY <1>3, <1>4, BoundsAssumption DEF TypeOK
  <1>6. LinkInv'
    BY DEF LinkInv
  <1> QED BY <1>3, <1>5, <1>6, FrameInv DEF FlightInv, NobodyForgotten

\* Dropping the handles and waking up change nothing about requests.
LEMMA IdleInv ==
  ASSUME IndInv, DropHandles \/ SleepElapsed \/ HandshakeErr
  PROVE  IndInv'
  <1> USE DEF IndInv, DropHandles, SleepElapsed, HandshakeErr, callers, channel, server
  <1>1. FlagsOK'
    BY DEF TypeOK, FlagsOK
  <1>2. delay' \in Nat
    BY DelayAssumption DEF TypeOK
  <1>3. TypeOK'
    BY <1>1, <1>2 DEF TypeOK
  <1>4. LinkInv'
    BY DEF LinkInv
  <1> QED BY <1>3, <1>4, FrameInv DEF QueueInv, FlightInv, NobodyForgotten

\* Reading Close, or the end of the channel, takes no request out of it.
LEMMA CloseReadInv ==
  ASSUME IndInv, CommandClose \/ CloseWhileDown
  PROVE  IndInv'
  <1> USE DEF IndInv, CommandClose, CloseWhileDown, callers, server
  <1>1. /\ chan' \in Seq(Command) /\ Len(chan') <= ChanCap
        /\ SyncsIn(chan') = SyncsIn(chan)
        /\ Uniq(chan')
    <2>1. CASE UNCHANGED chan
      BY <2>1 DEF TypeOK, QueueInv
    <2>2. CASE chan # <<>> /\ Head(chan).kind = "close" /\ chan' = Tail(chan)
      <3>1. Taken(chan, Tail(chan))
        BY <2>2, TakeHead DEF TypeOK, QueueInv
      <3>2. SyncOf(Head(chan)) = {}
        BY <2>2 DEF SyncOf
      <3>3. Len(Tail(chan)) <= ChanCap
        <4>1. Len(chan) \in Nat /\ Len(chan) <= ChanCap
          BY DEF TypeOK
        <4>2. Len(Tail(chan)) = Len(chan) - 1
          BY <3>1 DEF Taken
        <4> QED BY <4>1, <4>2, BoundsAssumption
      <3> QED BY <2>2, <3>1, <3>2, <3>3 DEF Taken
    <2> QED BY <2>1, <2>2
  <1>2. FlagsOK'
    BY DEF TypeOK, FlagsOK
  <1>3. TypeOK'
    BY <1>1, <1>2 DEF TypeOK
  <1>4. LinkInv'
    BY DEF LinkInv
  <1> QED BY <1>1, <1>3, <1>4, FrameInv DEF FlightInv, NobodyForgotten

\* handle_command returning Ok, for a command taken from either queue: the
\* request is refused where it stands, or it moves on to the link.
LEMMA HandleOkInv ==
  ASSUME IndInv, TypeOK', LinkInv', NEW cmd \in Command, HandleOk(cmd),
         UNCHANGED <<nextSync, orphan, execs, inbox, link>>,
         Uniq(chan'), Uniq(deferred'),
         SyncsIn(chan') \subseteq SyncsIn(chan),
         SyncsIn(deferred') \subseteq SyncsIn(deferred),
         SyncOf(cmd) \subseteq Queued,
         Queued' = Queued \ SyncOf(cmd)
  PROVE  IndInv'
  <1> USE DEF IndInv, HandleOk, Refused
  <1>1. /\ SyncOf(cmd) \subseteq Sync
        /\ cmd.kind = "request" => SyncOf(cmd) = {cmd.sync}
    BY SyncOfCommand
  <1>2. \A s \in SyncOf(cmd) : /\ s \notin pending \cup wire \cup orphan
                               /\ execs[s] = 0
                               /\ call[s] \notin {"answered", "shutting_down"}
    BY DEF QueueInv
  <1>3. Queued \subseteq Sync /\ Queued' = SyncsIn(chan') \cup SyncsIn(deferred')
    BY QueuedSync DEF Queued
  <1>4. \A s \in Sync : call'[s] = call[s] \/ s \in SyncOf(cmd)
    BY <1>1 DEF Settle, TypeOK
  <1>5. QueueInv'
    BY <1>1, <1>2, <1>3, <1>4 DEF QueueInv, TypeOK
  <1>6. FreshInv'
    BY <1>1, <1>2, <1>3 DEF FreshInv, Settle, TypeOK
  <1>7. FlightInv'
    BY <1>1, <1>2, <1>4 DEF FlightInv, Settle, TypeOK
  <1>8. AtMostOnce' /\ AnswerIsOwn'
    BY DEF AtMostOnce, AnswerIsOwn, Settle, TypeOK
  <1>9. RefusalIsFinal'
    BY SMTT(30), <1>1, <1>2, <1>3 DEF RefusalIsFinal, Settle, TypeOK, Queued
  <1>10. NobodyForgotten'
    BY <1>1, <1>3 DEF NobodyForgotten, Settle, TypeOK, Queued
  <1> QED BY <1>5, <1>6, <1>7, <1>8, <1>9, <1>10 DEF IndInv

\* handle_command returning Err and the fail_link after it: everything that is
\* pending, the command's own request included, is failed.
LEMMA HandleErrInv ==
  ASSUME IndInv, TypeOK', LinkInv', NEW cmd \in Command, HandleErr(cmd),
         UNCHANGED <<nextSync, orphan, execs>>,
         inbox' = inbox \/ inbox' = <<>>,
         Uniq(chan'), Uniq(deferred'),
         SyncsIn(chan') \subseteq SyncsIn(chan),
         SyncsIn(deferred') \subseteq SyncsIn(deferred),
         SyncOf(cmd) \subseteq Queued,
         Queued' = Queued \ SyncOf(cmd)
  PROVE  IndInv'
  <1> USE DEF IndInv, HandleErr
  <1>1. SyncOf(cmd) \subseteq Sync
    BY SyncOfCommand
  <1>2. Queued \subseteq Sync /\ Queued' = SyncsIn(chan') \cup SyncsIn(deferred')
    BY QueuedSync DEF Queued
  <1>3. \A s \in Sync : call'[s] = call[s] \/ (call[s] = "waiting" /\ call'[s] = "closed")
    BY DEF Settle, TypeOK
  <1>4. QueueInv'
    BY <1>2, <1>3 DEF QueueInv, TypeOK
  <1>5. FreshInv'
    BY <1>2, <1>3 DEF FreshInv, TypeOK
  <1>6. FlightInv'
    <2>1. \A i \in 1 .. Len(inbox') : i \in 1 .. Len(inbox) /\ inbox'[i] = inbox[i]
      <3>1. CASE inbox' = inbox
        BY <3>1
      <3>2. CASE inbox' = <<>>
        BY <3>2
      <3> QED BY <3>1, <3>2
    <2> QED BY ZenonT(30), <1>3, <2>1 DEF FlightInv, TypeOK
  <1>7. AtMostOnce' /\ AnswerIsOwn'
    BY <1>3 DEF AtMostOnce, AnswerIsOwn, TypeOK
  <1>8. RefusalIsFinal'
    BY <1>3, <1>2 DEF RefusalIsFinal, TypeOK, Queued
  <1>9. NobodyForgotten'
    BY <1>1, <1>2 DEF NobodyForgotten, Settle, TypeOK, Queued
  <1> QED BY <1>4, <1>5, <1>6, <1>7, <1>8, <1>9 DEF IndInv

\* A deferred command is handled.
LEMMA DrainOkInv ==
  ASSUME IndInv, DrainOk
  PROVE  IndInv'
  <1> USE DEF IndInv, DrainOk, callers, channel, server
  <1>1. Taken(deferred, Tail(deferred))
    BY TakeHead DEF TypeOK, QueueInv, LinkInv
  <1>2. /\ deferred' \in Seq(Command) /\ Len(deferred') = Len(deferred) - 1
        /\ Uniq(deferred') /\ Uniq(chan')
        /\ SyncsIn(deferred') = SyncsIn(deferred) \ SyncOf(Head(deferred))
        /\ SyncsIn(chan') = SyncsIn(chan)
        /\ SyncOf(Head(deferred)) \subseteq SyncsIn(deferred)
        /\ Head(deferred) \in Command
    BY <1>1 DEF Taken, QueueInv
  <1>3. Queued' = Queued \ SyncOf(Head(deferred)) /\ SyncOf(Head(deferred)) \subseteq Queued
    BY <1>2 DEF Queued, QueueInv
  <1>4. FlagsOK'
    BY DEF TypeOK, FlagsOK
  <1>5. call' \in [Sync -> {"idle"} \cup InProgress \cup Outcome]
    BY DEF TypeOK, Outcome, HandleOk, Refused, Settle
  <1>6. phase' \in {"drain", "select", "sleep", "giveup"}
    BY DEF LoopTop
  <1>7. pending' \subseteq Sync /\ wire' \subseteq Sync /\ lastSent' \in Nat
    BY <1>1 DEF TypeOK, Taken, HandleOk, Refused
  <1>8. TypeOK'
    <2>1. inbox' \in Seq(Packet) /\ delay' \in Nat /\ Len(deferred') <= Len(deferred)
      BY <1>2, DelayAssumption DEF TypeOK
    <2> QED BY <1>2, <1>4, <1>5, <1>6, <1>7, <2>1, BoundsAssumption DEF TypeOK
  <1>9. LinkInv'
    BY DEF LinkInv, LoopTop, HandleOk, Refused, TypeOK
  <1> QED BY <1>2, <1>3, <1>8, <1>9, HandleOkInv

\* A command from the channel is handled.
LEMMA CommandOkInv ==
  ASSUME IndInv, CommandOk
  PROVE  IndInv'
  <1> USE DEF IndInv, CommandOk, callers, channel, server
  <1>1. Taken(chan, Tail(chan))
    BY TakeHead DEF TypeOK, QueueInv, LinkInv
  <1>2. /\ chan' \in Seq(Command) /\ Len(chan') = Len(chan) - 1
        /\ Uniq(chan') /\ Uniq(deferred')
        /\ SyncsIn(chan') = SyncsIn(chan) \ SyncOf(Head(chan))
        /\ SyncsIn(deferred') = SyncsIn(deferred)
        /\ SyncOf(Head(chan)) \subseteq SyncsIn(chan)
        /\ Head(chan) \in Command
    BY <1>1 DEF Taken, QueueInv
  <1>3. Queued' = Queued \ SyncOf(Head(chan)) /\ SyncOf(Head(chan)) \subseteq Queued
    BY <1>2 DEF Queued, QueueInv
  <1>4. FlagsOK'
    BY DEF TypeOK, FlagsOK
  <1>5. call' \in [Sync -> {"idle"} \cup InProgress \cup Outcome]
    BY DEF TypeOK, Outcome, HandleOk, Refused, Settle
  <1>6. phase' \in {"drain", "select", "sleep", "giveup"}
    BY DEF LoopTop
  <1>7. pending' \subseteq Sync /\ wire' \subseteq Sync /\ lastSent' \in Nat
    BY <1>1 DEF TypeOK, Taken, HandleOk, Refused
  <1>8. TypeOK'
    <2>1. inbox' \in Seq(Packet) /\ delay' \in Nat /\ Len(chan') <= Len(chan)
      BY <1>2, DelayAssumption DEF TypeOK
    <2> QED BY <1>2, <1>4, <1>5, <1>6, <1>7, <2>1, BoundsAssumption DEF TypeOK
  <1>9. LinkInv'
    BY DEF LinkInv, LoopTop, HandleOk, Refused, TypeOK
  <1> QED BY <1>2, <1>3, <1>8, <1>9, HandleOkInv

\* A deferred command finds the link broken.
LEMMA DrainErrInv ==
  ASSUME IndInv, DrainErr
  PROVE  IndInv'
  <1> USE DEF IndInv, DrainErr, callers, channel, server
  <1>1. Taken(deferred, Tail(deferred))
    BY TakeHead DEF TypeOK, QueueInv, LinkInv
  <1>2. /\ deferred' \in Seq(Command) /\ Len(deferred') = Len(deferred) - 1
        /\ Uniq(deferred') /\ Uniq(chan')
        /\ SyncsIn(deferred') = SyncsIn(deferred) \ SyncOf(Head(deferred))
        /\ SyncsIn(chan') = SyncsIn(chan)
        /\ SyncOf(Head(deferred)) \subseteq SyncsIn(deferred)
        /\ Head(deferred) \in Command
    BY <1>1 DEF Taken, QueueInv
  <1>3. Queued' = Queued \ SyncOf(Head(deferred)) /\ SyncOf(Head(deferred)) \subseteq Queued
    BY <1>2 DEF Queued, QueueInv
  <1>4. FlagsOK'
    BY DEF TypeOK, FlagsOK
  <1>5. call' \in [Sync -> {"idle"} \cup InProgress \cup Outcome]
    BY DEF TypeOK, Outcome, HandleErr, Settle
  <1>6. phase' \in {"drain", "select", "sleep", "giveup"}
    BY DEF LostPhase
  <1>7. pending' \subseteq Sync /\ wire' \subseteq Sync /\ lastSent' \in Nat
    BY <1>1 DEF TypeOK, Taken, HandleErr
  <1>8. TypeOK'
    <2>1. inbox' \in Seq(Packet) /\ delay' \in Nat /\ Len(deferred') <= Len(deferred)
      BY <1>2, DelayAssumption DEF TypeOK
    <2> QED BY <1>2, <1>4, <1>5, <1>6, <1>7, <2>1, BoundsAssumption DEF TypeOK
  <1>9. LinkInv'
    BY DEF LinkInv, LostPhase, HandleErr, TypeOK
  <1> QED BY <1>2, <1>3, <1>8, <1>9, HandleErrInv

\* A command from the channel finds the link broken.
LEMMA CommandErrInv ==
  ASSUME IndInv, CommandErr
  PROVE  IndInv'
  <1> USE DEF IndInv, CommandErr, callers, channel, server
  <1>1. Taken(chan, Tail(chan))
    BY TakeHead DEF TypeOK, QueueInv, LinkInv
  <1>2. /\ chan' \in Seq(Command) /\ Len(chan') = Len(chan) - 1
        /\ Uniq(chan') /\ Uniq(deferred')
        /\ SyncsIn(chan') = SyncsIn(chan) \ SyncOf(Head(chan))
        /\ SyncsIn(deferred') = SyncsIn(deferred)
        /\ SyncOf(Head(chan)) \subseteq SyncsIn(chan)
        /\ Head(chan) \in Command
    BY <1>1 DEF Taken, QueueInv
  <1>3. Queued' = Queued \ SyncOf(Head(chan)) /\ SyncOf(Head(chan)) \subseteq Queued
    BY <1>2 DEF Queued, QueueInv
  <1>4. FlagsOK'
    BY DEF TypeOK, FlagsOK
  <1>5. call' \in [Sync -> {"idle"} \cup InProgress \cup Outcome]
    BY DEF TypeOK, Outcome, HandleErr, Settle
  <1>6. phase' \in {"drain", "select", "sleep", "giveup"}
    BY DEF LostPhase
  <1>7. pending' \subseteq Sync /\ wire' \subseteq Sync /\ lastSent' \in Nat
    BY <1>1 DEF TypeOK, Taken, HandleErr
  <1>8. TypeOK'
    <2>1. inbox' \in Seq(Packet) /\ delay' \in Nat /\ Len(chan') <= Len(chan)
      BY <1>2, DelayAssumption DEF TypeOK
    <2> QED BY <1>2, <1>4, <1>5, <1>6, <1>7, <2>1, BoundsAssumption DEF TypeOK
  <1>9. LinkInv'
    BY DEF LinkInv, LostPhase, HandleErr, TypeOK
  <1> QED BY <1>2, <1>3, <1>8, <1>9, HandleErrInv

\* A reply leaves the inbox and settles the request it answers, which ran.
LEMMA PacketReplyInv ==
  ASSUME IndInv, PacketReply
  PROVE  IndInv'
  <1> USE DEF IndInv, PacketReply, AfterPacket, callers, channel, server
  <1>1. /\ inbox' \in Seq(Packet) /\ Head(inbox) = inbox[1]
        /\ Len(inbox) \in Nat /\ Len(inbox) > 0 /\ Len(inbox') = Len(inbox) - 1
        /\ \A i \in 1 .. Len(inbox') : inbox'[i] = inbox[i + 1]
    BY DEF TypeOK
  <1>2. PICK s : s = Head(inbox).sync
    OBVIOUS
  <1>3. /\ s \in pending => execs[s] = 1
        /\ call' = Settle({s} \cap pending, "answered")
        /\ pending' = pending \ {s}
    BY <1>1, <1>2 DEF FlightInv
  <1>4. \A r \in Sync : \/ call'[r] = call[r]
                        \/ r = s /\ s \in pending /\ call[r] = "waiting"
                           /\ call'[r] = "answered"
    BY <1>3 DEF Settle, TypeOK
  <1>5. FlagsOK' /\ phase' \in {"drain", "select", "closing"}
    BY DEF TypeOK, FlagsOK, LoopTop
  <1>6. TypeOK'
    <2>1. call' \in [Sync -> {"idle"} \cup InProgress \cup Outcome]
      BY <1>3 DEF Settle, TypeOK, Outcome
    <2> QED BY <1>1, <1>3, <1>5, <2>1 DEF TypeOK
  <1>7. QueueInv'
    BY <1>3, <1>4, QueuedSync DEF QueueInv, Queued
  <1>8. FreshInv'
    BY <1>3, <1>4 DEF FreshInv, Queued
  <1>9. FlightInv'
    <2>1. \A r \in wire \cup orphan : r # s \/ s \notin pending
      BY <1>3 DEF FlightInv
    <2>2. \A r \in wire \cup orphan : call'[r] = call[r]
      BY <1>4, <2>1 DEF TypeOK
    <2>3. \A i \in 1 .. Len(inbox') : i + 1 \in 1 .. Len(inbox) /\ inbox'[i] = inbox[i + 1]
      BY <1>1
    <2>4. UNCHANGED <<wire, orphan, execs>>
      OBVIOUS
    <2> HIDE DEF PacketReply
    <2> QED BY <2>2, <2>3, <2>4 DEF FlightInv
  <1>10. LinkInv'
    BY DEF LinkInv, LoopTop
  <1>11. AtMostOnce' /\ AnswerIsOwn' /\ RefusalIsFinal'
    BY <1>3, <1>4 DEF AtMostOnce, AnswerIsOwn, RefusalIsFinal
  <1>12. NobodyForgotten'
    BY <1>3, <1>4 DEF NobodyForgotten, Settle, TypeOK
  <1> QED BY <1>6, <1>7, <1>8, <1>9, <1>10, <1>11, <1>12 DEF IndInv

\* An event moves no request.
LEMMA PacketEventInv ==
  ASSUME IndInv, PacketEvent
  PROVE  IndInv'
  <1> USE DEF IndInv, PacketEvent, AfterPacket, callers, channel, server
  <1>1. /\ inbox' \in Seq(Packet)
        /\ Len(inbox) \in Nat /\ Len(inbox) > 0 /\ Len(inbox') = Len(inbox) - 1
        /\ \A i \in 1 .. Len(inbox') : inbox'[i] = inbox[i + 1]
    BY DEF TypeOK
  <1>2. FlagsOK' /\ phase' \in {"drain", "select", "closing"}
    BY DEF TypeOK, FlagsOK, LoopTop
  <1>3. TypeOK'
    BY <1>1, <1>2 DEF TypeOK
  <1>4. LinkInv'
    BY DEF LinkInv, LoopTop
  <1>5. \A i \in 1 .. Len(inbox') : inbox'[i].kind = "reply" => execs[inbox'[i].sync] = 1
    BY <1>1 DEF FlightInv
  <1> QED BY <1>3, <1>4, <1>5, FrameInv DEF QueueInv, NobodyForgotten

\* Losing the link fails exactly what was in flight.
LEMMA PacketLostInv ==
  ASSUME IndInv, PacketLost
  PROVE  IndInv'
  <1> USE DEF IndInv, PacketLost, callers, channel, server
  <1>1. \A s \in Sync : call'[s] = call[s] \/ (call[s] = "waiting" /\ call'[s] = "closed")
    BY DEF Settle, TypeOK
  <1>2. FlagsOK' /\ phase' \in {"sleep", "giveup"}
    BY DEF TypeOK, FlagsOK, LostPhase
  <1>3. TypeOK'
    <2>1. call' \in [Sync -> {"idle"} \cup InProgress \cup Outcome]
      BY DEF Settle, TypeOK, Outcome
    <2> QED BY <1>2, <2>1, DelayAssumption DEF TypeOK
  <1>4. QueueInv'
    BY <1>1, QueuedSync DEF QueueInv, Queued
  <1>5. FreshInv' /\ FlightInv' /\ LinkInv'
    BY <1>1, <1>2 DEF FreshInv, FlightInv, LinkInv, Queued, TypeOK
  <1>6. AtMostOnce' /\ AnswerIsOwn' /\ RefusalIsFinal'
    BY <1>1 DEF AtMostOnce, AnswerIsOwn, RefusalIsFinal
  <1>7. NobodyForgotten'
    BY DEF NobodyForgotten, Settle, TypeOK
  <1> QED BY <1>3, <1>4, <1>5, <1>6, <1>7 DEF IndInv

\* The end of the task, on either path, fails everything it still holds.
LEMMA EndInv ==
  ASSUME IndInv, FinishClose \/ GiveUp
  PROVE  IndInv'
  <1> USE DEF IndInv, callers, server
  <1>1. /\ call' = Settle(pending \cup SyncsIn(deferred) \cup SyncsIn(chan), "closed")
        /\ pending' = {} /\ deferred' = <<>> /\ chan' = <<>> /\ phase' = "done"
        /\ UNCHANGED <<nextSync, fires, ticket, delay, lastSent, gen, execs>>
        /\ link' = "none" /\ wire' = {}
        /\ orphan \subseteq orphan' /\ orphan' \subseteq orphan \cup wire
        /\ inbox' = inbox \/ inbox' = <<>>
    BY DEF FinishClose, GiveUp, LinkInv
  <1>2. SyncsIn(chan') = {} /\ SyncsIn(deferred') = {} /\ Uniq(chan') /\ Uniq(deferred')
        /\ chan' \in Seq(Command) /\ deferred' \in Seq(Command)
        /\ Len(chan') = 0 /\ Len(deferred') = 0
    BY <1>1, EmptySyncs
  <1>3. \A s \in Sync : call'[s] = call[s] \/ (call[s] = "waiting" /\ call'[s] = "closed")
    BY <1>1 DEF Settle, TypeOK
  <1>4. FlagsOK'
    BY DEF TypeOK, FlagsOK, FinishClose, GiveUp
  <1>5. TypeOK'
    <2>1. call' \in [Sync -> {"idle"} \cup InProgress \cup Outcome]
      BY <1>1 DEF Settle, TypeOK, Outcome
    <2>2. inbox' \in Seq(Packet)
      <3>1. inbox \in Seq(Packet) /\ <<>> \in Seq(Packet)
        BY DEF TypeOK
      <3> QED BY <1>1, <3>1
    <2>3. orphan' \subseteq Sync /\ wire' \subseteq Sync
      BY <1>1 DEF TypeOK
    <2>4. Len(chan') <= ChanCap /\ Len(deferred') <= MaxDeferred
      BY <1>2, BoundsAssumption
    <2> QED BY <1>1, <1>2, <1>4, <2>1, <2>2, <2>3, <2>4 DEF TypeOK
  <1>6. QueueInv' /\ LinkInv'
    BY <1>1, <1>2 DEF QueueInv, LinkInv, Queued
  <1>7. FreshInv'
    BY <1>1, <1>2, <1>3 DEF FreshInv, Queued
  <1>8. FlightInv'
    <2>1. \A i \in 1 .. Len(inbox') : i \in 1 .. Len(inbox) /\ inbox'[i] = inbox[i]
      <3>1. CASE inbox' = inbox
        BY <3>1
      <3>2. CASE inbox' = <<>>
        BY <3>2
      <3> QED BY <1>1, <3>1, <3>2
    <2> QED BY ZenonT(30), <1>1, <1>3, <2>1 DEF FlightInv, TypeOK
  <1>9. AtMostOnce' /\ AnswerIsOwn' /\ RefusalIsFinal'
    BY <1>1, <1>2, <1>3 DEF AtMostOnce, AnswerIsOwn, RefusalIsFinal
  <1>10. NobodyForgotten'
    BY <1>1, <1>2 DEF NobodyForgotten, Settle, TypeOK
  <1> QED BY <1>5, <1>6, <1>7, <1>8, <1>9, <1>10 DEF IndInv

\* During a reconnect a request moves from the channel to the deferred ones, or
\* is failed when those are full.
LEMMA DeferCommandInv ==
  ASSUME IndInv, DeferCommand
  PROVE  IndInv'
  <1> USE DEF IndInv, DeferCommand, callers, server
  <1> DEFINE cmd == Head(chan)
  <1>1. Taken(chan, Tail(chan))
    BY TakeHead DEF TypeOK, QueueInv
  <1>2. /\ chan' \in Seq(Command) /\ Len(chan') <= ChanCap
        /\ Uniq(chan')
        /\ SyncsIn(chan') = SyncsIn(chan) \ SyncOf(cmd)
        /\ SyncOf(cmd) \subseteq SyncsIn(chan) \cap Sync
        /\ cmd \in Command
    BY <1>1, BoundsAssumption DEF Taken, TypeOK
  <1>3. /\ deferred' \in Seq(Command) /\ Len(deferred') <= MaxDeferred
        /\ Uniq(deferred')
        /\ SyncsIn(deferred') \subseteq SyncsIn(deferred) \cup SyncOf(cmd)
        /\ \/ SyncsIn(deferred') = SyncsIn(deferred) \cup SyncOf(cmd) /\ UNCHANGED call
           \/ SyncsIn(deferred') = SyncsIn(deferred) /\ call' = Settle(SyncOf(cmd), "closed")
    <2>1. CASE Len(deferred) >= MaxDeferred
      BY <2>1 DEF TypeOK, QueueInv
    <2>2. CASE ~(Len(deferred) >= MaxDeferred)
      <3>1. SyncOf(cmd) \cap SyncsIn(deferred) = {}
        BY <1>2 DEF QueueInv
      <3>2. deferred' = Append(deferred, cmd) /\ UNCHANGED call
        BY <2>2
      <3> QED BY <1>2, <2>2, <3>1, <3>2, AppendSyncs, AppendUniq, BoundsAssumption
              DEF TypeOK, QueueInv
    <2> QED BY <2>1, <2>2
  <1>4. \A s \in Sync : \/ call'[s] = call[s]
                        \/ call[s] = "waiting" /\ call'[s] = "closed" /\ s \in SyncOf(cmd)
    BY <1>3 DEF Settle, TypeOK
  <1>5. FlagsOK' /\ UNCHANGED <<nextSync, fires, ticket, pending, delay, lastSent, link, wire,
                                inbox, gen, orphan, execs>>
        /\ phase = "sleep" /\ phase' = "handshake"
    BY DEF TypeOK, FlagsOK
  <1> HIDE DEF cmd, DeferCommand
  <1>6. TypeOK'
    <2>1. call' \in [Sync -> {"idle"} \cup InProgress \cup Outcome]
      BY <1>3 DEF Settle, TypeOK, Outcome
    <2> QED BY <1>2, <1>3, <1>5, <2>1 DEF TypeOK
  <1>7. Queued' \subseteq Queued /\ Queued \subseteq Sync
    BY <1>2, <1>3, QueuedSync DEF Queued
  <1>8. QueueInv'
    BY <1>2, <1>3, <1>4, <1>5, <1>7 DEF QueueInv, Queued
  <1>9. FreshInv' /\ FlightInv' /\ LinkInv'
    BY <1>4, <1>5, <1>7 DEF FreshInv, FlightInv, LinkInv, TypeOK
  <1>10. AtMostOnce' /\ AnswerIsOwn'
    BY <1>4, <1>5 DEF AtMostOnce, AnswerIsOwn
  <1>11. RefusalIsFinal'
    BY <1>4, <1>5, <1>7 DEF RefusalIsFinal, Queued
  <1>12. NobodyForgotten'
    BY <1>2, <1>3, <1>5 DEF NobodyForgotten, Settle, TypeOK
  <1> QED BY <1>6, <1>8, <1>9, <1>10, <1>11, <1>12 DEF IndInv

\* A new link starts with nothing in flight.
LEMMA HandshakeOkInv ==
  ASSUME IndInv, HandshakeOk
  PROVE  IndInv'
  <1> USE DEF IndInv, HandshakeOk, callers, channel, server
  <1>1. inbox' \in Seq(Packet) /\ \A i \in 1 .. Len(inbox') : inbox'[i].kind # "reply"
    <2> DEFINE p == [kind |-> "event", sync |-> 0, down |-> FALSE]
    <2>1. p \in Packet /\ p.kind # "reply"
      BY DEF Packet
    <2>2. inbox' = <<p>> \/ inbox' = <<>>
      OBVIOUS
    <2> HIDE DEF p
    <2>3. CASE inbox' = <<p>>
      <3>1. <<p>> \in Seq(Packet) /\ Len(<<p>>) = 1 /\ <<p>>[1] = p
        BY <2>1
      <3>2. \A i \in 1 .. Len(<<p>>) : <<p>>[i].kind # "reply"
        BY <2>1, <3>1
      <3> QED BY <2>3, <3>1, <3>2, Zenon
    <2>4. CASE inbox' = <<>>
      BY <2>4
    <2> QED BY <2>2, <2>3, <2>4
  <1>2. FlagsOK' /\ phase' \in {"drain", "select"}
    BY DEF TypeOK, FlagsOK, LoopTop
  <1>3. gen' \in 1 .. MaxLinks
    BY BoundsAssumption DEF TypeOK
  <1>4. TypeOK'
    BY <1>1, <1>2, <1>3 DEF TypeOK
  <1>5. LinkInv'
    BY DEF LinkInv, LoopTop
  <1> QED BY <1>1, <1>4, <1>5, FrameInv DEF QueueInv

\* A dying link turns what was on it into orphans or loses it.
LEMMA LinkDiesInv ==
  ASSUME IndInv, LinkDies
  PROVE  IndInv'
  <1> USE DEF IndInv, LinkDies, callers, channel
  <1>1. PICK k \in 0 .. Len(inbox) : inbox' = SubSeq(inbox, 1, k)
    OBVIOUS
  <1>2. inbox' \in Seq(Packet) /\ Len(inbox') = k /\ \A i \in 1 .. k : inbox'[i] = inbox[i]
    BY <1>1 DEF TypeOK
  <1>3. wire' = {} /\ orphan \subseteq orphan' /\ orphan' \subseteq orphan \cup wire
    OBVIOUS
  <1>4. FlagsOK'
    BY DEF TypeOK, FlagsOK
  <1>5. TypeOK'
    BY <1>2, <1>3, <1>4 DEF TypeOK
  <1>6. QueueInv' /\ FreshInv'
    BY <1>3 DEF QueueInv, FreshInv, Queued
  <1>7. FlightInv'
    BY <1>1, <1>2, <1>3 DEF FlightInv, TypeOK
  <1>8. LinkInv'
    BY DEF LinkInv
  <1>9. AtMostOnce' /\ AnswerIsOwn' /\ RefusalIsFinal' /\ NobodyForgotten'
    BY <1>3 DEF AtMostOnce, AnswerIsOwn, RefusalIsFinal, NobodyForgotten
  <1> QED BY <1>5, <1>6, <1>7, <1>8, <1>9 DEF IndInv

\* The server runs a request that had not run.
LEMMA ServerExecuteInv ==
  ASSUME IndInv, NEW s \in Sync, ServerExecute(s) \/ ServerExecuteOrphan(s)
  PROVE  IndInv'
  <1> USE DEF IndInv, callers, channel
  <1>1. /\ execs' = [execs EXCEPT ![s] = @ + 1]
        /\ s \in wire \cup orphan /\ s \notin wire' \cup orphan'
        /\ wire' \subseteq wire /\ orphan' \subseteq orphan
        /\ UNCHANGED <<nextSync, call, fires, chan, ticket, phase, deferred, pending,
                       delay, lastSent, link, gen>>
    BY DEF ServerExecute, ServerExecuteOrphan, FlightInv
  <1>2. /\ execs[s] = 0 /\ execs'[s] = 1
        /\ \A r \in Sync : r # s => execs'[r] = execs[r]
        /\ call[s] \notin {"answered", "shutting_down", "idle", "alloc", "sending"}
        /\ s \notin Queued
    BY <1>1 DEF FlightInv, FreshInv, QueueInv, TypeOK
  <1>3. /\ inbox' \in Seq(Packet)
        /\ \A i \in 1 .. Len(inbox') : \/ inbox'[i].sync = s
                                       \/ i \in 1 .. Len(inbox) /\ inbox'[i] = inbox[i]
    <2>1. CASE ServerExecute(s)
      <3> DEFINE p == [kind |-> "reply", sync |-> s, down |-> FALSE]
      <3>1. p \in Packet /\ p.sync = s /\ inbox' = Append(inbox, p)
        BY <2>1 DEF Packet, ServerExecute
      <3> HIDE DEF p
      <3> QED BY <3>1 DEF TypeOK
    <2>2. CASE ServerExecuteOrphan(s)
      BY <2>2 DEF TypeOK, ServerExecuteOrphan
    <2> QED BY <2>1, <2>2
  <1>4. FlagsOK'
    BY DEF TypeOK, FlagsOK, ServerExecute, ServerExecuteOrphan
  <1>5. TypeOK'
    BY <1>1, <1>3, <1>4 DEF TypeOK
  <1>6. QueueInv'
    BY <1>1, <1>2, QueuedSync DEF QueueInv, Queued
  <1>7. FreshInv'
    BY <1>1, <1>2 DEF FreshInv, Queued
  <1>8. FlightInv'
    <2>1. \A i \in 1 .. Len(inbox) : inbox[i].kind = "reply" => inbox[i].sync \in Sync
      <3>1. \A q \in Packet : q.kind = "reply" => q.sync \in Sync
        BY DEF Packet
      <3> QED BY <3>1 DEF TypeOK
    <2> QED BY <1>1, <1>2, <1>3, <2>1 DEF FlightInv, TypeOK
  <1>9. LinkInv' /\ NobodyForgotten'
    BY <1>1 DEF LinkInv, NobodyForgotten
  <1>10. AtMostOnce' /\ AnswerIsOwn' /\ RefusalIsFinal'
    BY <1>1, <1>2 DEF AtMostOnce, AnswerIsOwn, RefusalIsFinal, Queued
  <1> QED BY <1>5, <1>6, <1>7, <1>8, <1>9, <1>10 DEF IndInv

\* The announcement is one more packet that is no reply.
LEMMA ServerAnnounceInv ==
  ASSUME IndInv, ServerAnnounce
  PROVE  IndInv'
  <1> USE DEF IndInv, ServerAnnounce, callers, channel
  <1> DEFINE p == [kind |-> "event", sync |-> 0, down |-> TRUE]
  <1>1. p \in Packet /\ p.kind # "reply" /\ inbox' = Append(inbox, p)
    BY DEF Packet
  <1> HIDE DEF p
  <1>2. /\ inbox' \in Seq(Packet)
        /\ \A i \in 1 .. Len(inbox') : \/ inbox'[i].kind # "reply"
                                       \/ i \in 1 .. Len(inbox) /\ inbox'[i] = inbox[i]
    BY <1>1 DEF TypeOK
  <1>3. FlagsOK'
    BY DEF TypeOK, FlagsOK
  <1>4. TypeOK'
    BY <1>2, <1>3 DEF TypeOK
  <1>5. LinkInv'
    BY DEF LinkInv
  <1>6. \A i \in 1 .. Len(inbox') : inbox'[i].kind = "reply" => execs[inbox'[i].sync] = 1
    BY <1>2 DEF FlightInv
  <1> QED BY <1>4, <1>5, <1>6, FrameInv DEF QueueInv, NobodyForgotten

\* Every step of the specification preserves IndInv.
LEMMA NextInv == IndInv /\ [Next]_vars => IndInv'
  <1> SUFFICES ASSUME IndInv, [Next]_vars
               PROVE  IndInv'
    OBVIOUS
  <1>1. CASE Caller
    BY <1>1, NextSyncInv, CheckClosedInv, SubmitInv, SubmitFailsInv, TimeoutInv, CancelInv,
       FireInv, CloseInv, IdleInv DEF Caller
  <1>2. CASE Task
    BY <1>2, DrainOkInv, DrainErrInv, CommandOkInv, CommandErrInv, CloseReadInv,
       PacketReplyInv, PacketEventInv, PacketLostInv, EndInv, IdleInv, DeferCommandInv,
       HandshakeOkInv DEF Task
  <1>3. CASE Environment
    BY <1>3, LinkDiesInv, ServerExecuteInv, ServerAnnounceInv DEF Environment
  <1>4. CASE UNCHANGED vars
    <2>1. FlagsOK'
      BY <1>4 DEF vars, IndInv, TypeOK, FlagsOK
    <2>2. TypeOK'
      BY <1>4, <2>1 DEF vars, IndInv, TypeOK
    <2>3. LinkInv'
      BY <1>4 DEF vars, IndInv, LinkInv
    <2> QED BY <1>4, <2>2, <2>3, FrameInv DEF vars, IndInv, QueueInv, FlightInv, NobodyForgotten
  <1> QED BY <1>1, <1>2, <1>3, <1>4 DEF Next, Finished

\* The inductive invariant holds in every reachable state of the connection.
THEOREM Invariance == Spec => []IndInv
  BY InitInv, NextInv, PTL DEF Spec

\* Every variable of the connection has its type, and the channel and the
\* deferred commands stay within their bounds.
THEOREM TypeCorrect == Spec => []TypeOK
  <1>1. IndInv => TypeOK
    BY DEF IndInv
  <1> QED BY Invariance, <1>1, PTL

\* The server never runs a request twice, however links break and come back.
THEOREM NoRequestRunsTwice == Spec => []AtMostOnce
  <1>1. IndInv => AtMostOnce
    BY DEF IndInv
  <1> QED BY Invariance, <1>1, PTL

\* An answered caller got the reply to its own request.
THEOREM AnswersAreOwn == Spec => []AnswerIsOwn
  <1>1. IndInv => AnswerIsOwn
    BY DEF IndInv
  <1> QED BY Invariance, <1>1, PTL

\* A request refused with ShuttingDown did not run and never will.
THEOREM RefusalsAreFinal == Spec => []RefusalIsFinal
  <1>1. IndInv => RefusalIsFinal
    BY DEF IndInv
  <1> QED BY Invariance, <1>1, PTL

\* A caller that waits is never forgotten by the task.
THEOREM NobodyIsForgotten == Spec => []NobodyForgotten
  <1>1. IndInv => NobodyForgotten
    BY DEF IndInv
  <1> QED BY Invariance, <1>1, PTL

-----------------------------------------------------------------------------
(* The contract of a request *)

\* What the contract calls `call`: a call in progress is simply open.
Shown == [s \in Sync |-> IF call[s] \in InProgress THEN "open" ELSE call[s]]

\* A step that changes neither what callers know nor what ran is invisible.
LEMMA Invisible ==
  ASSUME UNCHANGED <<call, execs>>
  PROVE  UNCHANGED Contract!contractVars
  BY DEF Contract!contractVars

\* Moving on inside a call in progress is invisible too.
LEMMA StillOpen ==
  ASSUME TypeOK, UNCHANGED execs, NEW s \in Sync, NEW v \in InProgress,
         call[s] \in InProgress, call' = [call EXCEPT ![s] = v]
  PROVE  UNCHANGED Contract!contractVars
  <1>1. \A r \in Sync : call'[r] = call[r] \/ (call[r] \in InProgress /\ call'[r] \in InProgress)
    BY DEF TypeOK
  <1>2. Shown' = Shown
    BY <1>1 DEF Shown
  <1> QED BY <1>2 DEF Contract!contractVars, Shown

\* Failing whoever waits among any set of requests is one step of the contract.
LEMMA FailStep ==
  ASSUME TypeOK, NEW S, call' = Settle(S, "closed"), UNCHANGED execs
  PROVE  Contract!Next
  <1>0. PICK F \in SUBSET Sync : F = {s \in Sync : s \in S /\ call[s] = "waiting"}
    OBVIOUS
  <1>1. \A s \in F : Shown[s] = "open"
    BY <1>0 DEF Shown, InProgress
  <1>2. Shown' = [s \in Sync |-> IF s \in F THEN "closed" ELSE Shown[s]]
    BY <1>0 DEF Shown, Settle, InProgress, TypeOK
  <1>3. Contract!Fail(F)
    BY <1>1, <1>2 DEF Contract!Fail, Shown
  <1> QED BY <1>3 DEF Contract!Next

\* The outcome of one open call, seen from the contract.
LEMMA ShownExcept ==
  ASSUME TypeOK, NEW s \in Sync, NEW v, v \notin InProgress,
         call' = [call EXCEPT ![s] = v]
  PROVE  Shown' = [Shown EXCEPT ![s] = v]
  BY DEF Shown, TypeOK

\* Every step of a caller is a step of the contract or invisible.
LEMMA CallerStep ==
  ASSUME IndInv, Caller
  PROVE  Contract!Next \/ UNCHANGED Contract!contractVars
  <1> TypeOK
    BY DEF IndInv
  <1>1. CASE NextSync
    <2>1. nextSync \in Sync /\ call[nextSync] = "idle" /\ UNCHANGED execs
      BY <1>1, BoundsAssumption DEF NextSync, TypeOK, Sync, IndInv, FreshInv, server
    <2>2. PICK s \in Sync : s = nextSync
      BY <2>1
    <2>3. Shown[s] = "idle"
      BY <2>1, <2>2 DEF Shown, InProgress
    <2>4. Shown' = [Shown EXCEPT ![s] = "open"]
      BY <1>1, <2>1, <2>2 DEF NextSync, Shown, InProgress, TypeOK
    <2>5. Contract!Open(s)
      BY <2>1, <2>3, <2>4 DEF Contract!Open, Shown
    <2> QED BY <2>5 DEF Contract!Next
  <1>2. ASSUME NEW s \in Sync, CheckClosed(s)
        PROVE  Contract!Next \/ UNCHANGED Contract!contractVars
    <2>1. CASE closed
      <3>1. call' = [call EXCEPT ![s] = "closed"] /\ call[s] = "alloc" /\ UNCHANGED execs
        BY <1>2, <2>1 DEF CheckClosed, server
      <3>2. Contract!Fail({s})
        BY <3>1 DEF Contract!Fail, InProgress, TypeOK
      <3> QED BY <3>2 DEF Contract!Next
    <2>2. CASE ~closed
      BY <1>2, <2>2, StillOpen DEF CheckClosed, server, InProgress
    <2> QED BY <2>1, <2>2
  <1>3. ASSUME NEW s \in Sync, Submit(s)
        PROVE  UNCHANGED Contract!contractVars
    BY <1>3, StillOpen DEF Submit, server, InProgress
  <1>4. ASSUME NEW s \in Sync, SubmitFails(s)
        PROVE  Contract!Next
    <2>1. call' = [call EXCEPT ![s] = "closed"] /\ call[s] = "sending" /\ UNCHANGED execs
      BY <1>4 DEF SubmitFails, server
    <2>2. Contract!Fail({s})
      BY <2>1 DEF Contract!Fail, InProgress, TypeOK
    <2> QED BY <2>2 DEF Contract!Next
  <1>5. ASSUME NEW s \in Sync, Timeout(s) \/ Cancel(s)
        PROVE  Contract!Next
    <2>1. PICK why \in {"timeout", "cancelled"} :
             /\ call' = [call EXCEPT ![s] = why]
             /\ call[s] \in InProgress
             /\ UNCHANGED execs
      BY <1>5 DEF Timeout, Cancel, InProgress, server
    <2>2. Shown' = [Shown EXCEPT ![s] = why] /\ Shown[s] = "open"
      BY <2>1, ShownExcept DEF InProgress, Shown
    <2>3. Contract!Lapse(s, why)
      BY <2>1, <2>2 DEF Contract!Lapse, Shown
    <2> QED BY <2>3 DEF Contract!Next
  <1>6. CASE Fire \/ Close \/ DropHandles
    BY <1>6, Invisible DEF Fire, Close, DropHandles, server
  <1> QED BY <1>1, <1>2, <1>3, <1>4, <1>5, <1>6 DEF Caller

\* handle_command returning Ok refuses a request that has not run, or is
\* invisible to callers.
LEMMA HandleOkStep ==
  ASSUME IndInv, NEW cmd \in Command, SyncOf(cmd) \subseteq Queued, HandleOk(cmd),
         UNCHANGED execs
  PROVE  Contract!Next \/ UNCHANGED Contract!contractVars
  <1> TypeOK
    BY DEF IndInv
  <1>1. CASE UNCHANGED call
    BY <1>1, Invisible
  <1>2. CASE Refused(cmd) /\ call' = Settle({cmd.sync}, "shutting_down")
    <2>1. cmd.sync \in Sync /\ execs[cmd.sync] = 0
      BY <1>2, SyncOfCommand DEF Refused, IndInv, QueueInv
    <2>2. CASE call[cmd.sync] = "waiting"
      <3>1. call' = [call EXCEPT ![cmd.sync] = "shutting_down"]
        BY <1>2, <2>1, <2>2 DEF Settle, TypeOK
      <3>2. Shown' = [Shown EXCEPT ![cmd.sync] = "shutting_down"] /\ Shown[cmd.sync] = "open"
        BY <2>1, <2>2, <3>1, ShownExcept DEF InProgress, Shown
      <3>3. Contract!Refuse(cmd.sync)
        BY <2>1, <3>2 DEF Contract!Refuse, Shown
      <3> QED BY <2>1, <3>3 DEF Contract!Next
    <2>3. CASE call[cmd.sync] # "waiting"
      <3>1. call' = call
        BY <1>2, <2>1, <2>3 DEF Settle, TypeOK
      <3> QED BY <3>1, Invisible
    <2> QED BY <2>2, <2>3
  <1> QED BY <1>1, <1>2 DEF HandleOk

\* A reply answers a request that ran, or is nobody's.
LEMMA PacketReplyStep ==
  ASSUME IndInv, PacketReply
  PROVE  Contract!Next \/ UNCHANGED Contract!contractVars
  <1> TypeOK
    BY DEF IndInv
  <1>1. PICK s : s = Head(inbox).sync
    OBVIOUS
  <1>2. call' = Settle({s} \cap pending, "answered") /\ UNCHANGED execs
    BY <1>1 DEF PacketReply, server
  <1>3. CASE s \in pending /\ call[s] = "waiting"
    <2>1. s \in Sync /\ execs[s] = 1
      BY <1>1, <1>3 DEF PacketReply, IndInv, FlightInv, TypeOK
    <2>2. call' = [call EXCEPT ![s] = "answered"]
      BY <1>2, <1>3 DEF Settle, TypeOK
    <2>3. Shown' = [Shown EXCEPT ![s] = "answered"] /\ Shown[s] = "open"
      BY <1>3, <2>1, <2>2, ShownExcept DEF InProgress, Shown
    <2>4. Contract!Answer(s)
      BY <1>2, <2>1, <2>3 DEF Contract!Answer, Shown
    <2> QED BY <2>1, <2>4 DEF Contract!Next
  <1>4. CASE ~(s \in pending /\ call[s] = "waiting")
    <2>1. call' = call
      BY <1>2, <1>4 DEF Settle, TypeOK
    <2> QED BY <1>2, <2>1, Invisible
  <1> QED BY <1>3, <1>4

\* Every step of the task is a step of the contract or invisible.
LEMMA TaskStep ==
  ASSUME IndInv, Task
  PROVE  Contract!Next \/ UNCHANGED Contract!contractVars
  <1> TypeOK
    BY DEF IndInv
  <1>1. CASE DrainOk
    <2>1. Taken(deferred, Tail(deferred))
      BY <1>1, TakeHead DEF DrainOk, IndInv, TypeOK, QueueInv, LinkInv
    <2> QED BY <1>1, <2>1, HandleOkStep DEF DrainOk, Taken, Queued, server
  <1>2. CASE CommandOk
    <2>1. Taken(chan, Tail(chan))
      BY <1>2, TakeHead DEF CommandOk, IndInv, TypeOK, QueueInv
    <2> QED BY <1>2, <2>1, HandleOkStep DEF CommandOk, Taken, Queued, server
  <1>3. CASE DrainErr \/ CommandErr
    BY <1>3, FailStep DEF DrainErr, CommandErr, HandleErr, server
  <1>4. CASE PacketReply
    BY <1>4, PacketReplyStep
  <1>5. CASE PacketLost \/ FinishClose \/ GiveUp
    BY <1>5, FailStep DEF PacketLost, FinishClose, GiveUp, server
  <1>6. CASE DeferCommand
    <2>1. UNCHANGED execs /\ (UNCHANGED call \/ call' = Settle(SyncOf(Head(chan)), "closed"))
      BY <1>6 DEF DeferCommand, server
    <2> QED BY <2>1, FailStep, Invisible
  <1>7. CASE CommandClose \/ PacketEvent \/ SleepElapsed \/ CloseWhileDown \/ HandshakeOk
             \/ HandshakeErr
    BY <1>7, Invisible
       DEF CommandClose, PacketEvent, SleepElapsed, CloseWhileDown, HandshakeOk, HandshakeErr, server
  <1> QED BY <1>1, <1>2, <1>3, <1>4, <1>5, <1>6, <1>7 DEF Task

\* The server only ever runs a request that may still run.
LEMMA EnvironmentStep ==
  ASSUME IndInv, Environment
  PROVE  Contract!Next \/ UNCHANGED Contract!contractVars
  <1> TypeOK
    BY DEF IndInv
  <1>1. ASSUME NEW s \in Sync, ServerExecute(s) \/ ServerExecuteOrphan(s)
        PROVE  Contract!Next
    <2>1. s \in wire \cup orphan /\ execs' = [execs EXCEPT ![s] = @ + 1] /\ UNCHANGED call
      BY <1>1 DEF ServerExecute, ServerExecuteOrphan
    <2>2. execs[s] = 0 /\ call[s] \in {"waiting", "closed", "timeout", "cancelled"}
      BY <2>1 DEF IndInv, FlightInv, FreshInv, TypeOK, InProgress, Outcome
    <2>3. Shown[s] \in {"open", "closed", "timeout", "cancelled"} /\ Shown' = Shown
      BY <2>1, <2>2 DEF Shown, InProgress
    <2>4. execs' = [execs EXCEPT ![s] = 1]
      BY <2>1, <2>2 DEF TypeOK
    <2>5. Contract!Execute(s)
      BY <2>2, <2>3, <2>4 DEF Contract!Execute, Shown
    <2> QED BY <2>5 DEF Contract!Next
  <1>2. CASE LinkDies \/ ServerAnnounce
    BY <1>2, Invisible DEF LinkDies, ServerAnnounce
  <1> QED BY <1>1, <1>2 DEF Environment

\* The connection keeps the contract of a request: at most one execution, an
\* answer only for what ran, a refusal only for what never runs.
THEOREM Refinement == Spec => ImplementsContract
  <1>1. Init => Contract!Init
    BY DEF Init, Contract!Init, InProgress
  <1>2. IndInv /\ [Next]_vars => [Contract!Next]_(Contract!contractVars)
    <2> SUFFICES ASSUME IndInv, [Next]_vars
                 PROVE  Contract!Next \/ UNCHANGED Contract!contractVars
      OBVIOUS
    <2>1. CASE UNCHANGED vars
      BY <2>1, Invisible DEF vars
    <2> QED BY <2>1, CallerStep, TaskStep, EnvironmentStep DEF Next, Finished
  <1> QED BY <1>1, <1>2, Invariance, PTL DEF Spec, ImplementsContract, Contract!Spec

-----------------------------------------------------------------------------
(* Closed is final *)

\* The flag and the phase go together.
LEMMA ClosedStep ==
  ASSUME TypeOK, ClosedInv, [Next]_vars
  PROVE  ClosedInv'
  <1> USE DEF ClosedInv
  <1>1. CASE Caller
    BY <1>1 DEF Caller, NextSync, CheckClosed, Submit, SubmitFails, Timeout, Cancel, Fire,
                Close, DropHandles
  <1>2. CASE Task
    BY <1>2 DEF Task, DrainOk, DrainErr, CommandOk, CommandErr, CommandClose, PacketReply,
                PacketEvent, AfterPacket, PacketLost, FinishClose, GiveUp, SleepElapsed,
                DeferCommand, CloseWhileDown, HandshakeOk, HandshakeErr
  <1>3. CASE Environment
    BY <1>3 DEF Environment, LinkDies, ServerExecute, ServerExecuteOrphan, ServerAnnounce
  <1>4. CASE UNCHANGED vars
    BY <1>4 DEF vars
  <1> QED BY <1>1, <1>2, <1>3, <1>4 DEF Next, Finished

\* Once closed, the task only winds down.
LEMMA ClosedQuiet ==
  ASSUME ClosedInv, closed, [Next]_vars
  PROVE  /\ closed'
         /\ lastSent' = lastSent
         /\ wire' \subseteq wire
         /\ pending' \subseteq pending
  <1> USE DEF ClosedInv
  <1>1. CASE Caller
    BY <1>1 DEF Caller, NextSync, CheckClosed, Submit, SubmitFails, Timeout, Cancel, Fire,
                Close, DropHandles
  <1>2. CASE Task
    <2>1. FinishClose
      BY <1>2 DEF Task, DrainOk, DrainErr, CommandOk, CommandErr, CommandClose, PacketReply,
                  PacketEvent, PacketLost, GiveUp, SleepElapsed, DeferCommand,
                  CloseWhileDown, HandshakeOk, HandshakeErr
    <2> QED BY <2>1 DEF FinishClose
  <1>3. CASE Environment
    BY <1>3 DEF Environment, LinkDies, ServerExecute, ServerExecuteOrphan, ServerAnnounce
  <1>4. CASE UNCHANGED vars
    BY <1>4 DEF vars
  <1> QED BY <1>1, <1>2, <1>3, <1>4 DEF Next, Finished

\* After the client closed, nothing more reaches a link.
THEOREM ClosedIsFinal == Spec => ClosedSendsNothing
  <1>1. Init => ClosedInv
    BY DEF Init, ClosedInv
  <1>2. TypeOK /\ ClosedInv /\ [Next]_vars => ClosedInv'
    BY ClosedStep
  <1>3. ClosedInv /\ [Next]_vars =>
          [closed => /\ closed'
                     /\ lastSent' = lastSent
                     /\ wire' \subseteq wire
                     /\ pending' \subseteq pending]_vars
    BY ClosedQuiet
  <1> QED BY <1>1, <1>2, <1>3, TypeCorrect, PTL DEF Spec, ClosedSendsNothing

-----------------------------------------------------------------------------
(* Commands are sent in order *)

\* Steps that touch neither queue nor what was sent.
LEMMA OrderFrame ==
  ASSUME OrderInv, UNCHANGED <<chan, deferred, ticket, lastSent>>,
         phase' = "select" /\ deferred # <<>> => link' = "broken"
  PROVE  OrderInv'
  BY DEF OrderInv, Rising

\* A command enters the channel behind everything else.
LEMMA OrderPush ==
  ASSUME IndInv, OrderInv, NEW kind, NEW s, Push(kind, s),
         UNCHANGED <<deferred, lastSent, phase, link>>
  PROVE  OrderInv'
  <1> DEFINE c == [kind |-> kind, sync |-> s, n |-> ticket + 1]
  <1>1. chan' = Append(chan, c) /\ ticket' = ticket + 1 /\ c.n = ticket + 1
    BY DEF Push
  <1> HIDE DEF c
  <1>2. /\ Len(chan) \in Nat /\ Len(chan') = Len(chan) + 1
        /\ \A i \in 1 .. Len(chan) : chan'[i] = chan[i]
        /\ chan'[Len(chan) + 1] = c
    BY <1>1 DEF IndInv, TypeOK
  <1>3. /\ ticket \in Nat /\ lastSent \in Nat
        /\ \A i \in 1 .. Len(chan) : chan[i].n \in Nat
        /\ \A j \in 1 .. Len(deferred) : deferred[j].n \in Nat
    BY SyncOfCommand DEF IndInv, TypeOK
  <1>4. Rising(chan')
    BY <1>1, <1>2, <1>3 DEF OrderInv, Rising
  <1>5. \A i \in 1 .. Len(chan') : lastSent < chan'[i].n /\ chan'[i].n <= ticket'
    BY <1>1, <1>2, <1>3 DEF OrderInv
  <1>6. \A i \in 1 .. Len(chan'), j \in 1 .. Len(deferred) : deferred[j].n < chan'[i].n
    BY <1>1, <1>2, <1>3 DEF OrderInv
  <1>7. \A j \in 1 .. Len(deferred) : deferred[j].n <= ticket'
    BY <1>1, <1>3 DEF OrderInv
  <1> QED BY <1>1, <1>3, <1>4, <1>5, <1>6, <1>7 DEF OrderInv

\* The tickets of a queue and of its tail.
LEMMA TailOrder ==
  ASSUME NEW q \in Seq(Command), q # <<>>, Rising(q)
  PROVE  /\ Rising(Tail(q))
         /\ Head(q).n \in Nat
         /\ 1 \in 1 .. Len(q) /\ Head(q) = q[1]
         /\ \A i \in 1 .. Len(Tail(q)) : /\ i + 1 \in 1 .. Len(q)
                                         /\ Tail(q)[i] = q[i + 1]
                                         /\ Head(q).n < Tail(q)[i].n
  <1>1. /\ Len(q) \in Nat /\ Len(q) > 0 /\ Len(Tail(q)) = Len(q) - 1
        /\ \A i \in 1 .. Len(Tail(q)) : Tail(q)[i] = q[i + 1]
        /\ Head(q) = q[1] /\ q[1] \in Command
    OBVIOUS
  <1>2. q[1].n \in Nat
    BY <1>1, SyncOfCommand
  <1> QED BY <1>1, <1>2 DEF Rising

\* Taking a command from the channel, sent (nothing is deferred then) or not.
LEMMA OrderTake ==
  ASSUME IndInv, OrderInv, chan # <<>>, chan' = Tail(chan), UNCHANGED <<deferred, ticket>>,
         \/ UNCHANGED lastSent
         \/ lastSent' = Head(chan).n /\ deferred = <<>>,
         phase' = "select" /\ deferred # <<>> => link' = "broken"
  PROVE  OrderInv'
  <1>1. /\ Rising(chan')
        /\ Head(chan).n \in Nat
        /\ 1 \in 1 .. Len(chan) /\ Head(chan) = chan[1]
        /\ \A i \in 1 .. Len(chan') : /\ i + 1 \in 1 .. Len(chan)
                                      /\ chan'[i] = chan[i + 1]
                                      /\ Head(chan).n < chan'[i].n
    BY TailOrder DEF IndInv, TypeOK, OrderInv
  <1>2. CASE UNCHANGED lastSent
    BY <1>1, <1>2 DEF OrderInv
  <1>3. CASE lastSent' = Head(chan).n /\ deferred = <<>>
    <2>1. Len(deferred) = 0 /\ Rising(deferred')
      BY <1>3 DEF OrderInv, Rising
    <2>2. lastSent' <= ticket'
      BY <1>1, <1>3 DEF OrderInv
    <2>3. \A i \in 1 .. Len(chan') : lastSent' < chan'[i].n /\ chan'[i].n <= ticket'
      BY <1>1, <1>3 DEF OrderInv
    <2> QED BY <1>1, <1>3, <2>1, <2>2, <2>3 DEF OrderInv
  <1> QED BY <1>2, <1>3

\* Taking a command from the deferred ones, sent or not.
LEMMA OrderDrain ==
  ASSUME IndInv, OrderInv, deferred # <<>>, deferred' = Tail(deferred),
         UNCHANGED <<chan, ticket>>,
         UNCHANGED lastSent \/ lastSent' = Head(deferred).n,
         phase' = "select" /\ deferred' # <<>> => link' = "broken"
  PROVE  OrderInv'
  <1>1. /\ Rising(deferred')
        /\ Head(deferred).n \in Nat
        /\ 1 \in 1 .. Len(deferred) /\ Head(deferred) = deferred[1]
        /\ \A i \in 1 .. Len(deferred') : /\ i + 1 \in 1 .. Len(deferred)
                                          /\ deferred'[i] = deferred[i + 1]
                                          /\ Head(deferred).n < deferred'[i].n
    BY TailOrder DEF IndInv, TypeOK, OrderInv
  <1>2. lastSent' <= ticket'
    BY <1>1 DEF OrderInv
  <1>3. \A i \in 1 .. Len(chan') : lastSent' < chan'[i].n /\ chan'[i].n <= ticket'
    BY <1>1 DEF OrderInv
  <1>4. \A j \in 1 .. Len(deferred') : lastSent' < deferred'[j].n /\ deferred'[j].n <= ticket'
    BY <1>1 DEF OrderInv
  <1>5. \A i \in 1 .. Len(chan'), j \in 1 .. Len(deferred') : deferred'[j].n < chan'[i].n
    BY <1>1 DEF OrderInv
  <1> QED BY <1>1, <1>2, <1>3, <1>4, <1>5 DEF OrderInv

\* Moving the oldest command of the channel behind the deferred ones.
LEMMA OrderDefer ==
  ASSUME IndInv, OrderInv, chan # <<>>, chan' = Tail(chan),
         deferred' = Append(deferred, Head(chan)),
         UNCHANGED <<ticket, lastSent>>, phase' # "select"
  PROVE  OrderInv'
  <1>1. /\ Rising(chan')
        /\ Head(chan).n \in Nat
        /\ 1 \in 1 .. Len(chan) /\ Head(chan) = chan[1]
        /\ \A i \in 1 .. Len(chan') : /\ i + 1 \in 1 .. Len(chan)
                                      /\ chan'[i] = chan[i + 1]
                                      /\ Head(chan).n < chan'[i].n
    BY TailOrder DEF IndInv, TypeOK, OrderInv
  <1>2. /\ Len(deferred) \in Nat /\ Len(deferred') = Len(deferred) + 1
        /\ \A j \in 1 .. Len(deferred) : deferred'[j] = deferred[j]
        /\ deferred'[Len(deferred) + 1] = chan[1]
    BY <1>1 DEF IndInv, TypeOK
  <1>3. \A j \in 1 .. Len(deferred') : \/ j \in 1 .. Len(deferred) /\ deferred'[j] = deferred[j]
                                       \/ j = Len(deferred) + 1 /\ deferred'[j] = chan[1]
    BY <1>2
  <1>4. Rising(deferred')
    BY <1>1, <1>2, <1>3 DEF OrderInv, Rising
  <1>5. \A i \in 1 .. Len(chan') : lastSent' < chan'[i].n /\ chan'[i].n <= ticket'
    BY <1>1 DEF OrderInv
  <1>6. \A j \in 1 .. Len(deferred') : lastSent' < deferred'[j].n /\ deferred'[j].n <= ticket'
    BY <1>1, <1>3 DEF OrderInv
  <1>7. \A i \in 1 .. Len(chan'), j \in 1 .. Len(deferred') : deferred'[j].n < chan'[i].n
    BY <1>1, <1>3 DEF OrderInv
  <1> QED BY <1>1, <1>4, <1>5, <1>6, <1>7 DEF OrderInv

\* The task ends with both queues empty.
LEMMA OrderEnd ==
  ASSUME OrderInv, chan' = <<>>, deferred' = <<>>, UNCHANGED <<ticket, lastSent>>
  PROVE  OrderInv'
  <1>1. Len(chan') = 0 /\ Len(deferred') = 0
    OBVIOUS
  <1> QED BY <1>1 DEF OrderInv, Rising

\* Every step keeps the order of the queues.
LEMMA OrderStep ==
  ASSUME IndInv, OrderInv, [Next]_vars
  PROVE  OrderInv'
  <1>1. CASE Caller
    <2>1. CASE \/ NextSync \/ DropHandles
               \/ \E s \in Sync : CheckClosed(s) \/ SubmitFails(s) \/ Timeout(s) \/ Cancel(s)
      BY <2>1, OrderFrame DEF NextSync, DropHandles, CheckClosed, SubmitFails, Timeout, Cancel,
                              channel, OrderInv
    <2>2. CASE Close \/ \E s \in Sync : Submit(s)
      BY <2>2, OrderPush DEF Close, Submit
    <2>3. CASE Fire
      <3>1. CASE HasRoom
        BY <2>3, <3>1, OrderPush DEF Fire
      <3>2. CASE ~HasRoom
        BY <2>3, <3>2, OrderFrame DEF Fire, channel, OrderInv
      <3> QED BY <3>1, <3>2
    <2> QED BY <1>1, <2>1, <2>2, <2>3 DEF Caller
  <1>2. CASE Task
    <2>1. CASE DrainOk \/ DrainErr
      <3>1. /\ deferred # <<>> /\ deferred' = Tail(deferred)
            /\ UNCHANGED <<chan, ticket>>
            /\ UNCHANGED lastSent \/ lastSent' = Head(deferred).n
            /\ phase' = "select" /\ deferred' # <<>> => link' = "broken"
        BY <2>1 DEF DrainOk, DrainErr, HandleOk, HandleErr, LoopTop, channel, IndInv, LinkInv
      <3> QED BY <3>1, OrderDrain
    <2>2. CASE CommandOk \/ CommandErr
      <3>1. /\ chan # <<>> /\ chan' = Tail(chan)
            /\ UNCHANGED <<deferred, ticket>>
            /\ phase' = "select" /\ deferred # <<>> => link' = "broken"
        BY <2>2 DEF CommandOk, CommandErr, LoopTop, LostPhase
      <3>2. \/ UNCHANGED lastSent
            \/ lastSent' = Head(chan).n /\ deferred = <<>>
        BY <2>2 DEF CommandOk, CommandErr, HandleOk, HandleErr, OrderInv
      <3> QED BY <3>1, <3>2, OrderTake
    <2>3. CASE CommandClose \/ CloseWhileDown
      <3>1. UNCHANGED <<deferred, ticket, lastSent>> /\ phase' # "select"
            /\ ((chan # <<>> /\ chan' = Tail(chan)) \/ UNCHANGED chan)
        BY <2>3 DEF CommandClose, CloseWhileDown
      <3> QED BY <3>1, OrderTake, OrderFrame
    <2>4. CASE PacketReply \/ PacketEvent \/ PacketLost \/ SleepElapsed \/ HandshakeOk
               \/ HandshakeErr
      <3>1. UNCHANGED <<chan, deferred, ticket, lastSent>>
            /\ (phase' = "select" => deferred = <<>>)
        BY <2>4 DEF PacketReply, PacketEvent, AfterPacket, PacketLost, LoopTop, LostPhase,
                    SleepElapsed, HandshakeOk, HandshakeErr, channel
      <3> QED BY <3>1, OrderFrame
    <2>5. CASE FinishClose \/ GiveUp
      BY <2>5, OrderEnd DEF FinishClose, GiveUp
    <2>6. CASE DeferCommand
      <3>1. /\ chan # <<>> /\ chan' = Tail(chan) /\ UNCHANGED <<ticket, lastSent>>
            /\ phase' # "select"
            /\ deferred' = Append(deferred, Head(chan)) \/ UNCHANGED deferred
        BY <2>6 DEF DeferCommand
      <3> QED BY <3>1, OrderDefer, OrderTake
    <2> QED BY <1>2, <2>1, <2>2, <2>3, <2>4, <2>5, <2>6 DEF Task
  <1>3. CASE Environment
    <2>1. UNCHANGED <<chan, deferred, ticket, lastSent, phase>> /\ (link' = link \/ link = "up")
      BY <1>3 DEF Environment, LinkDies, ServerExecute, ServerExecuteOrphan, ServerAnnounce, channel
    <2> QED BY <2>1, OrderFrame DEF OrderInv
  <1>4. CASE UNCHANGED vars
    BY <1>4, OrderFrame DEF vars, OrderInv
  <1> QED BY <1>1, <1>2, <1>3, <1>4 DEF Next, Finished

\* A step that sends, sends something newer than all that was sent before.
LEMMA SendsNewer ==
  ASSUME IndInv, OrderInv, [Next]_vars, lastSent' # lastSent
  PROVE  lastSent' > lastSent
  <1>1. CASE Caller \/ Environment \/ UNCHANGED vars
    BY <1>1 DEF Caller, NextSync, CheckClosed, Submit, SubmitFails, Timeout, Cancel, Fire,
                Close, DropHandles, Environment, LinkDies, ServerExecute, ServerExecuteOrphan,
                ServerAnnounce, vars
  <1>2. CASE Task
    <2>1. \/ phase = "drain" /\ lastSent' = Head(deferred).n
          \/ chan # <<>> /\ lastSent' = Head(chan).n
      BY <1>2 DEF Task, DrainOk, DrainErr, CommandOk, CommandErr, CommandClose, PacketReply,
                  PacketEvent, PacketLost, FinishClose, GiveUp, SleepElapsed, DeferCommand,
                  CloseWhileDown, HandshakeOk, HandshakeErr, HandleOk, HandleErr
    <2>2. CASE phase = "drain" /\ lastSent' = Head(deferred).n
      <3>1. 1 \in 1 .. Len(deferred) /\ Head(deferred) = deferred[1] /\ Head(deferred).n \in Nat
        BY <2>2, TailOrder DEF IndInv, TypeOK, LinkInv, OrderInv
      <3> QED BY <2>2, <3>1 DEF OrderInv, IndInv, TypeOK
    <2>3. CASE chan # <<>> /\ lastSent' = Head(chan).n
      <3>1. 1 \in 1 .. Len(chan) /\ Head(chan) = chan[1] /\ Head(chan).n \in Nat
        BY <2>3, TailOrder DEF IndInv, TypeOK, OrderInv
      <3> QED BY <2>3, <3>1 DEF OrderInv, IndInv, TypeOK
    <2> QED BY <2>1, <2>2, <2>3
  <1> QED BY <1>1, <1>2 DEF Next, Finished

\* Commands reach the links in the order in which they entered the channel.
THEOREM CommandsInOrder == Spec => SentInOrder
  <1>1. Init => OrderInv
    BY DEF Init, OrderInv, Rising
  <1>2. IndInv /\ OrderInv /\ [Next]_vars => OrderInv'
    BY OrderStep
  <1>3. IndInv /\ OrderInv /\ [Next]_vars
          => [lastSent' # lastSent => lastSent' > lastSent]_vars
    BY SendsNewer
  <1> QED BY <1>1, <1>2, <1>3, Invariance, PTL DEF Spec, SentInOrder
=============================================================================
