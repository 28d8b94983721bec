----------------------------- MODULE PushProofs -----------------------------
(***************************************************************************)
(* Calls that push: for any number of calls and pushes, and wherever the   *)
(* link is cut, a reader gets its own function's pushes in order, and all  *)
(* of them when it reads to the end and finish returns Ok.                 *)
(***************************************************************************)
EXTENDS Pushes, TLAPS

-----------------------------------------------------------------------------
(* The inductive invariant *)

\* How far the reader of c is, read or in its queue.
Got(c) == Len(read[c]) + Len(queue[c])

IsChunk(m, c) == m.call = c /\ m.kind = "chunk"

\* A lost link takes everything with it.
LinkInv == link = "down" => inbox = <<>> /\ chan = <<>> /\ pending = {}

\* Whatever is on its way belongs to a pending call; nothing follows a reply.
InboxInv ==
  \A i \in 1 .. Len(inbox) :
    /\ inbox[i].call \in pending
    /\ inbox[i].kind = "chunk" => inbox[i].n \in 1 .. pushed[inbox[i].call]
    /\ inbox[i].kind = "reply" => inbox[i].call \notin running

\* The server sends the chunks of a call in order, and its reply last.
OrderInv ==
  \A i, j \in 1 .. Len(inbox) :
    i < j /\ inbox[i].call = inbox[j].call =>
      /\ inbox[i].kind = "chunk"
      /\ inbox[j].kind = "chunk" => inbox[i].n < inbox[j].n

\* Nothing has happened yet to c.
Untouched(c) == /\ c \notin pending /\ c \notin running
                /\ reply[c] = "none" /\ pushed[c] = 0
                /\ read[c] = <<>> /\ queue[c] = <<>>

\* A command is queued once, and not before its call started.
ChanInv ==
  /\ \A i, j \in 1 .. Len(chan) : chan[i] = chan[j] => i = j
  /\ \A i \in 1 .. Len(chan) : /\ Untouched(chan[i])
                               /\ reader[chan[i]] \notin {"idle", "ended"}
  /\ \A c \in Call : reader[c] = "idle" => Untouched(c)

\* A function runs for a pending call, which has no reply and no end.
PendingInv ==
  /\ link = "up" => running \subseteq pending
  /\ \A c \in pending : reply[c] = "none" /\ reader[c] \notin {"idle", "ended"}

\* What c has not got yet is on its way, and only that.
Missing(c) ==
  /\ \A m \in Got(c) + 1 .. pushed[c] :
       \E i \in 1 .. Len(inbox) : IsChunk(inbox[i], c) /\ inbox[i].n = m
  /\ \A i \in 1 .. Len(inbox) : IsChunk(inbox[i], c) => inbox[i].n > Got(c)

\* read, and the queue after it, count the pushes of c.
Counted(c) ==
  /\ Len(read[c]) <= pushed[c]
  /\ \A i \in 1 .. Len(read[c]) : read[c][i] = i
  /\ reader[c] = "reading" =>
       /\ Got(c) <= pushed[c]
       /\ \A i \in 1 .. Len(queue[c]) : queue[c][i] = Len(read[c]) + i
       /\ reply[c] = "ok" => Got(c) = pushed[c]
  /\ reader[c] = "ended" =>
       /\ ~Contains(chan, c)
       /\ reply[c] = "ok" => Len(read[c]) = pushed[c]

ChunksInv == \A c \in pending : reader[c] = "reading" => Missing(c)
CountInv == \A c \in Call : Counted(c)

IndInv == /\ TypeOK
          /\ LinkInv
          /\ InboxInv
          /\ OrderInv
          /\ ChanInv
          /\ PendingInv
          /\ ChunksInv
          /\ CountInv
-----------------------------------------------------------------------------
(* Sequences *)

\* A sequence with one more element.
LEMMA AppendFacts ==
  ASSUME NEW S, NEW q \in Seq(S), NEW x \in S
  PROVE  /\ Append(q, x) \in Seq(S)
         /\ Len(q) \in Nat /\ Len(Append(q, x)) = Len(q) + 1
         /\ \A i \in 1 .. Len(q) : Append(q, x)[i] = q[i]
         /\ Append(q, x)[Len(q) + 1] = x
  OBVIOUS

\* A sequence without its head.
LEMMA TailFacts ==
  ASSUME NEW S, NEW q \in Seq(S), q # <<>>
  PROVE  /\ Tail(q) \in Seq(S)
         /\ Len(q) \in Nat /\ Len(q) >= 1 /\ Len(Tail(q)) = Len(q) - 1
         /\ Head(q) = q[1] /\ q[1] \in S
         /\ \A i \in 1 .. Len(q) - 1 : Tail(q)[i] = q[i + 1]
  OBVIOUS

\* A record of the inbox.
LEMMA ItemFacts ==
  /\ \A m \in Item : m.call \in Call /\ m.kind \in {"chunk", "reply"} /\ m.n \in 0 .. MaxPush
  /\ \A c \in Call, n \in 0 .. MaxPush :
       /\ [call |-> c, kind |-> "chunk", n |-> n] \in Item
       /\ [call |-> c, kind |-> "reply", n |-> n] \in Item
  BY DEF Item
-----------------------------------------------------------------------------
LEMMA InitInd == Init => IndInv
  <1> SUFFICES ASSUME Init PROVE IndInv
    OBVIOUS
  <1>1. Len(<<>>) = 0
    OBVIOUS
  <1>2. \A c \in Call : Len(read[c]) = 0 /\ Len(queue[c]) = 0 /\ pushed[c] = 0
    BY <1>1 DEF Init
  <1>3. Len(inbox) = 0 /\ Len(chan) = 0
    BY <1>1 DEF Init
  <1>4. TypeOK
    BY PushBounds DEF Init, TypeOK, Reader
  <1>5. ChanInv
    BY <1>3 DEF Init, ChanInv, Untouched
  <1>6. CountInv
    BY <1>2 DEF Init, CountInv, Counted, Got
  <1> QED
    BY <1>3, <1>4, <1>5, <1>6
    DEF Init, IndInv, LinkInv, InboxInv, OrderInv, PendingInv, ChunksInv

-----------------------------------------------------------------------------
(* The parts, step by step *)

CallStep(c) == Owner(c) \/ ServerPush(c) \/ ServerReturn(c)

LEMMA StepCases ==
  ASSUME [Next]_vars
  PROVE  \/ \E c \in Call : CallStep(c)
         \/ HandleRequest \/ HandleChunk \/ HandleReply \/ LinkLost
         \/ UNCHANGED vars
  BY DEF Next, Task, CallStep

\* Every step leaves every variable in its type.
LEMMA TypeStep ==
  ASSUME TypeOK, InboxInv, [Next]_vars
  PROVE  TypeOK'
  <1> USE PushBounds DEF TypeOK, Reader
  <1>1. ASSUME NEW c \in Call, CallStep(c) PROVE TypeOK'
    <2>1. CASE Start(c)
    BY <2>1, AppendFacts DEF Start
    <2>2. CASE StartClosed(c)  BY <2>2 DEF StartClosed
    <2>3. CASE NextPush(c)
    <3>1. /\ Tail(queue[c]) \in Seq(1 .. MaxPush)
          /\ Append(read[c], Head(queue[c])) \in Seq(1 .. MaxPush)
      BY <2>3, TailFacts, AppendFacts DEF NextPush
    <3> QED BY <2>3, <3>1 DEF NextPush
    <2>4. CASE NextPushNone(c)  BY <2>4 DEF NextPushNone
    <2>5. CASE FinishEarly(c)  BY <2>5 DEF FinishEarly
    <2>6. CASE Finish(c)  BY <2>6 DEF Finish
    <2>7. CASE FinishTimeout(c)  BY <2>7 DEF FinishTimeout
    <2>8. CASE Abandon(c)  BY <2>8 DEF Abandon
    <2>9. CASE ServerPush(c)
      <3>1. pushed[c] + 1 \in 0 .. MaxPush
        BY <2>9 DEF ServerPush
      <3>2. [call |-> c, kind |-> "chunk", n |-> pushed[c] + 1] \in Item
        BY <3>1, ItemFacts
      <3>3. inbox' \in Seq(Item)
        BY <2>9, <3>2, AppendFacts DEF ServerPush
      <3> QED BY <2>9, <3>1, <3>3 DEF ServerPush
    <2>10. CASE ServerReturn(c)
      <3>1. [call |-> c, kind |-> "reply", n |-> 0] \in Item
        BY PushBounds DEF Item
      <3>2. inbox' \in Seq(Item)
        BY <2>10, <3>1, AppendFacts DEF ServerReturn
      <3> QED BY <2>10, <3>2 DEF ServerReturn
    <2> QED BY <1>1, <2>1, <2>2, <2>3, <2>4, <2>5, <2>6, <2>7, <2>8, <2>9, <2>10 DEF CallStep, Owner
  <1>2. CASE HandleRequest
    BY <1>2, TailFacts DEF HandleRequest
  <1>3. CASE HandleChunk
    <2>1. Tail(inbox) \in Seq(Item) /\ Head(inbox) \in Item
      BY <1>3, TailFacts DEF HandleChunk
    <2>2. Head(inbox).call \in Call /\ Head(inbox).n \in 1 .. MaxPush
      BY <1>3, <2>1, ItemFacts, TailFacts DEF HandleChunk, InboxInv
    <2>3. \A q \in Seq(1 .. MaxPush) : Append(q, Head(inbox).n) \in Seq(1 .. MaxPush)
      BY <2>2, AppendFacts
    <2>4. queue' = [d \in Call |-> queue'[d]]
      BY <1>3, <2>2 DEF HandleChunk, Deliver
    <2>5. ASSUME NEW d \in Call PROVE queue'[d] \in Seq(1 .. MaxPush)
      <3>1. queue'[d] = queue[d] \/ queue'[d] = Append(queue[d], Head(inbox).n)
        BY ZenonT(30), <1>3, <2>2 DEF HandleChunk, Deliver
      <3> QED BY <3>1, <2>3
    <2> QED BY <1>3, <2>1, <2>4, <2>5 DEF HandleChunk
  <1>4. CASE HandleReply
    <2>1. Tail(inbox) \in Seq(Item) /\ Head(inbox) \in Item
      BY <1>4, TailFacts DEF HandleReply
    <2> QED BY <1>4, <2>1, ItemFacts DEF HandleReply
  <1>5. CASE LinkLost  BY <1>5 DEF LinkLost
  <1>6. CASE UNCHANGED vars  BY <1>6 DEF vars
  <1> QED BY <1>1, <1>2, <1>3, <1>4, <1>5, <1>6, StepCases



\* With the link goes what was on it.
LEMMA LinkStep ==
  ASSUME TypeOK, LinkInv, [Next]_vars
  PROVE  LinkInv'
  <1> USE DEF LinkInv, TypeOK
  <1>1. ASSUME NEW c \in Call, CallStep(c) PROVE LinkInv'
    <2>1. CASE Start(c)  BY <2>1 DEF Start
    <2>2. CASE StartClosed(c)  BY <2>2 DEF StartClosed
    <2>3. CASE NextPush(c)  BY <2>3 DEF NextPush
    <2>4. CASE NextPushNone(c)  BY <2>4 DEF NextPushNone
    <2>5. CASE FinishEarly(c)  BY <2>5 DEF FinishEarly
    <2>6. CASE Finish(c)  BY <2>6 DEF Finish
    <2>7. CASE FinishTimeout(c)  BY <2>7 DEF FinishTimeout
    <2>8. CASE Abandon(c)  BY <2>8 DEF Abandon
    <2>9. CASE ServerPush(c)  BY <2>9 DEF ServerPush
    <2>10. CASE ServerReturn(c)  BY <2>10 DEF ServerReturn
    <2> QED BY <1>1, <2>1, <2>2, <2>3, <2>4, <2>5, <2>6, <2>7, <2>8, <2>9, <2>10 DEF CallStep, Owner
  <1>2. CASE HandleRequest  BY <1>2 DEF HandleRequest
  <1>3. CASE HandleChunk  BY <1>3 DEF HandleChunk
  <1>4. CASE HandleReply  BY <1>4 DEF HandleReply
  <1>5. CASE LinkLost  BY <1>5 DEF LinkLost
  <1>6. CASE UNCHANGED vars  BY <1>6 DEF vars
  <1> QED BY <1>1, <1>2, <1>3, <1>4, <1>5, <1>6, StepCases

\* A queue in order stays in order when its head is taken.
LEMMA TailKeepsOrder ==
  ASSUME inbox \in Seq(Item), inbox # <<>>, inbox' = Tail(inbox), OrderInv
  PROVE  OrderInv'
  <1>1. /\ Len(inbox) \in Nat /\ Len(inbox') = Len(inbox) - 1
        /\ \A i \in 1 .. Len(inbox') : i + 1 \in 1 .. Len(inbox) /\ inbox'[i] = inbox[i + 1]
    BY TailFacts
  <1> SUFFICES ASSUME NEW i \in 1 .. Len(inbox'), NEW j \in 1 .. Len(inbox'), i < j,
                      inbox'[i].call = inbox'[j].call
               PROVE  /\ inbox'[i].kind = "chunk"
                      /\ inbox'[j].kind = "chunk" => inbox'[i].n < inbox'[j].n
    BY DEF OrderInv
  <1>2. i + 1 \in 1 .. Len(inbox) /\ j + 1 \in 1 .. Len(inbox) /\ i + 1 < j + 1
    BY <1>1
  <1> QED BY <1>1, <1>2 DEF OrderInv

\* Chunks and the reply keep their order, and their call its entry.
LEMMA InboxStep ==
  ASSUME TypeOK, InboxInv, OrderInv, PendingInv, ChanInv, [Next]_vars
  PROVE  InboxInv' /\ OrderInv'
  <1>0. inbox \in Seq(Item) /\ chan \in Seq(Call) /\ pending \subseteq Call /\ pushed \in [Call -> Nat]
    BY PushBounds DEF TypeOK
  <1> USE <1>0 DEF InboxInv, OrderInv, PendingInv
  <1>1. ASSUME NEW c \in Call, CallStep(c) PROVE InboxInv' /\ OrderInv'
    <2>1. CASE Start(c)  BY <2>1 DEF Start
    <2>2. CASE StartClosed(c)  BY <2>2 DEF StartClosed
    <2>3. CASE NextPush(c)  BY <2>3 DEF NextPush
    <2>4. CASE NextPushNone(c)  BY <2>4 DEF NextPushNone
    <2>5. CASE FinishEarly(c)  BY <2>5 DEF FinishEarly
    <2>6. CASE Finish(c)  BY <2>6 DEF Finish
    <2>7. CASE FinishTimeout(c)  BY <2>7 DEF FinishTimeout
    <2>8. CASE Abandon(c)  BY <2>8 DEF Abandon
    <2>9. CASE ServerPush(c)
      <3> DEFINE m == [call |-> c, kind |-> "chunk", n |-> pushed[c] + 1]
      <3>1. m \in Item /\ m.call = c /\ m.kind = "chunk" /\ m.n = pushed[c] + 1
        BY <2>9, PushBounds DEF ServerPush, Item
      <3>2. inbox' = Append(inbox, m) /\ c \in pending /\ c \in running
        BY <2>9 DEF ServerPush
      <3> HIDE DEF m
      <3>3. /\ Len(inbox) \in Nat /\ Len(inbox') = Len(inbox) + 1
            /\ inbox'[Len(inbox) + 1] = m
            /\ \A i \in 1 .. Len(inbox) : inbox'[i] = inbox[i] /\ inbox[i] \in Item
        BY <3>1, <3>2, AppendFacts
      <3>4. \A d \in Call : pushed[d] \in Nat /\ pushed'[d] \in Nat /\ pushed[d] <= pushed'[d]
        BY <2>9, PushBounds DEF ServerPush
      <3>5. pushed'[c] = pushed[c] + 1 /\ pending' = pending /\ running' = running
        BY <2>9 DEF ServerPush
      <3>6. \A i \in 1 .. Len(inbox) : inbox[i].call = c =>
              inbox[i].kind = "chunk" /\ inbox[i].n < m.n
        BY <3>1, <3>2, <3>3, <3>4, ItemFacts
      <3>7. \A i \in 1 .. Len(inbox') : i \in 1 .. Len(inbox) \/ i = Len(inbox) + 1
        BY <3>3
      <3>8. InboxInv'
        BY <3>1, <3>2, <3>3, <3>4, <3>5, <3>7, ItemFacts
      <3>9. OrderInv'
        <4> SUFFICES ASSUME NEW i \in 1 .. Len(inbox'), NEW j \in 1 .. Len(inbox'), i < j,
                            inbox'[i].call = inbox'[j].call
                     PROVE  /\ inbox'[i].kind = "chunk"
                            /\ inbox'[j].kind = "chunk" => inbox'[i].n < inbox'[j].n
          BY DEF OrderInv
        <4>1. i \in 1 .. Len(inbox)
          BY <3>3
        <4>2. CASE j \in 1 .. Len(inbox)  BY <3>3, <4>1, <4>2
        <4>3. CASE j = Len(inbox) + 1  BY <3>1, <3>3, <3>6, <4>1, <4>3
        <4> QED BY <3>7, <4>2, <4>3
      <3> QED BY <3>8, <3>9
    <2>10. CASE ServerReturn(c)
      <3> DEFINE m == [call |-> c, kind |-> "reply", n |-> 0]
      <3>1. m \in Item /\ m.call = c /\ m.kind = "reply"
        BY PushBounds DEF Item
      <3>2. inbox' = Append(inbox, m) /\ c \in pending /\ c \in running
        BY <2>10 DEF ServerReturn
      <3> HIDE DEF m
      <3>3. /\ Len(inbox) \in Nat /\ Len(inbox') = Len(inbox) + 1
            /\ inbox'[Len(inbox) + 1] = m
            /\ \A i \in 1 .. Len(inbox) : inbox'[i] = inbox[i] /\ inbox[i] \in Item
        BY <3>1, <3>2, AppendFacts
      <3>4. pushed' = pushed /\ pending' = pending /\ running' = running \ {c}
        BY <2>10 DEF ServerReturn
      <3>5. \A i \in 1 .. Len(inbox) : inbox[i].call = c => inbox[i].kind = "chunk"
        BY <3>2, <3>3, ItemFacts
      <3>6. \A i \in 1 .. Len(inbox') : i \in 1 .. Len(inbox) \/ i = Len(inbox) + 1
        BY <3>3
      <3>7. InboxInv'
        BY <3>1, <3>2, <3>3, <3>4, <3>6
      <3>8. OrderInv'
        BY SMTT(30), <3>1, <3>3, <3>5, <3>6
      <3> QED BY <3>7, <3>8
    <2> QED BY <1>1, <2>1, <2>2, <2>3, <2>4, <2>5, <2>6, <2>7, <2>8, <2>9, <2>10 DEF CallStep, Owner
  <1>2. CASE HandleRequest
    <2>1. inbox' = inbox /\ pushed' = pushed /\ pending \subseteq pending'
      BY <1>2 DEF HandleRequest
    <2>2. Head(chan) = chan[1] /\ 1 \in 1 .. Len(chan)
      BY <1>2, TailFacts DEF HandleRequest
    <2>3. \A d \in pending : d \in running' => d \in running
      BY <1>2, <2>2 DEF HandleRequest, ChanInv, Untouched
    <2> QED BY <2>1, <2>3
  <1>3. CASE HandleChunk
    <2>1. /\ Len(inbox) \in Nat /\ Len(inbox') = Len(inbox) - 1
          /\ \A i \in 1 .. Len(inbox') : i + 1 \in 1 .. Len(inbox) /\ inbox'[i] = inbox[i + 1]
      BY <1>3, TailFacts DEF HandleChunk
    <2>2. pushed' = pushed /\ pending' = pending /\ running' = running
      BY <1>3 DEF HandleChunk
    <2>3. InboxInv'
      BY <2>1, <2>2
    <2>4. OrderInv'
      BY <1>3, TailKeepsOrder DEF HandleChunk
    <2> QED BY <2>3, <2>4
  <1>4. CASE HandleReply
    <2>1. /\ Len(inbox) \in Nat /\ Len(inbox) >= 1 /\ Len(inbox') = Len(inbox) - 1
          /\ \A i \in 1 .. Len(inbox') : i + 1 \in 1 .. Len(inbox) /\ inbox'[i] = inbox[i + 1]
          /\ inbox[1].kind = "reply" /\ pending' = pending \ {inbox[1].call}
      BY <1>4, TailFacts DEF HandleReply
    <2>2. pushed' = pushed /\ running' = running
      BY <1>4 DEF HandleReply
    <2>3. ASSUME NEW i \in 1 .. Len(inbox') PROVE inbox'[i].call # inbox[1].call
      <3>1. 1 \in 1 .. Len(inbox) /\ i + 1 \in 1 .. Len(inbox) /\ 1 < i + 1 /\ inbox'[i] = inbox[i + 1]
        BY <2>1
      <3>2. inbox[1].call = inbox[i + 1].call => inbox[1].kind = "chunk"
        BY <3>1
      <3> QED BY <2>1, <3>1, <3>2
    <2>4. InboxInv'
      BY SMTT(30), <2>1, <2>2, <2>3
    <2>5. OrderInv'
      BY <1>4, TailKeepsOrder DEF HandleReply
    <2> QED BY <2>4, <2>5
  <1>5. CASE LinkLost  BY <1>5 DEF LinkLost
  <1>6. CASE UNCHANGED vars  BY <1>6 DEF vars
  <1> QED BY <1>1, <1>2, <1>3, <1>4, <1>5, <1>6, StepCases

\* A call is queued once, and untouched until then.
LEMMA ChanStep ==
  ASSUME TypeOK, TypeOK', LinkInv, InboxInv, PendingInv, ChanInv, [Next]_vars
  PROVE  ChanInv'
  <1>0. inbox \in Seq(Item) /\ chan \in Seq(Call) /\ pending \subseteq Call /\ pushed \in [Call -> Nat]
    BY PushBounds DEF TypeOK
  <1> USE <1>0 DEF ChanInv, Untouched
  <1>1. ASSUME NEW c \in Call, CallStep(c) PROVE ChanInv'
    <2>1. CASE Start(c)
      <3>1. /\ Len(chan) \in Nat /\ Len(chan') = Len(chan) + 1
            /\ chan'[Len(chan) + 1] = c
            /\ \A i \in 1 .. Len(chan) : chan'[i] = chan[i] /\ chan[i] \in Call
        BY <2>1, AppendFacts DEF Start
      <3>2. \A i \in 1 .. Len(chan) : chan[i] # c
        BY <2>1 DEF Start
      <3>3. \A i \in 1 .. Len(chan') : i \in 1 .. Len(chan) \/ i = Len(chan) + 1
        BY <3>1
      <3>4. ASSUME NEW i \in 1 .. Len(chan'), NEW j \in 1 .. Len(chan'), chan'[i] = chan'[j]
            PROVE  i = j
        <4>1. CASE i \in 1 .. Len(chan) /\ j \in 1 .. Len(chan)  BY <3>1, <3>4, <4>1
        <4>2. CASE i = Len(chan) + 1 /\ j \in 1 .. Len(chan)  BY <3>1, <3>2, <3>4, <4>2
        <4>3. CASE i \in 1 .. Len(chan) /\ j = Len(chan) + 1  BY <3>1, <3>2, <3>4, <4>3
        <4> QED BY <3>3, <4>1, <4>2, <4>3
      <3>5. reader'[c] = "reading" /\ \A d \in Call \ {c} : reader'[d] = reader[d]
        BY <2>1 DEF Start, TypeOK
      <3>6. Untouched(c)
        BY <2>1 DEF Start
      <3>7. \A d : Untouched(d)' <=> Untouched(d)
        BY <2>1 DEF Start
      <3> HIDE DEF Untouched
      <3> QED BY <3>1, <3>2, <3>3, <3>4, <3>5, <3>6, <3>7
    <2>2. CASE StartClosed(c)  BY <2>2 DEF StartClosed
    <2>3. CASE NextPush(c)
      <3>1. \A d \in Call \ {c} : read'[d] = read[d] /\ queue'[d] = queue[d]
        BY <2>3 DEF NextPush, TypeOK
      <3>2. ~Untouched(c)
        BY <2>3 DEF NextPush
      <3>3. \A i \in 1 .. Len(chan) : chan[i] \in Call
        BY <1>0
      <3>4. /\ chan' = chan /\ reader' = reader /\ pending' = pending /\ running' = running
            /\ reply' = reply /\ pushed' = pushed
        BY <2>3 DEF NextPush
      <3>5. \A d \in Call : Untouched(d) => Untouched(d)'
        BY <3>1, <3>2, <3>4
      <3> HIDE DEF Untouched
      <3> QED BY <3>3, <3>4, <3>5
    <2>4. CASE NextPushNone(c)
      <3>1. \A i \in 1 .. Len(chan) : chan[i] # c /\ chan[i] \in Call
        BY <2>4 DEF NextPushNone, SenderAlive, Contains
      <3>2. reader'[c] = "ended" /\ \A d \in Call \ {c} : reader'[d] = reader[d]
        BY <2>4 DEF NextPushNone, TypeOK
      <3> QED BY <2>4, <3>1, <3>2 DEF NextPushNone
    <2>5. CASE FinishEarly(c)  BY <2>5 DEF FinishEarly
    <2>6. CASE Finish(c)  BY <2>6 DEF Finish
    <2>7. CASE FinishTimeout(c)  BY <2>7 DEF FinishTimeout
    <2>8. CASE Abandon(c)  BY <2>8 DEF Abandon
    <2>9. CASE ServerPush(c)  BY <2>9, LinkInv, PendingInv DEF ServerPush
    <2>10. CASE ServerReturn(c)  BY <2>10, LinkInv, PendingInv DEF ServerReturn
    <2> QED BY <1>1, <2>1, <2>2, <2>3, <2>4, <2>5, <2>6, <2>7, <2>8, <2>9, <2>10 DEF CallStep, Owner
  <1>2. CASE HandleRequest
    <2>1. /\ Len(chan) \in Nat /\ Len(chan) >= 1 /\ Len(chan') = Len(chan) - 1
          /\ \A i \in 1 .. Len(chan') : i + 1 \in 1 .. Len(chan) /\ chan'[i] = chan[i + 1]
          /\ Head(chan) = chan[1]
      BY <1>2, TailFacts DEF HandleRequest
    <2>2. \A i \in 1 .. Len(chan') : chan'[i] # chan[1]
      BY <2>1
    <2>3. reader[chan[1]] # "idle"
      BY <2>1
    <2> QED BY <1>2, <2>1, <2>2, <2>3 DEF HandleRequest
  <1>3. CASE HandleChunk
    <2>1. Head(inbox) = inbox[1] /\ 1 \in 1 .. Len(inbox)
      BY <1>3, TailFacts DEF HandleChunk
    <2>2. inbox[1].call \in pending
      BY <2>1 DEF InboxInv
    <2>3. \A d \in Call \ {inbox[1].call} : queue'[d] = queue[d]
      BY SMTT(30), <1>3, <2>1 DEF HandleChunk, Deliver, TypeOK
    <2>4. /\ chan' = chan /\ reader' = reader /\ pending' = pending /\ running' = running
          /\ reply' = reply /\ pushed' = pushed /\ read' = read
      BY <1>3 DEF HandleChunk
    <2>5. \A d \in Call : Untouched(d) => Untouched(d)'
      BY <2>2, <2>3, <2>4
    <2>6. \A i \in 1 .. Len(chan) : chan[i] \in Call
      BY <1>0
    <2> HIDE DEF Untouched
    <2> QED BY <2>4, <2>5, <2>6
  <1>4. CASE HandleReply
    <2>1. Head(inbox) = inbox[1] /\ 1 \in 1 .. Len(inbox)
      BY <1>4, TailFacts DEF HandleReply
    <2>2. inbox[1].call \in pending
      BY <2>1 DEF InboxInv
    <2> QED BY <1>4, <2>1, <2>2 DEF HandleReply
  <1>5. CASE LinkLost
    <2>1. chan' = <<>> /\ Len(chan') = 0
      BY <1>5 DEF LinkLost
    <2>2. ASSUME NEW c \in Call, reader[c] = "idle" PROVE ~Contains(chan, c)
      BY <2>2 DEF Contains
    <2> QED BY <1>5, <2>1, <2>2 DEF LinkLost, Unanswered
  <1>6. CASE UNCHANGED vars  BY <1>6 DEF vars
  <1> QED BY <1>1, <1>2, <1>3, <1>4, <1>5, <1>6, StepCases

\* Functions run for pending calls, which are neither answered nor at their end.
LEMMA PendingStep ==
  ASSUME TypeOK, InboxInv, OrderInv, ChanInv, PendingInv, [Next]_vars
  PROVE  PendingInv'
  <1>0. inbox \in Seq(Item) /\ chan \in Seq(Call) /\ pending \subseteq Call /\ pushed \in [Call -> Nat]
    BY PushBounds DEF TypeOK
  <1> USE <1>0 DEF PendingInv
  <1>1. ASSUME NEW c \in Call, CallStep(c) PROVE PendingInv'
    <2>1. CASE Start(c)  BY <2>1 DEF Start
    <2>2. CASE StartClosed(c)  BY <2>2 DEF StartClosed
    <2>3. CASE NextPush(c)  BY <2>3 DEF NextPush
    <2>4. CASE NextPushNone(c)  BY <2>4 DEF NextPushNone, SenderAlive
    <2>5. CASE FinishEarly(c)  BY <2>5 DEF FinishEarly
    <2>6. CASE Finish(c)  BY <2>6 DEF Finish
    <2>7. CASE FinishTimeout(c)  BY <2>7 DEF FinishTimeout
    <2>8. CASE Abandon(c)  BY <2>8 DEF Abandon
    <2>9. CASE ServerPush(c)  BY <2>9 DEF ServerPush
    <2>10. CASE ServerReturn(c)  BY <2>10 DEF ServerReturn
    <2> QED BY <1>1, <2>1, <2>2, <2>3, <2>4, <2>5, <2>6, <2>7, <2>8, <2>9, <2>10 DEF CallStep, Owner
  <1>2. CASE HandleRequest
    <2>1. Head(chan) = chan[1] /\ 1 \in 1 .. Len(chan)
      BY <1>2, TailFacts DEF HandleRequest
    <2> QED BY <1>2, <2>1 DEF HandleRequest, ChanInv, Untouched
  <1>3. CASE HandleChunk  BY <1>3 DEF HandleChunk
  <1>4. CASE HandleReply
    <2>1. Head(inbox) = inbox[1] /\ 1 \in 1 .. Len(inbox)
      BY <1>4, TailFacts DEF HandleReply
    <2>2. inbox[1].call \notin running
      BY <1>4, <2>1 DEF InboxInv, HandleReply
    <2> QED BY <1>4, <2>1, <2>2 DEF HandleReply
  <1>5. CASE LinkLost  BY <1>5 DEF LinkLost
  <1>6. CASE UNCHANGED vars  BY <1>6 DEF vars
  <1> QED BY <1>1, <1>2, <1>3, <1>4, <1>5, <1>6, StepCases

\* The lengths that are counted.
LEMMA Lengths ==
  ASSUME TypeOK
  PROVE  \A d \in Call : /\ Len(read[d]) \in Nat /\ Len(queue[d]) \in Nat /\ pushed[d] \in Nat
                         /\ read[d] \in Seq(1 .. MaxPush) /\ queue[d] \in Seq(1 .. MaxPush)
                         /\ Got(d) \in Nat
  <1>1. \A d \in Call : /\ pushed[d] \in Nat
                        /\ read[d] \in Seq(1 .. MaxPush) /\ queue[d] \in Seq(1 .. MaxPush)
    BY PushBounds DEF TypeOK
  <1>2. \A r, q \in Seq(1 .. MaxPush) : Len(r) \in Nat /\ Len(q) \in Nat /\ Len(r) + Len(q) \in Nat
    OBVIOUS
  <1> QED BY <1>1, <1>2 DEF Got

\* What is read and queued, before and after a step.
LEMMA GotNext ==
  ASSUME NEW d, NEW r \in Nat, NEW q \in Nat, Len(read[d]) = r, Len(queue[d]) = q
  PROVE  /\ Got(d) = r + q
         /\ read'[d] = read[d] /\ queue'[d] = queue[d] => Got(d)' = Got(d)
         /\ read'[d] = read[d] /\ Len(queue'[d]) = q + 1 => Got(d)' = Got(d) + 1
         /\ Len(read'[d]) = r + 1 /\ Len(queue'[d]) = q - 1 => Got(d)' = Got(d)
  <1>1. Got(d) = r + q
    BY DEF Got
  <1>2. ASSUME read'[d] = read[d], queue'[d] = queue[d] PROVE Got(d)' = r + q
    BY <1>2 DEF Got
  <1>3. ASSUME read'[d] = read[d], Len(queue'[d]) = q + 1 PROVE Got(d)' = r + (q + 1)
    BY <1>3 DEF Got
  <1>4. ASSUME Len(read'[d]) = r + 1, Len(queue'[d]) = q - 1 PROVE Got(d)' = (r + 1) + (q - 1)
    BY <1>4 DEF Got
  <1> QED BY <1>1, <1>2, <1>3, <1>4

\* What a step does not touch stays counted.
LEMMA CountedFrame ==
  ASSUME NEW d, Counted(d),
         read'[d] = read[d], pushed'[d] = pushed[d], reply'[d] = reply[d],
         reader'[d] = reader[d], queue'[d] = queue[d],
         Contains(chan, d)' => Contains(chan, d)
  PROVE  Counted(d)'
  BY DEF Counted, Got

\* The same when the owner stops reading.
LEMMA CountedStopped ==
  ASSUME NEW d, Counted(d),
         read'[d] = read[d], pushed'[d] = pushed[d], reader'[d] \notin {"reading", "ended"}
  PROVE  Counted(d)'
  BY DEF Counted

\* The first chunk of a reader's call is the next one it needs.
LEMMA NextChunk ==
  ASSUME IndInv, Len(inbox) \in Nat, Len(inbox) >= 1, inbox[1].kind = "chunk",
         NEW d \in pending, d = inbox[1].call, reader[d] = "reading"
  PROVE  inbox[1].n = Got(d) + 1 /\ inbox[1].n <= pushed[d]
  <1>1. d \in Call /\ pushed[d] \in Nat /\ Got(d) \in Nat
    BY Lengths DEF IndInv, TypeOK, Got
  <1>2. 1 \in 1 .. Len(inbox) /\ inbox[1].n \in 1 .. pushed[d]
    BY DEF IndInv, InboxInv
  <1>3. Missing(d)
    BY DEF IndInv, ChunksInv
  <1>4. inbox[1].n > Got(d)
    BY <1>2, <1>3 DEF Missing, IsChunk
  <1>5. Got(d) + 1 \in Got(d) + 1 .. pushed[d]
    BY <1>1, <1>2, <1>4
  <1>6. PICK i \in 1 .. Len(inbox) : IsChunk(inbox[i], d) /\ inbox[i].n = Got(d) + 1
    BY <1>3, <1>5 DEF Missing
  <1>7. i = 1 \/ inbox[1].n < inbox[i].n
    BY <1>2, <1>6 DEF IndInv, OrderInv, IsChunk
  <1> QED BY <1>1, <1>2, <1>4, <1>6, <1>7

\* When the reply is next, a reader has got everything.
LEMMA LastChunk ==
  ASSUME IndInv, Len(inbox) \in Nat, Len(inbox) >= 1, inbox[1].kind = "reply",
         NEW d \in pending, d = inbox[1].call, reader[d] = "reading"
  PROVE  Got(d) = pushed[d]
  <1>1. d \in Call /\ pushed[d] \in Nat /\ Got(d) \in Nat /\ Got(d) <= pushed[d]
    BY Lengths DEF IndInv, TypeOK, Got, CountInv, Counted
  <1>2. Missing(d)
    BY DEF IndInv, ChunksInv
  <1>3. SUFFICES ASSUME Got(d) < pushed[d] PROVE FALSE
    BY <1>1
  <1>4. PICK i \in 1 .. Len(inbox) : IsChunk(inbox[i], d) /\ inbox[i].n = Got(d) + 1
    BY <1>1, <1>2, <1>3 DEF Missing
  <1>5. i # 1 /\ 1 \in 1 .. Len(inbox) /\ 1 < i
    BY <1>4 DEF IsChunk
  <1> QED BY <1>4, <1>5 DEF IndInv, OrderInv, IsChunk

\* Reading and pushing keep count.
LEMMA CountStep ==
  ASSUME IndInv, [Next]_vars
  PROVE  CountInv'
  <1>0. /\ \A d \in Call : Counted(d)
        /\ \A d \in Call : /\ Len(read[d]) \in Nat /\ Len(queue[d]) \in Nat /\ pushed[d] \in Nat
                           /\ read[d] \in Seq(1 .. MaxPush) /\ queue[d] \in Seq(1 .. MaxPush)
    BY Lengths DEF IndInv, CountInv
  <1> SUFFICES ASSUME NEW d \in Call PROVE Counted(d)'
    BY DEF CountInv
  <1>1. ASSUME NEW c \in Call, CallStep(c) PROVE Counted(d)'
    <2> USE <1>0
    <2>1. CASE Start(c)
      <3>1. chan' = Append(chan, c) /\ chan \in Seq(Call)
        BY <2>1 DEF Start, IndInv, TypeOK
      <3>2. d # c => (Contains(chan, d)' => Contains(chan, d))
        BY <3>1, AppendFacts DEF Contains
      <3>3. CASE d # c
        <4>1. reader'[d] = reader[d] /\ read' = read /\ pushed' = pushed /\ reply' = reply /\ queue' = queue
          BY <2>1, <3>3 DEF Start, IndInv, TypeOK
        <4> QED BY <3>2, <3>3, <4>1, CountedFrame
      <3>4. CASE d = c
        <4>1. Untouched(c) /\ reader'[c] = "reading"
          BY <2>1 DEF Start, IndInv, TypeOK, ChanInv
        <4>2. read' = read /\ pushed' = pushed /\ reply' = reply /\ queue' = queue
          BY <2>1 DEF Start
        <4>3. Len(read[c]) = 0 /\ Len(queue[c]) = 0 /\ pushed[c] = 0
          BY <4>1 DEF Untouched
        <4> QED BY <3>4, <4>1, <4>2, <4>3 DEF Counted, Got
      <3> QED BY <3>3, <3>4
    <2>2. CASE StartClosed(c)
      <3>1. reader'[d] = reader[d] \/ reader'[d] = "finished"
        BY <2>2 DEF StartClosed, IndInv, TypeOK
      <3> QED BY <2>2, <3>1, CountedFrame, CountedStopped DEF StartClosed
    <2>3. CASE NextPush(c)
      <3>1. CASE d # c
        <4>1. read'[d] = read[d] /\ queue'[d] = queue[d]
          BY <2>3, <3>1 DEF NextPush, IndInv, TypeOK
        <4> QED BY <2>3, <4>1, CountedFrame DEF NextPush
      <3>2. CASE d = c
        <4> DEFINE r == read[c]
                   q == queue[c]
        <4>1. q # <<>> /\ r \in Seq(1 .. MaxPush) /\ q \in Seq(1 .. MaxPush)
          BY <2>3 DEF NextPush
        <4>2. read'[c] = Append(r, Head(q)) /\ queue'[c] = Tail(q)
          BY <2>3 DEF NextPush, IndInv, TypeOK
        <4>3. /\ reader[c] = "reading" /\ reader' = reader /\ pushed' = pushed /\ reply' = reply
          BY <2>3 DEF NextPush
        <4>4. /\ Len(q) >= 1 /\ Len(Tail(q)) = Len(q) - 1 /\ Head(q) = q[1] /\ q[1] \in 1 .. MaxPush
              /\ \A i \in 1 .. Len(q) - 1 : Tail(q)[i] = q[i + 1]
          BY <4>1, TailFacts
        <4>5. /\ Len(Append(r, Head(q))) = Len(r) + 1
              /\ \A i \in 1 .. Len(r) : Append(r, Head(q))[i] = r[i]
              /\ Append(r, Head(q))[Len(r) + 1] = Head(q)
          BY <4>1, <4>4, AppendFacts
        <4>6. /\ \A i \in 1 .. Len(r) : r[i] = i
              /\ \A i \in 1 .. Len(q) : q[i] = Len(r) + i
              /\ Len(r) + Len(q) <= pushed[c]
              /\ reply[c] = "ok" => Len(r) + Len(q) = pushed[c]
              /\ Len(r) \in Nat /\ Len(q) \in Nat /\ pushed[c] \in Nat
          BY <4>3 DEF Counted, Got
        <4> HIDE DEF r, q
        <4>7. \A i \in 1 .. Len(r) + 1 : Append(r, Head(q))[i] = i
          BY <4>4, <4>5, <4>6
        <4>8. \A i \in 1 .. Len(q) - 1 : Tail(q)[i] = Len(r) + 1 + i
          BY <4>4, <4>6
        <4>9. /\ Len(read'[c]) = Len(r) + 1 /\ Len(queue'[c]) = Len(q) - 1
              /\ Len(r) + 1 <= pushed[c] /\ (Len(r) + 1) + (Len(q) - 1) = Len(r) + Len(q)
              /\ \A i \in 1 .. Len(read'[c]) : read'[c][i] = i
              /\ \A i \in 1 .. Len(queue'[c]) : queue'[c][i] = Len(read'[c]) + i
          BY SMTT(30), <4>2, <4>4, <4>5, <4>6, <4>7, <4>8
        <4> QED BY <3>2, <4>3, <4>6, <4>9 DEF Counted, Got
      <3> QED BY <3>1, <3>2
    <2>4. CASE NextPushNone(c)
      <3>1. CASE d # c
        <4>1. reader'[d] = reader[d]
          BY <2>4, <3>1 DEF NextPushNone, IndInv, TypeOK
        <4> QED BY <2>4, <4>1, CountedFrame DEF NextPushNone
      <3>2. CASE d = c
        <4>1. reader'[c] = "ended" /\ reader[c] = "reading" /\ Len(queue[c]) = 0 /\ ~Contains(chan, c)
          BY <2>4 DEF NextPushNone, IndInv, TypeOK, SenderAlive
        <4>2. Counted(c) /\ Len(read[c]) + 0 = Len(read[c])
          OBVIOUS
        <4>3. reply[c] = "ok" => Len(read[c]) = pushed[c]
          BY <4>1, <4>2 DEF Counted, Got
        <4> QED BY <2>4, <3>2, <4>1, <4>2, <4>3 DEF NextPushNone, Counted
      <3> QED BY <3>1, <3>2
    <2>5. CASE FinishEarly(c)
      <3>1. (reader'[d] = reader[d] /\ queue'[d] = queue[d]) \/ reader'[d] = "early"
        BY <2>5 DEF FinishEarly, IndInv, TypeOK
      <3> QED BY <2>5, <3>1, CountedFrame, CountedStopped DEF FinishEarly
    <2>6. CASE Finish(c)
      <3>1. reader'[d] = reader[d] \/ reader'[d] = "finished"
        BY <2>6 DEF Finish, IndInv, TypeOK
      <3> QED BY <2>6, <3>1, CountedFrame, CountedStopped DEF Finish
    <2>7. CASE FinishTimeout(c)
      <3>1. reader'[d] = reader[d] \/ reader'[d] = "finished"
        BY <2>7 DEF FinishTimeout, IndInv, TypeOK
      <3> QED BY <2>7, <3>1, CountedFrame, CountedStopped DEF FinishTimeout
    <2>8. CASE Abandon(c)
      <3>1. (reader'[d] = reader[d] /\ queue'[d] = queue[d]) \/ reader'[d] = "gone"
        BY <2>8 DEF Abandon, IndInv, TypeOK
      <3> QED BY <2>8, <3>1, CountedFrame, CountedStopped DEF Abandon
    <2>9. CASE ServerPush(c)
      <3>1. CASE d # c
        <4>1. pushed'[d] = pushed[d]
          BY <2>9, <3>1 DEF ServerPush, IndInv, TypeOK
        <4> QED BY <2>9, <4>1, CountedFrame DEF ServerPush
      <3>2. CASE d = c
        <4>1. pushed'[c] = pushed[c] + 1
          BY <2>9 DEF ServerPush, IndInv, TypeOK
        <4>2. reply[c] = "none" /\ reader[c] # "ended"
          BY <2>9 DEF ServerPush, IndInv, PendingInv
        <4>3. /\ Counted(c) /\ read' = read /\ queue' = queue /\ reply' = reply /\ reader' = reader
              /\ Len(read[c]) \in Nat /\ Len(queue[c]) \in Nat /\ pushed[c] \in Nat
          BY <2>9 DEF ServerPush
        <4> HIDE <1>0
        <4>4. Got(c) \in Nat /\ Got(c)' = Got(c)
          BY <4>3, GotNext, Lengths DEF IndInv
        <4>5. Len(read[c]) <= pushed[c] + 1 /\ (reader[c] = "reading" => Got(c) <= pushed[c] + 1)
          BY <4>3, <4>4 DEF Counted
        <4> QED BY <3>2, <4>1, <4>2, <4>3, <4>4, <4>5 DEF Counted
      <3> QED BY <3>1, <3>2
    <2>10. CASE ServerReturn(c)
      BY <2>10, CountedFrame DEF ServerReturn
    <2> QED BY <1>1, <2>1, <2>2, <2>3, <2>4, <2>5, <2>6, <2>7, <2>8, <2>9, <2>10 DEF CallStep, Owner
  <1>2. CASE HandleRequest
    <2>1. Contains(chan, d)' => Contains(chan, d)
      <3>1. chan \in Seq(Call) /\ chan # <<>> /\ chan' = Tail(chan)
        BY <1>2 DEF HandleRequest, IndInv, TypeOK
      <3>2. /\ Len(chan) \in Nat /\ Len(Tail(chan)) = Len(chan) - 1
            /\ \A i \in 1 .. Len(chan) - 1 : Tail(chan)[i] = chan[i + 1]
        BY <3>1, TailFacts
      <3> HIDE <1>0, <1>2
      <3> QED BY <3>1, <3>2 DEF Contains
    <2> QED BY <1>0, <1>2, <2>1, CountedFrame DEF HandleRequest
  <1>3. CASE HandleChunk
    <2>1. /\ Len(inbox) \in Nat /\ Len(inbox) >= 1 /\ Head(inbox) = inbox[1] /\ inbox[1] \in Item
          /\ inbox[1].kind = "chunk"
      BY <1>3, TailFacts DEF HandleChunk, IndInv, TypeOK
    <2>2. CASE d # inbox[1].call \/ reader[d] # "reading"
      <3>1. queue'[d] = queue[d]
        BY <1>3, <2>1, <2>2 DEF HandleChunk, Deliver, IndInv, TypeOK
      <3> QED BY <1>0, <1>3, <3>1, CountedFrame DEF HandleChunk
    <2>3. CASE d = inbox[1].call /\ reader[d] = "reading"
      <3>1. d \in pending
        BY <2>1, <2>3 DEF IndInv, InboxInv
      <3>2. inbox[1].n = Got(d) + 1 /\ inbox[1].n <= pushed[d]
        BY <2>1, <2>3, <3>1, NextChunk
      <3>3. queue'[d] = Append(queue[d], inbox[1].n)
        BY ZenonT(30), <1>3, <2>1, <2>3, <3>1 DEF HandleChunk, Deliver, IndInv, TypeOK
      <3>4. reply[d] = "none" /\ read' = read /\ pushed' = pushed /\ reply' = reply /\ reader' = reader
        BY <1>3, <3>1 DEF HandleChunk, IndInv, PendingInv
      <3>5. inbox[1].n \in 1 .. MaxPush
        <4>1. inbox[1].n \in Nat
          BY <2>1, ItemFacts
        <4>2. pushed[d] <= MaxPush
          BY DEF IndInv, TypeOK
        <4>3. Got(d) \in Nat
          BY Lengths DEF IndInv
        <4>4. pushed[d] \in Nat
          BY <1>0
        <4> QED BY <3>2, <4>1, <4>2, <4>3, <4>4, PushBounds
      <3>6. /\ Len(queue'[d]) = Len(queue[d]) + 1
            /\ \A i \in 1 .. Len(queue[d]) : queue'[d][i] = queue[d][i]
            /\ queue'[d][Len(queue[d]) + 1] = inbox[1].n
        BY <1>0, <3>3, <3>5, AppendFacts
      <3>7. \A i \in 1 .. Len(queue[d]) : queue[d][i] = Len(read[d]) + i
        BY <1>0, <2>3 DEF Counted
      <3>8. \A i \in 1 .. Len(queue[d]) + 1 : queue'[d][i] = Len(read[d]) + i
        <4> SUFFICES ASSUME NEW i \in 1 .. Len(queue[d]) + 1 PROVE queue'[d][i] = Len(read[d]) + i
          OBVIOUS
        <4>1. CASE i \in 1 .. Len(queue[d])  BY <3>6, <3>7, <4>1
        <4>2. CASE i = Len(queue[d]) + 1
          <5>1. Len(read[d]) \in Nat /\ Len(queue[d]) \in Nat
            BY <1>0
          <5>2. PICK r \in Nat, q \in Nat : r = Len(read[d]) /\ q = Len(queue[d])
            BY <5>1
          <5>3. inbox[1].n = (r + q) + 1
            BY <3>2, <5>2, GotNext
          <5>4. queue'[d][q + 1] = (r + q) + 1
            BY <3>6, <5>2, <5>3
          <5>5. (r + q) + 1 = r + (q + 1)
            OBVIOUS
          <5> QED BY <4>2, <5>2, <5>4, <5>5
        <4>3. Len(queue[d]) \in Nat
          BY <1>0
        <4>4. i \in 1 .. Len(queue[d]) \/ i = Len(queue[d]) + 1
          BY <4>3
        <4> QED BY <4>1, <4>2, <4>4
      <3>9. Counted(d) /\ Len(read[d]) \in Nat /\ Len(queue[d]) \in Nat /\ pushed[d] \in Nat
        BY <1>0
      <3>10. Got(d)' = Got(d) + 1
        BY <3>4, <3>6, <3>9, GotNext
      <3> QED BY <2>3, <3>2, <3>4, <3>6, <3>8, <3>9, <3>10 DEF Counted
    <2> QED BY <2>2, <2>3
  <1>4. CASE HandleReply
    <2>1. /\ Len(inbox) \in Nat /\ Len(inbox) >= 1 /\ Head(inbox) = inbox[1] /\ inbox[1] \in Item
          /\ inbox[1].kind = "reply"
      BY <1>4, TailFacts DEF HandleReply, IndInv, TypeOK
    <2>2. CASE d # inbox[1].call
      <3>1. reply'[d] = reply[d]
        BY <1>4, <2>1, <2>2 DEF HandleReply, IndInv, TypeOK
      <3> QED BY <1>0, <1>4, <3>1, CountedFrame DEF HandleReply
    <2>3. CASE d = inbox[1].call
      <3>1. d \in pending /\ reader[d] # "ended"
        BY <2>1, <2>3 DEF IndInv, InboxInv, PendingInv
      <3>2. reader[d] = "reading" => Got(d) = pushed[d]
        BY <2>1, <2>3, <3>1, LastChunk
      <3> QED BY <1>0, <1>4, <3>1, <3>2 DEF HandleReply, Counted, Got
    <2> QED BY <2>2, <2>3
  <1>5. CASE LinkLost
    <2>1. chan' = <<>> /\ reader' = reader /\ queue' = queue /\ read' = read /\ pushed' = pushed
      BY <1>5 DEF LinkLost
    <2>2. reply'[d] = reply[d] \/ reply'[d] = "closed"
      BY <1>5 DEF LinkLost
    <2>3. ~Contains(chan, d)'
      BY <2>1 DEF Contains
    <2> QED BY <1>0, <2>1, <2>2, <2>3 DEF Counted, Got
  <1>6. CASE UNCHANGED vars
    BY <1>0, <1>6, CountedFrame DEF vars
  <1> QED BY <1>1, <1>2, <1>3, <1>4, <1>5, <1>6, StepCases

\* What is missing, when neither the reader nor the server moved.
LEMMA MissingFrame ==
  ASSUME NEW d, Missing(d), Got(d)' = Got(d), pushed'[d] = pushed[d], inbox' = inbox
  PROVE  Missing(d)'
  BY DEF Missing

\* The same when the head of the inbox, not one of its chunks, is taken.
LEMMA MissingTail ==
  ASSUME NEW d, Missing(d), Got(d)' = Got(d), pushed'[d] = pushed[d],
         inbox \in Seq(Item), inbox # <<>>, inbox' = Tail(inbox), ~IsChunk(inbox[1], d)
  PROVE  Missing(d)'
  <1>1. /\ Len(inbox) \in Nat /\ Len(inbox') = Len(inbox) - 1
        /\ \A i \in 1 .. Len(inbox') : i + 1 \in 1 .. Len(inbox) /\ inbox'[i] = inbox[i + 1]
    BY TailFacts
  <1>2. ASSUME NEW m \in Got(d) + 1 .. pushed[d]
        PROVE  \E i \in 1 .. Len(inbox') : IsChunk(inbox'[i], d) /\ inbox'[i].n = m
    <2>1. PICK i \in 1 .. Len(inbox) : IsChunk(inbox[i], d) /\ inbox[i].n = m
      BY DEF Missing
    <2>2. i # 1
      BY <2>1
    <2>3. i - 1 \in 1 .. Len(inbox') /\ (i - 1) + 1 = i
      BY <1>1, <2>2
    <2> QED BY <1>1, <2>1, <2>3
  <1>3. \A i \in 1 .. Len(inbox') : IsChunk(inbox'[i], d) => inbox'[i].n > Got(d)
    BY <1>1 DEF Missing
  <1> QED BY <1>2, <1>3 DEF Missing

\* The inbox holds what a reader misses after every step.
LEMMA ChunksStep ==
  ASSUME IndInv, [Next]_vars
  PROVE  ChunksInv'
  <1>0. /\ inbox \in Seq(Item) /\ chan \in Seq(Call) /\ pending \subseteq Call
        /\ \A d \in pending : reader[d] = "reading" => Missing(d)
        /\ \A d \in Call : reader[d] = "idle" => Untouched(d)
        /\ \A i \in 1 .. Len(chan) : Untouched(chan[i])
    BY DEF IndInv, TypeOK, ChunksInv, ChanInv
  <1> SUFFICES ASSUME NEW d \in pending', reader'[d] = "reading" PROVE Missing(d)'
    BY DEF ChunksInv
  <1>t. Len(read[d]) \in Nat /\ Len(queue[d]) \in Nat /\ pushed[d] \in Nat /\ Got(d) \in Nat /\ d \in Call
    <2>1. d \in Call
      BY TypeStep DEF IndInv, TypeOK
    <2> QED BY <2>1, Lengths DEF IndInv
  <1>1. ASSUME NEW c \in Call, CallStep(c) PROVE Missing(d)'
    <2>1. CASE Start(c)
      <3>1. reader[d] = "reading" /\ d \in pending
        BY <1>0, <2>1 DEF Start, IndInv, TypeOK, Untouched
      <3> QED BY <1>0, <1>t, <2>1, <3>1, GotNext, MissingFrame DEF Start
    <2>2. CASE StartClosed(c)
      <3>1. reader[d] = "reading" /\ d \in pending
        BY <1>0, <2>2 DEF StartClosed, IndInv, TypeOK
      <3> QED BY <1>0, <1>t, <2>2, <3>1, GotNext, MissingFrame DEF StartClosed
    <2>3. CASE NextPush(c)
      <3>1. CASE d # c
        <4>1. read'[d] = read[d] /\ queue'[d] = queue[d]
          BY <2>3, <3>1 DEF NextPush, IndInv, TypeOK
        <4> QED BY <1>0, <1>t, <2>3, <4>1, GotNext, MissingFrame DEF NextPush
      <3>2. CASE d = c
        <4>1. read[d] \in Seq(1 .. MaxPush) /\ queue[d] \in Seq(1 .. MaxPush)
          BY <1>t, Lengths DEF IndInv
        <4>2. queue[d] # <<>> /\ read'[d] = Append(read[d], Head(queue[d])) /\ queue'[d] = Tail(queue[d])
          BY <2>3, <3>2 DEF NextPush, IndInv, TypeOK
        <4>3. Len(read'[d]) = Len(read[d]) + 1 /\ Len(queue'[d]) = Len(queue[d]) - 1
          BY <4>1, <4>2, AppendFacts, TailFacts
        <4> QED BY <1>0, <1>t, <2>3, <4>3, GotNext, MissingFrame DEF NextPush
      <3> QED BY <3>1, <3>2
    <2>4. CASE NextPushNone(c)
      <3>1. reader[d] = "reading" /\ d \in pending
        BY <1>0, <2>4 DEF NextPushNone, IndInv, TypeOK
      <3> QED BY <1>0, <1>t, <2>4, <3>1, GotNext, MissingFrame DEF NextPushNone
    <2>5. CASE FinishEarly(c)
      <3>1. reader[d] = "reading" /\ d \in pending /\ queue'[d] = queue[d]
        BY <1>0, <2>5 DEF FinishEarly, IndInv, TypeOK
      <3> QED BY <1>0, <1>t, <2>5, <3>1, GotNext, MissingFrame DEF FinishEarly
    <2>6. CASE Finish(c)
      <3>1. reader[d] = "reading" /\ d \in pending
        BY <1>0, <2>6 DEF Finish, IndInv, TypeOK
      <3> QED BY <1>0, <1>t, <2>6, <3>1, GotNext, MissingFrame DEF Finish
    <2>7. CASE FinishTimeout(c)
      <3>1. reader[d] = "reading" /\ d \in pending
        BY <1>0, <2>7 DEF FinishTimeout, IndInv, TypeOK
      <3> QED BY <1>0, <1>t, <2>7, <3>1, GotNext, MissingFrame DEF FinishTimeout
    <2>8. CASE Abandon(c)
      <3>1. reader[d] = "reading" /\ d \in pending /\ queue'[d] = queue[d]
        BY <1>0, <2>8 DEF Abandon, IndInv, TypeOK
      <3> QED BY <1>0, <1>t, <2>8, <3>1, GotNext, MissingFrame DEF Abandon
    <2>9. CASE ServerPush(c)
      <3> DEFINE m == [call |-> c, kind |-> "chunk", n |-> pushed[c] + 1]
      <3>1. m \in Item /\ m.call = c /\ m.kind = "chunk" /\ m.n = pushed[c] + 1
        BY <2>9, PushBounds DEF ServerPush, Item, IndInv, TypeOK
      <3>2. inbox' = Append(inbox, m)
        BY <2>9 DEF ServerPush
      <3> HIDE DEF m
      <3>3. /\ Len(inbox) \in Nat /\ Len(inbox') = Len(inbox) + 1
            /\ inbox'[Len(inbox) + 1] = m
            /\ \A i \in 1 .. Len(inbox) : inbox'[i] = inbox[i]
        BY <1>0, <3>1, <3>2, AppendFacts
      <3>4. Missing(d) /\ Got(d)' = Got(d)
        BY <1>0, <1>t, <2>9, GotNext DEF ServerPush
      <3>5. pushed'[d] = IF d = c THEN pushed[d] + 1 ELSE pushed[d]
        BY <1>t, <2>9 DEF ServerPush, IndInv, TypeOK
      <3>6. reader[d] = "reading" /\ Got(d) <= pushed[d]
        BY <1>t, <2>9 DEF ServerPush, IndInv, CountInv, Counted
      <3>7. ASSUME NEW n \in Got(d) + 1 .. pushed'[d]
            PROVE  \E i \in 1 .. Len(inbox') : IsChunk(inbox'[i], d) /\ inbox'[i].n = n
        <4>1. CASE n <= pushed[d]
          <5>1. n \in Got(d) + 1 .. pushed[d]
            BY <1>t, <4>1
          <5>2. PICK i \in 1 .. Len(inbox) : IsChunk(inbox[i], d) /\ inbox[i].n = n
            BY <3>4, <5>1 DEF Missing
          <5> QED BY <3>3, <5>2
        <4>2. CASE n > pushed[d]
          <5>1. d = c /\ n = pushed[c] + 1
            BY <1>t, <3>5, <4>2
          <5>2. Len(inbox) + 1 \in 1 .. Len(inbox')
            BY <3>3
          <5> QED BY <3>1, <3>3, <5>1, <5>2 DEF IsChunk
        <4> QED BY <1>t, <4>1, <4>2
      <3>8. ASSUME NEW i \in 1 .. Len(inbox'), IsChunk(inbox'[i], d) PROVE inbox'[i].n > Got(d)
        <4>1. CASE i \in 1 .. Len(inbox)  BY <3>3, <3>4, <3>8, <4>1 DEF Missing
        <4>2. CASE i = Len(inbox) + 1
          <5>1. d = c /\ inbox'[i].n = pushed[d] + 1
            BY <3>1, <3>3, <3>8, <4>2 DEF IsChunk
          <5> QED BY <1>t, <3>6, <5>1
        <4> QED BY <3>3, <4>1, <4>2
      <3> QED BY <3>4, <3>7, <3>8 DEF Missing
    <2>10. CASE ServerReturn(c)
      <3> DEFINE m == [call |-> c, kind |-> "reply", n |-> 0]
      <3>1. m \in Item /\ m.kind = "reply"
        BY PushBounds DEF Item
      <3>2. inbox' = Append(inbox, m)
        BY <2>10 DEF ServerReturn
      <3> HIDE DEF m
      <3>3. /\ Len(inbox) \in Nat /\ Len(inbox') = Len(inbox) + 1
            /\ inbox'[Len(inbox) + 1] = m
            /\ \A i \in 1 .. Len(inbox) : inbox'[i] = inbox[i]
        BY <1>0, <3>1, <3>2, AppendFacts
      <3>4. Missing(d) /\ Got(d)' = Got(d) /\ pushed'[d] = pushed[d]
        BY <1>0, <1>t, <2>10, GotNext DEF ServerReturn
      <3>5. \A i \in 1 .. Len(inbox') : IsChunk(inbox'[i], d) => i \in 1 .. Len(inbox)
        BY <3>1, <3>3 DEF IsChunk
      <3>6. \A i \in 1 .. Len(inbox) : i \in 1 .. Len(inbox')
        BY <3>3
      <3> QED BY <3>3, <3>4, <3>5, <3>6 DEF Missing
    <2> QED BY <1>1, <2>1, <2>2, <2>3, <2>4, <2>5, <2>6, <2>7, <2>8, <2>9, <2>10 DEF CallStep, Owner
  <1>2. CASE HandleRequest
    <2>1. inbox' = inbox /\ read' = read /\ queue' = queue /\ pushed' = pushed /\ reader' = reader
      BY <1>2 DEF HandleRequest
    <2>2. CASE d \in pending
      BY <1>0, <1>t, <2>1, <2>2, GotNext, MissingFrame
    <2>3. CASE d \notin pending
      <3>1. d = chan[1] /\ 1 \in 1 .. Len(chan)
        BY <1>0, <1>2, <2>3, TailFacts DEF HandleRequest
      <3>2. pushed'[d] = 0 /\ Got(d)' \in Nat
        BY <1>0, <1>t, <2>1, <3>1, GotNext DEF Untouched
      <3>3. \A i \in 1 .. Len(inbox) : ~IsChunk(inbox[i], d)
        BY <2>3 DEF IndInv, InboxInv, IsChunk
      <3> QED BY <2>1, <3>2, <3>3 DEF Missing
    <2> QED BY <2>2, <2>3
  <1>3. CASE HandleChunk
    <2>1. /\ Len(inbox) \in Nat /\ Len(inbox) >= 1 /\ Head(inbox) = inbox[1] /\ inbox[1] \in Item
          /\ inbox[1].kind = "chunk"
          /\ Len(inbox') = Len(inbox) - 1
          /\ \A i \in 1 .. Len(inbox) - 1 : inbox'[i] = inbox[i + 1]
      BY <1>0, <1>3, TailFacts DEF HandleChunk
    <2>2. /\ Missing(d) /\ d \in pending /\ reader[d] = "reading"
          /\ read' = read /\ pushed' = pushed
      BY <1>0, <1>3 DEF HandleChunk
    <2>3. CASE d # inbox[1].call
      <3>1. queue'[d] = queue[d]
        BY <1>3, <2>1, <2>3 DEF HandleChunk, Deliver, IndInv, TypeOK
      <3>2. Got(d)' = Got(d)
        BY <1>t, <2>2, <3>1, GotNext
      <3> QED BY <1>0, <1>3, <2>2, <2>3, <3>2, MissingTail DEF HandleChunk, IsChunk
    <2>4. CASE d = inbox[1].call
      <3>1. inbox[1].n = Got(d) + 1
        BY <2>1, <2>2, <2>4, NextChunk
      <3>2. queue'[d] = Append(queue[d], inbox[1].n)
        BY ZenonT(30), <1>3, <1>t, <2>1, <2>2, <2>4 DEF HandleChunk, Deliver, IndInv, TypeOK
      <3>3. Len(queue'[d]) = Len(queue[d]) + 1
        BY <1>t, <3>2, Lengths DEF IndInv
      <3>4. Got(d)' = Got(d) + 1
        BY <1>t, <2>2, <3>3, GotNext
      <3>5. ASSUME NEW n \in (Got(d) + 1) + 1 .. pushed[d]
            PROVE  \E i \in 1 .. Len(inbox') : IsChunk(inbox'[i], d) /\ inbox'[i].n = n
        <4>1. n \in Got(d) + 1 .. pushed[d] /\ n # Got(d) + 1
          BY <1>t
        <4>2. PICK i \in 1 .. Len(inbox) : IsChunk(inbox[i], d) /\ inbox[i].n = n
          BY <2>2, <4>1 DEF Missing
        <4>3. i # 1
          BY <3>1, <4>1, <4>2
        <4>4. i - 1 \in 1 .. Len(inbox) - 1 /\ (i - 1) + 1 = i
          BY <2>1, <4>3
        <4> QED BY <2>1, <4>2, <4>4
      <3>6. ASSUME NEW i \in 1 .. Len(inbox'), IsChunk(inbox'[i], d)
            PROVE  inbox'[i].n > Got(d) + 1
        <4>1. i + 1 \in 1 .. Len(inbox) /\ 1 \in 1 .. Len(inbox) /\ 1 < i + 1 /\ inbox'[i] = inbox[i + 1]
          BY <2>1
        <4>2. inbox[1].n < inbox[i + 1].n
          BY <2>4, <3>6, <4>1 DEF IsChunk, IndInv, OrderInv
        <4>3. inbox[i + 1].n \in Nat
          BY <1>0, <4>1, ItemFacts
        <4> QED BY <1>t, <3>1, <4>1, <4>2, <4>3
      <3> QED BY <2>2, <3>4, <3>5, <3>6 DEF Missing
    <2> QED BY <2>3, <2>4
  <1>4. CASE HandleReply
    <2>1. d # inbox[1].call
      BY <1>0, <1>4, TailFacts DEF HandleReply
    <2>2. /\ Missing(d) /\ Got(d)' = Got(d) /\ pushed' = pushed
      BY <1>0, <1>t, <1>4, GotNext DEF HandleReply
    <2> QED BY <1>0, <1>4, <2>1, <2>2, MissingTail DEF HandleReply, IsChunk
  <1>5. CASE LinkLost
    BY <1>5 DEF LinkLost
  <1>6. CASE UNCHANGED vars
    BY <1>0, <1>t, <1>6, GotNext, MissingFrame DEF vars
  <1> QED BY <1>1, <1>2, <1>3, <1>4, <1>5, <1>6, StepCases
-----------------------------------------------------------------------------
(* The theorem *)

LEMMA Inductive == Spec => []IndInv
  <1>1. IndInv /\ [Next]_vars => IndInv'
    <2> SUFFICES ASSUME IndInv, [Next]_vars PROVE IndInv'
      OBVIOUS
    <2>1. TypeOK'
      BY TypeStep DEF IndInv
    <2> QED BY <2>1, LinkStep, InboxStep, ChanStep, PendingStep, ChunksStep, CountStep DEF IndInv
  <1> QED BY <1>1, InitInd, PTL DEF Spec

\* A reader gets its own function's pushes, in order and without a gap; after
\* None and an Ok from finish it has them all: for any number of concurrent
\* calls and of pushes, and wherever the link is cut.
THEOREM PushesAreComplete == Spec => []PushesComplete
  <1>1. ASSUME IndInv, NEW c \in Call
        PROVE  /\ IsPrefix(read[c], Count(pushed[c]))
               /\ (reader[c] = "ended" /\ reply[c] = "ok") => read[c] = Count(pushed[c])
    <2>1. PICK n \in Nat, r \in Seq(1 .. MaxPush) : n = pushed[c] /\ r = read[c]
      BY <1>1, Lengths DEF IndInv
    <2>2. /\ Len(r) \in Nat /\ Len(r) <= n /\ \A i \in 1 .. Len(r) : r[i] = i
          /\ (reader[c] = "ended" /\ reply[c] = "ok") => Len(r) = n
      BY <1>1, <2>1 DEF IndInv, CountInv, Counted
    <2>3. Count(n) \in Seq(Nat) /\ Len(Count(n)) = n /\ \A i \in 1 .. n : Count(n)[i] = i
      BY <2>1 DEF Count
    <2>4. IsPrefix(r, Count(n))
      <3>1. SubSeq(r, 1, Len(r)) = [i \in 1 .. Len(r) |-> i]
        BY <2>2
      <3>2. SubSeq(Count(n), 1, Len(r)) = [i \in 1 .. Len(r) |-> i]
        BY <2>2, <2>3
      <3> QED BY <2>2, <2>3, <3>1, <3>2 DEF IsPrefix
    <2>5. Len(r) = n => r = Count(n)
      <3>1. r = [i \in 1 .. Len(r) |-> r[i]]
        OBVIOUS
      <3> QED BY <2>2, <3>1 DEF Count
    <2> QED BY <2>1, <2>2, <2>4, <2>5
  <1>2. IndInv => PushesComplete
    BY <1>1 DEF PushesComplete, IndInv
  <1> QED BY <1>2, Inductive, PTL
=============================================================================
