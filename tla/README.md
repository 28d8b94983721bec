# Verification of tarant

tarant is an asynchronous client for Tarantool: handles that callers clone, one
background task that owns the socket, and the codecs and value types between
them. This directory holds TLA+ modules translated from its source, the TLC
configurations that check them on small instances, and TLAPS proofs about its
state machines, its framing, errors and paging, and its instants and dates for
every value of their parameters. `PROJECT.json` maps every
definition to the lines it models and lists runs, mutants, hazards, findings and
theorems.

    tlc -workers 2 -config Connection.cfg MCConnection
    tlapm ConnectionProofs.tla

## 1. Inventory

| Component | State | Operations | Interacts with |
|---|---|---|---|
| connection task, `connection.rs` `Task` | `pending` by sync, `watchers` by key, `deferred` (≤ 4096), `shutting_down`, the link | `run` (drain, then `select!` over channel and link), `handle_command`, `handle_response`, `fail_link`, `reconnect`, `defer` | takes commands from a bounded channel, settles oneshot replies, feeds watch cells and push queues |
| handle, `connection.rs` `Handle` | shared atomics (`next_sync`, `closed`, …), the channel's sender, what the first handshake negotiated | `request`, `request_with_pushes`, `fire`, `watch`, `unwatch`, `close` | one command per call into the channel |
| handshake, `connection.rs` `handshake_inner` | local: greeting, link, negotiated features | greeting, pipelined ID and AUTH, replies in order, `connect_timeout` | called by `Handle::connect` and `Task::reconnect` |
| authentication, `auth.rs` | none | base64, `chap_sha1` | used by the handshake |
| options, `options.rs` | the settings | URL parsing, percent-decoding | read by handshake and task |
| watchers, `watcher.rs` | a watch cell per watcher | `subscribe`, `get`, `changed`, drop | `Watch`/`Unwatch` commands, events |
| streams, `client.rs` `Stream` | stream id, `in_transaction` | `begin`, requests, `commit`, `rollback`, drop | requests and one fired rollback |
| prepared statements, `sql.rs` `Statement` | an atomic id shared by concurrent runs | `run` with one re-preparation, `unprepare`, drop | requests and one fired release |
| push calls, `client.rs` `PushCall` | an unbounded queue and a oneshot | `next_push`, `finish` | chunk packets |
| paged selects, `client.rs` `Select`, `Paged` | the cursor the caller keeps | `page`, `after`, `after_tuple`, `offset` | one request per page |
| framing and packets, `codec.rs`, `msgpack.rs` | the read buffer | `Codec::decode`, `Response::parse`, `value_len` | between socket and task |
| value types, `types/*.rs` | none | payloads, parsing, display, order | extension payloads in packets |
| client and DML builders, `client.rs`, `tuple.rs`, `update.rs` | an `Update` keeps its operations and its first error | check a feature, encode keys, tuples, operations and parameters, build one packet, decode the reply | one request each through the handle |
| errors, `error.rs`, `codec.rs` | none | read an error reply: a message or a stack of frames | between packet and caller; an unreadable stack ends the link |

What is hard here:

* **Concurrency.** Callers, the task, the link and the server interleave;
  `select!` is free to choose. A flag is read before a send, a reply may race a
  timeout, a drop cannot await.
* **Failure.** A link breaks with requests in flight, in the middle of a drain,
  in the middle of a transaction, between a PREPARE and its retry.
* **Ordering.** Deferred commands, newer commands and fired rollbacks share one
  order; pipelined handshake replies are told apart by order alone.
* **Limits.** A full channel, a full deferred queue, a packet at its limit, i64
  and i32 ends in the value types.
* **Progress.** Every caller must be woken whatever ends the task.

What makes each component correct, in one line: a request is answered at most
once, with its own answer, is run at most once and its caller always returns; a
watcher sees the latest value and the server's subscriptions follow the table; a
transaction is all or nothing and does not outlive its stream; a statement runs
once per call; a push reader gets its own pushes and then the result; a walk over
pages sees each row once; the outcome of a call tells what it did to the space;
an error is the server's own, with its code and cause; a ready link has the user's session; bytes in any
pieces give the packets that were sent; values survive the wire, their text and
their order.

## 2. Modules

Modules in the order they were planned, most important first. Every one is a
projection of the same task, with the other components reduced to what they can
do to it; `map` names the lines.

| Module | Models |
|---|---|
| `RequestContract` | what a request promises its caller: the abstract specification |
| `Connection` | handles, channel, task, link and server for requests, fires and close; implements `RequestContract` |
| `WatchRegister` | what a watcher promises its owner: a register that is read forwards and to its latest version; abstract |
| `Watchers` | watchers, the table of the task, events and acknowledgements, re-subscription; implements `WatchRegister` |
| `Transactions` | streams over sessions that come and go |
| `Statements` | concurrent runs of one prepared statement |
| `Pushes` | `box.session.push()` chunks and their readers |
| `Handshake` | greeting, ID, AUTH, timeout; what reconnects do with the result |
| `Paging` | a walk over a space that others write to |
| `Calls` | every call of `Client`, `Space`, `Select`, `Stream::begin` and SQL, from its arguments to its result |
| `SpaceEffects` | what the server's requests do to a space; external, used by `Calls` |
| `Errors` | error replies, and who gets what of them |
| `Framing`, `Packet` | bytes to packets, packets to responses |
| `Utf8` | what UTF-8 is; external, used by `Packet` and `Options` |
| `Options`, `Auth` | URL and credentials, base64 and scramble |
| `Decimal`, `Datetime`, `Calendar`, `Interval`, `Uuid` | the value types |
| `ConnectionProofs` | theorems about `Connection`, its contract and its order |
| `StatementProofs`, `HandshakeProofs`, `TransactionProofs`, `PushProofs`, `WatcherProofs` | theorems about the other state machines |
| `WireParts`, `WireProofs` | `Framing`, `Paging` and `Errors` side by side, and theorems about them |
| `ValueParts`, `ValueProofs` | `Calendar` and `Datetime` side by side, and theorems about them |
| `MCSessions` | one run over `Statements` and `Transactions` |
| `MCLink` | one run over `Handshake` and `Pushes` |
| `MCWire` | one run over `WireParts`, `Options`, `Auth`, `Packet`, `Calls` and a long frame |
| `MCValues` | one run over `ValueParts`, `Decimal`, `Interval` and `Uuid` |
| the other `MC…` | constants of the runs |

Correspondence worth knowing:

* *Connection.* One action per step between two awaits. `NextSync`, `CheckClosed`,
  `Submit`, `Timeout`, `Cancel` are `Handle::request_inner`; `Drain…` and
  `Command…` are the two ways the loop of `Task::run` reaches `handle_command`,
  split into the outcome of the send; `Packet…` is `handle_response` or the end of
  the link; `SleepElapsed`, `DeferCommand`, `CloseWhileDown`, `Handshake…` are
  `Task::reconnect`; `FinishClose` and `GiveUp` are the two exits. `ticket`,
  `lastSent` and `execs` are history. A link is `up`, `dead` (gone, the task does
  not know), `broken` (a send failed) or `none`; when it dies any part of what was
  under way still arrives in either direction, and the server may run what it
  received after that (`orphan`).
* *Calls.* A call goes through three steps: it is refused or sent (`Gated`,
  `Request`), served or lost (`ServerAnswers`, `GiveUp`), and its reply is decoded
  (`Return`). Values are records of a kind and a content; an encoder yields the
  set of its one encoding, or the empty set on an error. What a call does to the
  space is computed twice from the same definitions of the server: by `Served`
  from the packet the code builds, and by `Meaning` from the call as it is
  documented. They differ when the code writes another key, base, iterator or
  shape than it documents, and that is what `CallsDoAsAsked` compares. The server
  refuses an empty key with `Eq` and `Req`, as tuple.rs:29 has it, so `get(())` fails.
* *Watchers.* `cell` is the value in the watch channel, `entry` and `list` the
  table; an event is acknowledged in the same action that delivers it, as in the
  code.
* *Transactions, Statements, Pushes* take the channel and the link from
  `Connection` in the coarsest form that keeps their hazards: requests are queued,
  sent, answered, or cut off with the link; a fired packet may meet a full
  channel. In `Statements` the server may also fail any request of a run, and
  `Prepared` and `Retried` have the error paths of `Statement::run`.
* *Sessions and links.* Statements and transactions share nothing but the links,
  and neither do handshakes and pushes, so `MCSessions` and `MCLink` check two
  modules in one run: a behaviour is about one of them (`part`), and the other
  stands still in its initial state.
* *Packet.* A packet is made of two sequences of entries, and each value carries
  what it was meant to be beside its bytes. The code's side (`HeaderEntry`, `BodyEntry`,
  `HeaderTyped`, `BodyTyped`, `ErrorDecodes`) sees bytes only: `read_uint` and
  `read_str` of the keys that have a type, the stack of an error reply, the last
  of several entries under a key, keys wider than a byte. The property compares
  that with what was meant. `Errors` has what is made of a stack that can be read.
* *Wire and values.* These parts share no state, so one run serves several: the
  initial state chooses a part (`kind`), and the variables of the others are
  unused. `WireParts` and `ValueParts` hold the parts there are theorems about,
  with their constants open; `MCWire` and `MCValues` extend them, and keep the
  variables of the remaining parts in registers `a`, `b`, … (`INSTANCE … WITH`).
  Each property of these runs is what the part's module states, for its `kind`.
  `Bounds` has TLC evaluate what each module expects of its constants.
* *Framing.* A length is the Horner sum of a fixed number of bytes (`Shift`), once
  for each of the five prefixes, as `from_be_bytes` of an array of that size is. A
  length that is over the limit after some bytes stays over it, which stands for
  the width of a u64 that no packet under the limit needs.
* *Datetime* also takes values of `time`, `chrono` and `jiff` in and out; the
  accessors of those crates (`Parts`) are external, with their leap seconds and
  negative fractions. `SystemTime` is the one of Unix, which holds every i64
  second.
* *Decimal.* Payloads are the code's own (`Serialize`) or any a server could send
  (`Arrive`): no scale, a scale beyond i32, nibbles that are no digits or no sign.
* *Values.* A text is a sequence of digits or codes, numbers keep their width as a
  parameter (`I64Max`), and each operator is compared with an independent
  definition: a calendar walked day by day, base64 by bits, numbers compared
  after scaling.

## 3. Runs

Passing runs, with their bounds. Every one reaches the cases its properties are
about: each property has a mutant, a plausible slip in the mapped code, that the
same run refutes.

| Run | Bounds | What it shows |
|---|---|---|
| `connection` | 2 requests, 1 fire, 3 links, channel 2, deferred 1, timeouts, `box.shutdown` | at most once, own answers, nobody forgotten, final refusals, order, quiet after close, the contract |
| `connection_live` | 2 requests, 2 links, channel 2, deferred 2, no timeout | every call returns on a fair network; Close ends the task even if no server comes back |
| `watchers` | 2 watchers of a key, 2 values, 3 links, channel 1, deferred 2 | table and subscriptions agree; the register is implemented (never backwards, the latest version in the end); the server stops sending |
| `sessions` | 2 runs, 3 links, timeouts, failing requests; 1 stream, 5 requests, 2 links, channel 2, aborts, timeouts | one execution per run; unknown ids have a cause; a release leaves nothing behind; every run returns; atomic on one link; Drop's flag misses no open transaction; an abandoned transaction ends |
| `link` | 9 servers, 3 links, 2 callers; 2 calls, 3 pushes each, timeouts | session, replies and features after pipelined ID and AUTH; a queued request gets past servers that refuse or fall silent; own pushes, in order, all of them, then the end |
| `wire` | URLs of 5 names and 4 hosts with 1 edit; salts of each padding with 2 edits and 3 passwords; 2 packets with limit 2 and 1 with limit 256, in every split and length form; headers and bodies with numbers, texts, stacks and others under every kind of key, twice under one key and under wide keys, cut at every byte; 4 keys, 2 writes, 1 failed page; 2 rows or none, 20 update operations taken up to 2 at a time, 9 keys, 7 tuples, 11 selections, 12 options of begin, servers with all, one and no feature; 2 callers, stacks of up to 2 of 3 frames | credentials are read back, by the one reading; decode inverts encode and exactly the right client gets in; frames are exact; packets are parsed as made, or refused when a value is not what its key asks for, within the buffer; steady rows are seen exactly once; outcomes tell what calls did; errors are the server's |
| `values` | decimals of 2+2 digits from {0, 5} with exponents to and beyond both limits of the scale, and arriving payloads; an i64 of 8 values with 4 nanos, crates with 5 seconds and offsets on either side of their limit; 1600 days around each anchor; an i64 of 6 values and two units; UUID texts with 2 damaged characters | value, text and order survive the wire; the civil calendar; the month-end rule; both forms, either case |

The largest runs, `wire`, `link`, `sessions` and `values`, have 604,274, 242,013,
450,782 and 753,293 distinct states and take about a minute each with two workers
(`wire` a little more).

Why the bounds are enough: pairing, order and overflow show with two requests
and a fired packet that compete; a second link is needed
for everything stale, and a third for a retry that is interrupted again. The
channel and the deferred queue are smaller than the number of commands, so both
overflow. Two operations show that the first error of an `Update` is kept and that
order matters; the operations have field numbers from either end, 0, a path, the
next field, one beyond it and one beyond `I32Max`. Scaled widths keep both ends, zero and the neighbours of each.

Deadlock is checked where the system must not stop (`Connection`, `Watchers`);
the other models end when their bounded work is done. `Reconnect::Never` is an
option of `Connection` that no run sets and the proofs cover: it takes a lost
link straight to `GiveUp`, which the runs reach through Close during an outage.

### Fairness

* `TaskFairness`: tokio polls a ready task; `select!` picks a ready branch at
  random, so a branch that is ready again and again is taken (hence strong
  fairness on the two branches); sleeps end, and a handshake ends through
  `connect_timeout`.
* `CallerFairness`: a caller is polled; tokio's channel hands permits out in
  order, so a caller that waits for room gets it (strong fairness on `Submit`).
* `NetworkFairness`, a premise of `EveryCallReturns` only: a server is reachable
  again in the end and answers what it received. `CloseEndsTask` does without it.
* `Statements`: the task, the callers, links that come back and a server that
  answers, as for `EveryCallReturns`; none on drops and timeouts.
* `HandshakeFairness`: the timer of `connect_timeout` and the one of the backoff
  fire (`Timeout`, `Redial`), and the task takes a queued command while a link is
  ready (`SendBegin`). Nothing is assumed of the server or the network, which may
  refuse or fall silent at any step; `QueuedIsSent` excepts the end of the bound on
  links only.
* `Watchers`, `Transactions`, `Pushes`: weak fairness on the task, on the owner's
  pending step and on the server; none on drops, broadcasts, cancellations or
  aborts.

In `MCSessions` the fairness of both modules holds throughout: the one that stands
still enables none of the steps it is about. `MCLink` asks for that of the handshake
only in behaviours about the handshake, which begins in the middle of `connect`.

## 4. Findings

Each has a run whose only property states what a comment says, and TLC finds the
behaviour that contradicts it.

1. `finding_atomic`: a transaction that straddles a reconnect commits with `Ok`
   although its first writes are gone (client.rs:775).
2. `finding_refused`: `shutting_down` is never reset, so after a reconnect to a
   healthy server requests are still refused (connection.rs:337).
3. `finding_close`: `Client::close` fails requests in flight instead of letting
   them finish (client.rs:266, connection.rs:46).
4. `finding_uuid`: a UUID text of 36 characters with more than four hyphens is not
   refused: an even number of spare ones is read with zero bytes at the end, an odd
   number panics (uuid.rs:81, uuid.rs:205, lib.rs:46). `UuidsAreRead` covers every
   other text.
5. `finding_panic`: `TryFrom<Datetime>` for `time::OffsetDateTime` panics instead of
   failing when the instant is in range and the local time is not (datetime.rs:301
   against lib.rs:46). `InstantsSurvive` says when each outcome occurs, and that there
   is no other panic.

Met while modelling, without a run of their own. The modules have the behaviour,
and the checked properties state the promise with its exception:

* a second watcher of a key waits for the next broadcast (connection.rs:40 and
  client.rs:232 say otherwise; `WatchRegister` promises nothing of when
  `Client::watch` returns);
* what a drop sends is lost when the channel is full (watcher.rs:35, README.md:138;
  the exceptions of `StopsSending` and `AbandonedEnds`);
* a link lost twice shows the caller the unknown statement id (sql.rs:112; the
  exception of `OnlyDisturbedFail`);
* after a reconnect, features are those of the first server (error.rs:74,
  client.rs:300; `FirstLinkHasFeature` speaks of the first link);
* zero loses its scale (decimal.rs:29; `DecimalsAreNumbers` compares the scale that
  is shown of every other number);
* an IPv6 literal gets no default port, and `%+4` passes for an escape
  (options.rs:40 and 58; `UrlIsRead` leaves the literal's port open);
* symbols behind a pad of the salt are not looked at (auth.rs:45);
* an error reply with an empty body loses the code in its header (`Errors`), and
  one with an unreadable stack ends the link for everybody.

Observed while reading: `request_timeout` does not cover the wait
for room in the channel; `SystemTime` for the very first representable second
moves by one second; `civil_from_days` is exact for every day `Display` can reach
and overflows near the ends of i64, although its comment says every day; the
example in the documentation of `Select::page` goes on with `position` as it is,
so with a server that returns no position with the last page, which the field's
documentation allows, it would start over, while the repository's test stops.

## 5. Proofs

Every safety invariant, and the safety part of every refinement, of the six
state machines is proved by TLAPS for every value of the constants, and so are
five properties of the `wire` and `values` runs. TLC shows the same properties on
the instances of section 3.

| Theorem | Module | States |
|---|---|---|
| `Invariance` | `ConnectionProofs` | `Spec => []IndInv` |
| `TypeCorrect` | `ConnectionProofs` | `TypeOK`, with the bounds of both queues |
| `NoRequestRunsTwice` | `ConnectionProofs` | `AtMostOnce` |
| `AnswersAreOwn` | `ConnectionProofs` | `AnswerIsOwn` |
| `RefusalsAreFinal` | `ConnectionProofs` | `RefusalIsFinal` |
| `NobodyIsForgotten` | `ConnectionProofs` | `NobodyForgotten` |
| `Refinement` | `ConnectionProofs` | `ImplementsContract`: `Connection` implements `RequestContract` |
| `ClosedIsFinal` | `ConnectionProofs` | `ClosedSendsNothing` |
| `CommandsInOrder` | `ConnectionProofs` | `SentInOrder` |
| `TypeCorrect` | `WatcherProofs` | `TypeOK`, with the limits of channel and deferred commands |
| `TablesStayInStep` | `WatcherProofs` | `TablesAgree` |
| `WatcherRefinesRegister` | `WatcherProofs` | `Register!Steps`: each step is one of `WatchRegister`, or none |
| `TypeCorrect` | `TransactionProofs` | `TypeOK`, with the limit of the channel |
| `TransactionsAreAtomic` | `TransactionProofs` | `AtomicOnOneLink` |
| `OwnerKnows` | `TransactionProofs` | `OpenIsKnown` |
| `RunsAtMostOnce` | `StatementProofs` | `RunsOnce` |
| `UndisturbedSucceed` | `StatementProofs` | `OnlyDisturbedFail` |
| `ReleaseIsComplete` | `StatementProofs` | `ReleaseLeavesNothing` |
| `PushesAreComplete` | `PushProofs` | `PushesComplete` |
| `ReadyIsAuthenticated` | `HandshakeProofs` | `SessionIsTheUsers` |
| `RepliesAreOwn` | `HandshakeProofs` | `OwnReplies` |
| `HandleIsTrue` | `HandshakeProofs` | `FirstLinkHasFeature` |
| `FramesComeOut` | `WireProofs` | `FramesAreExact` |
| `ErrorsDelivered` | `WireProofs` | `ErrorsAreTheServers` |
| `PagesSeeEachOnce` | `WireProofs` | `RowsOnce` |
| `Dates` | `ValueProofs` | `DatesAreCivil` |
| `Instants` | `ValueProofs` | `InstantsSurvive` |

### Assumptions

Limits are naturals, there is at least one link, a channel has room for one
command (tokio refuses a channel without), options are Booleans. Beyond that:

* `StatementBounds`, `WatchBounds`: the runs, the watchers and the keys are
  finite sets; the proofs count the runs that may still prepare, and put the keys
  of the table in a sequence, as `Task::reconnect` walks them.
* `TransactionBounds`: the value `"none"`, which stands for a packet without a
  stream, is no stream; ids of streams begin at 1 (connection.rs `next_stream_id`).
* `HandshakeBounds`: every server that may answer has the fields of
  `ServerType`. It may be of any age, reject ID, garble it, or break off.

`WireProofs` and `ValueProofs` speak of several parts, so what they assume of the
constants of one is a hypothesis of its theorem; `Bounds` of `MCWire` and
`MCValues` has TLC evaluate the same formulas. In `Spec` of `WireParts` and
`ValueParts` the part that was chosen moves as its module says and the others not
at all (`ErrorPart`, `PagesPart`, `FramesPart`, `CalendarPart`, `DatetimePart`), so
each theorem is the one of its module.

* `FramingBounds`: a packet is a sequence of bytes whose length fits a u32, the
  width of the length `Codec::encode` writes (it refuses more). Nothing is said of
  the limit or of how many packets there are.
* `ErrorBounds`: codes are naturals, and a frame holds numbers or `Wrong`, a content
  of another type. Frames may miss any key and stacks have any depth.
* `PagingBounds`: a page has room for a tuple, as a limit of 0 returns none.
* `DatetimeBounds`: the crates' range lies within i64, and zones are integers.
* `FromEpoch`: `CalendarBounds`, and the walk begins at 1970-01-01, the one date
  taken as known. The span of the walk is any number of days; the run begins at
  other dates too, to reach them within its bounds.

### Arguments

None of the properties is inductive. Each proof module begins with the invariant
that is, `IndInv`, a conjunction of named parts; then comes a lemma for each
action or each part, with a step for each part or action under it, and the
theorems follow from `Spec => []IndInv`. Lemmas on `Append`, `Tail` and
`SubSeq` say what a step does to a queue. `WireProofs` and `ValueProofs` prove a
part each of a composition and name the invariants after what they say
(`Delivery`, `Walked`, `Flows`; `Walk`, `Passage`). TLC checked every `IndInv` as
an invariant before it was proved.

| `IndInv` of | checked by TLC with | distinct states |
|---|---|---|
| `StatementProofs` | the bounds of `sessions` | 111,200 |
| `HandshakeProofs` | the bounds of `link` | 102,916 |
| `TransactionProofs` | 1 stream, 5 syncs; 2 streams, 4 syncs | 339,582; 2,084,025 |
| `PushProofs` | 2 calls, 3 pushes | 139,097 |
| `WatcherProofs` | 1 key; 2 keys, 2 links, 1 deferred | 147,664; 1,033,786 |

*Connection.* `AtMostOnce` holds because a request is in one place at a time, so
the invariant says where a request may be:

* `QueueInv`: a sync occurs once in channel and deferred together, and its caller
  has submitted it;
* `FreshInv`: a sync not yet submitted is nowhere and has not run;
* `FlightInv`: what is on the wire, among the orphans or answered in the inbox has
  left the queues, each in one place, and `execs` is 1 exactly when it ran;
* `LinkInv`: which phases have a link, and that a task without one has nothing
  pending.

`HandleOk` and `HandleErr` are proved once for draining and for the channel. The
refinement maps a caller anywhere inside its call to `open`; every step is a
contract step or a stutter. `SentInOrder` needs `OrderInv` (tickets rise through
deferred and then the channel, all above `lastSent`), `ClosedSendsNothing` needs
`ClosedInv` (the flag is set only in the last phases).

*Watchers.* `TablesAgree` speaks of what the wire will make of the server's
table, so the invariant (`Agreed`) points to the last packet about a key: it is a
WATCH exactly when the key has an entry, and without one the session itself
agrees. The server's own step takes the first packet and leaves the last one last.
The refinement needs `VersionInv`: versions only grow from what the owner read,
to the cell, the events on their way in their order, and the value of the key, so
an event that arrives late never takes a cell back. `WatchRegister` splits
into `Steps` and `Progress`: the first is proved, the second is left to TLC.

*Transactions.* Replies, wire and channel are one queue in the order of syncs
(`QueueInv`), so the packets of a stream are served in the order they were
called. `AwaitedInv` is the crux: once a begin returned Ok, whatever is still
under way for the stream has a future that waits for it, even when requests of
earlier transactions were given up. Without it such a request could be served
inside the new transaction. `TxInv` then follows a transaction through the server:
what was written is held until the end is answered; `KnownInv` has the reply of
begin on its way while the flag does not say so yet.

*Statements.* `RunInv` ties the request a run waits for to the step it is at, and
says that nothing follows an EXECUTE that ran. `FreshInv` has an undisturbed run go
by an id its session knows from its PREPARE on. `CountInv` bounds the ids handed
out by the runs that may still prepare, which the type invariant needs. For the
release, which sends one id, `KnownInv` accounts for every id the session knows: it
is the statement's, or a run has it and is about to store it (`Holds`), or it went
astray, replaced by a second run or come back to one that had given up (`Strays`).
With `OwnedInv`, that no run outlives the statement, only strays are left.

*Pushes.* What a reader has not got yet is in the inbox, and only that
(`Missing`), in order, with the reply last (`OrderInv`); `Counted` says that what
was read and what is queued behind it count the pushes from 1. Together: when
the reply arrives and is Ok, nothing is missing.

*Handshake.* `Expected` lists, for each step of the handshake, the replies still
to be read; `FlightInv` says that the replies on their way and then the requests
are exactly that list, which is why telling them apart by order works and why a
ready link carries none. `ReplyInv` and `SessionInv` carry what the server did
with AUTH to the step that reads it, `HandleInv` what ID said to the handle.

*Framing.* The packets sent are laid out in one string of bytes, which no variable
holds: the peer chose a prefix for each packet, and what is left of it is cut
between the read buffer and the network. `Flows` therefore says that such a
string and the places where packets end in it *exist* (`Laid`), that buffer and
network are what follows the last packet given out (`Runs`), and, while nothing is
cut, all of it (`Whole`). `DecodeIs` is about one buffer: if it starts with a
packet in any legal prefix, or with the beginning of one, `decode` returns that
packet, asks for more, or fails because the packet is over the limit. Each step
then moves the border: a send makes the string longer, a read moves bytes into the
buffer, a packet given out moves the start on by its prefix and length.

*Errors.* `Delivery` says of every caller where its reply is: not made, on the way
once (`OnTheWay`, and then the caller still waits), or decoded into what it got
(`Owned`); and that the link is lost exactly when somebody's reply could not be read. Decoding frame by frame is a function on the indices, so the causes
follow in order without induction.

*Paging.* `Walked` splits on the style. By position or tuple (`ByKey`), the walk
was given nothing behind `at` and every steady key up to it; by offset with no
writes (`ByCount`), it was given exactly the first `at` keys. A page under way
holds the next keys ahead (`PageOf`, `Ahead`). The lemmas on `FirstOf` say that the first n
keys of a set are closed downwards and what their number is; they rest on the
cardinality theorems of the library and on the least key of a set. TLC checked
`Walked` with 4 keys before it was proved.

*Dates.* `Walk` says that the date reached day by day is `CivilFromDays(day)`. The
step is arithmetic, split as the calendar is: an era of 400 years, its centuries,
their groups of four years, a year; each level shows which quotient `YearOfEra`
gets and that the days before the year are the ones subtracted. Within a year,
months are counted from March, so that a leap day is the last day, and the
formula with 153 gives the lengths of the months. `Shown` then splits a local
instant into that day and its seconds.

*Instants.* An instant is `epoch * Nanos + nsec`, and `Passage` says at each stage
that the value in hand stands for the same one, with the offset of its zone up to
the seconds of a minute (`ZoneKept`). The exceptions are the code's: saturation at
the ends of i64, the very first instant, ranges of the crates.

### Only model-checked

* Liveness: `EveryCallReturns`, `CloseEndsTask`, `StopsSending`, `AbandonedEnds`,
  `RunsEnd`, `PushesEnd`, `QueuedIsSent` and the `Progress` of `WatchRegister`.
  Fairness and ENABLED are out of the prover's reach.
* `UrlIsRead`, `RightOneGetsIn`, `PacketsAreRead` and `DecimalsAreNumbers`.
  Percent-decoding, base64, nested MessagePack values and digits of a number are
  read by recursion on the data, and induction over data is out of reach.
* `SpansSurvive` and `UuidsAreRead`. An interval's payload is read by a fold over its
  pairs and a UUID's text by `SelectSeq`; both are defined by recursion on a
  sequence.
* `CallsDoAsAsked`. `Calls` uses `SpaceEffects`, whose recursive operators the
  prover cannot load.

## 6. Not modelled

* Metadata of columns and parameters, and autoincrement ids: copied from the
  reply field by field. The bytes of a scalar: `rmp_serde`'s.
* `Debug` and `Display` of errors, options and handles; the table of named error
  codes; the setters of `ConnectOptions`, whose values are parameters here.
* SHA-1 itself (symbolic in `Auth`), TCP and tokio (as used by the code).
* Conversions to `uuid`, `rust_decimal` and `f64`.
* The check of a feature in front of `Client::watch`: it returns before anything is
  sent, and `Calls` has the same check for the other calls.
* A reconnect, the deferred queue and the refusals of a shutdown in `Pushes`: a call
  that was sent ends with its link, and what becomes of requests that were not is in
  `Connection`.
* `saturating_add` of `Display` for `Datetime`: it differs from a sum only within
  i16::MAX minutes of the ends of i64, some 292 billion years away, and `Calendar`
  adds without that limit.
* `SystemTime` of other platforms than Unix, whose narrower range `checked_add`
  would refuse.
* Widths of counters: `next_sync` is a u64 that cannot wrap in practice, and is
  bounded in the models.

## 7. Plan

1. Done: the core (`Connection`, its contract, its proofs), the clients of the
   connection, the handshake, the codecs and the value types.
2. Done: the register that `Watchers` implements, every call of the client with
   `Update` and its first error, error stacks, the crates' datetimes, and progress
   of statements and handshakes.
3. Next in the models: push calls and watchers composed with `Connection`'s
   deferred queue and shutdown; an abstract specification of a transaction (all or
   nothing per session) that `Transactions` implements; the interval's display.
4. Done in the proofs: every safety invariant of the state machines, the safety
   part of both refinements, and of the wire and the values what needs no
   induction over data: framing, errors, paging, instants and dates.
5. Next in the proofs: an interval's payload as a function of its ids instead of
   a fold, which would bring `SpansSurvive` within reach.
