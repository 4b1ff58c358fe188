# aiorabbit in TLA+

[aiorabbit](../src) is an asyncio client for RabbitMQ: one connection, one
channel, a strict state machine over the AMQP 0-9-1 methods. This directory
models the parts of it that decide whether a call of the application ends, ends
once, and ends with the answer that belongs to it. `PROJECT.json` holds the same
facts in a form for machines: components, runs, mutants, the source lines of
every definition, the hazards and the theorems.

## 1. The system

Everything runs on one event loop. Between two `await`s a coroutine is not
interrupted, so an action of the models is one such stretch, one callback, or
one frame handed to `data_received`.

| Component | State | Operations | Talks to |
|---|---|---|---|
| State manager, `state.py` | `_state`, `_exception`, `_waits` (an `asyncio.Event` per awaited state and wait) | `_set_state` (refuses what the table does not list), `_reset_state`, `_wait_on_state` (polls every millisecond), `_on_exception` (handler of the event loop) | base class of the next two; sets its events with `call_soon` |
| Channel0, `channel0.py` | negotiated limits, heartbeat interval and timer, `_last_heartbeat`, the shared `blocked` event | `process` (one branch per frame), `open`, `close`, `_heartbeat_check`, `_negotiate` | writes to the transport; reports to `Client._on_remote_close` |
| Client: connection, `client.py` 391-457, 1395-1440, 1571-1649 | `_channel0`, `_transport`, `_connected`, `_close_lock` | `connect`, `close`, `_connect`, `_reconnect`, `_reset`, `_on_disconnected`, `_on_remote_close` | owns Channel0 and the transport |
| Client: RPC methods, 733-760, 1000-1393, 1587-1668 | `_rpc_lock`, `_last_error`, `_channel`, `_channel_open`, `_transactional`, `_publisher_confirms` | `_send_rpc`, the methods of one request and one answer, `_open_channel`, `_post_wait_on_state` | the broker |
| Client: publishing, 567-731, 1670-1676 | `_delivery_tag`, `_delivery_tags` (an event per tag), `_confirmation_result`, `_message` | `publish`, `_set_delivery_tag_result`, assembly of returned messages | the broker; the return callback |
| Client: consuming, 459-566, 800-1000 | `_consumers`, `_pending_consumers`, `_get_future`, `_message`, `_last_frame` | `basic_consume`, `consume`, `basic_cancel`, `basic_get`, `basic_ack`, `basic_nack`, `basic_reject` | the broker; the consumers' callbacks |
| Framing, `protocol.py` | the byte buffer | `data_received`, `connection_lost` | calls `Client._on_frame` |
| The rest | none | `Message` (accessors), exceptions, types, validation, URL and TLS options, `connect()` | |

How they interact: a frame reaches `_on_frame`, which sets a state of the client
(or hands the frame to Channel0, which sets one of its own); `_set_state`
schedules the events of those who wait for that state; a millisecond or more
later a poll finds the event, or finds the one recorded exception first. A
refused `_set_state` in a coroutine raises there; in a callback it goes to the
handler of the event loop, and there is one handler, Channel0's (it is installed
last), whichever callback raised.

What is hard here:

* a wait and the state it waits for are connected by an event that is set later
  and looked at later still; the state may be left, refused, reset and entered
  again in between;
* one exception slot for any number of waiters;
* a frame is written before the state machine may refuse it;
* requests are serialised by a lock, but what repairs a channel runs outside it;
* the broker closes a channel or the connection at a time of its own, frames cross,
  the socket drops;
* confirmations come for several messages at once.

The 39 places where one of these bites are the `hazards` of `PROJECT.json`.

## 2. Modules

| Module | Models | Uses |
|---|---|---|
| `StateManager` | the operations of `state.py`, as operators on a record | |
| `StateWaits` | one state manager with its callbacks, coroutines and waiters; implements `WaitContract` | `StateManager` (EXTENDS), `WaitContract` (INSTANCE) |
| `WaitContract` | what `state.py` promises those who wait, without events and callbacks; abstract | |
| `StateWaits_proofs` | theorems about `StateWaits` | `StateWaits`, `TLAPS` |
| `Channel0` | `channel0.py` against a broker and a socket | `StateManager` (INSTANCE) |
| `Channel0_proofs` | theorems about `Channel0` | `Channel0`, `TLAPS` |
| `ClientStates` | the transition table of `client.py` | |
| `ClientRpc` | `_send_rpc`, the methods that are one RPC each, channel errors, `close` | `ClientStates`, `StateManager` |
| `ClientRpc_proofs` | theorems about `ClientRpc` | `ClientRpc`, `FrameSequences`, `TLAPS` |
| `PublisherConfirms` | `publish` in confirm mode, confirmations, returned messages | `ClientStates`, `StateManager` |
| `PublisherConfirms_proofs` | theorems about `PublisherConfirms` | `PublisherConfirms`, `FrameSequences`, `TLAPS` |
| `Consumers` | `basic_consume`, `consume`, `basic_cancel`, `basic_get`, acks, content frames | `ClientStates`, `StateManager` |
| `Consumers_proofs` | theorems about `Consumers` | `Consumers`, `FrameSequences`, `TLAPS` |
| `ConsumersCareful_proofs` | theorems about `Consumers` for a careful application | `Consumers_proofs`, `TLAPS` |
| `Connection` | `connect`, `close`, `_reconnect`, `_reset`, old and new connections; the context manager | `ClientStates`, `StateManager` |
| `Connection_proofs` | theorems about `Connection` | `Connection`, `FrameSequences`, `TLAPS` |
| `FrameSequences` | lemmas about sequences of frames, for the proofs | `TLAPS` |
| `MC...` | instances for TLC | |

**State manager.** A manager is the record `[state, exception, waits, ready,
fired]`: `waits` are the registered events, pairs of a state and a waiter;
`ready` is the queue of `call_soon` callbacks, one set of events per
`_set_state`; `fired` the events already set. `SetState` is the whole
`_set_state`: nothing for the state it has, a refusal, or the new state
with its callbacks. Each waiter waits at most once at a time, so it
stands for the `wait_id`. An exception is known by its kind in the modules of the client,
where the code compares objects (`state.py:80`). It matters for one set alone, CLOSED after
missed heartbeats, and there `Connection` sets it as if no exception were recorded
(`BeforeANewException`): any other exception goes with EXCEPTION, which is never refused.
`StateWaits` tells the objects apart.

**Channel0.** One action per branch of `process`, and `Open`/`OpenReturns`/
`OpenRaises`, `Close`/`CloseReturns`/`CloseRaises`, `HeartbeatCheck`. `Tick` is
the passing of one unit of time while a timer is armed, and waits for the
loop to be idle: the poll of 1 ms is short against a heartbeat interval. The
frame limit is negotiated by the code of the channel limit, one stands for both.
The broker (external) follows AMQP 0-9-1, may refuse, and speaks unasked.
`CallbackRaises` is any exception of the application that reaches the handler.

**ClientRpc.** A task is a coroutine of the application that makes one call after
another. `Call` and `Acquire` are the two ways into the lock, `Send` the stretch from there to the
first `await`, `Poll...` what `_post_wait_on_state` does with the result,
`Close...` the steps of `close`, `Receive...` the branches of `_on_frame`.
Taking `_close_lock` is a step of its own, as it is for a task that has to queue.
Answers carry the call they answer, which the code cannot see; the properties can.

**PublisherConfirms.** A message is known by its publisher and its number.
`Publish` is the code up to the first `await`, `Take` the end that looks a
result up, `SetResult` is `_set_delivery_tag_result`. The broker notes what became
of each message in `verdict`.

**Consumers.** An application is a *workload*, chosen in the initial state: how many
calls each task makes, of which methods, how it settles, how many body frames the
messages have, the prefetch count, what the broker may refuse, and whether it is
*careful*. A careful application makes one call at a time, settles a message
before its next call, and while it has a consumer calls only when nothing can be delivered to
it. `Deliver`, `GetOk`, header and body are frames of their own; a message
carries whom the broker sent it for, and a body frame its number, which the code cannot see. The generator of `consume`
is the pc `iterating`, its queue `app.mailbox`.

**Connection.** Each connection that is tried is a *session*: what its Channel0 has come
to, its socket, its two directions and the broker's side. The client refers to
sessions by number, by `_channel0` and by `_transport`; `_reset` sets these to None and leaves
the session as it is, so that its frames, its loss and its timer go on and reach the
client through the callbacks they always had. A socket may be refused, go silent, or be
lost after any prefix of what was under way; heartbeats are missed when nothing
else can happen on a session. The one coroutine calls `connect`, `close` and
`queue_declare`, which stands for every request.

In `ClientRpc`, `PublisherConfirms` and `Consumers` a task that goes on to `_reconnect` stops at the pc
`reconnecting`: what follows is the module `Connection`. Properties that say a call
ends count this as an end. `Channel0` appears there only as what `is_closed` reads of it.

Mutants stand before the definition they replace and are marked as such; nothing
else refers to them.

## 3. What is checked

Twelve runs. All are exhaustive within their bounds.

| Run | Instance | Shows |
|---|---|---|
| `state_waits` | the table of `tests/test_state.py`, 2 waiters, 2 exception objects, 2 pending callbacks | `ImplementsContract`: every step is one of `WaitContract`, so a wait ends with a state entered since it began or with the one recorded exception, which ends no other. `NoLostWakeup`: a state entered during a wait stays known to it. `EnteredIsNoticed`, `ErrorIsNoticed`: such waits end |
| `channel0` | with and without heartbeats, limits asked for, offered, or neither, up to 3 unsolicited frames, socket may drop | `PeerLossReported` within three intervals; `RefusalIsReported`; `BlockedAgrees`; `TimerStops`; `ClosedStaysClosed`; `AcceptedAsAgreed`; `OpenFinishes`, `CloseFinishes` |
| `client_rpc` | 3 tasks with `close` and no refusals, or 1 task with 4 calls and 2 errors; socket may drop | `AnswersMatch`, `CloseDisconnects`, `StaysUsable`, `ChannelRestored`, `EveryCallEnds` |
| `client_rpc_chaos` | 2 tasks with everything, transactions and unsolicited channel closes too | `ChannelAgrees`, `NothingFollowsClose`: what holds when requests fail in every way |
| `publisher_confirms` | 2 publishers, acks in order, returned messages with and without body, missing exchange, socket may drop, no return callback | `ConfirmsAreTrue`; `ErrorIsRaisedOnce`: both publishers are woken by a Channel.Close, one of them at most is raised its error; `AckedPublishEnds`; a set tag has a result (`TypeOK`) |
| `publisher_confirms_returns` | 1 publisher, 3 messages, both verdicts, returned, missing | `ConfirmsAreTrue`, `ReturnedIsReported`, `TagsAreForgotten`, `StaysUsable` |
| `consumers` | 2 tasks; a careful application with 3 calls, a careless one, and consumers whose queue is deleted; 2 deliveries, a body of two frames; socket may drop | `HandedAsSent`: to whom the broker sent it, with its own header and the whole of its own body. `DeliveredIsHanded`: none is dropped. `CarefulIsServed`, `SettledIsMeant`, `EveryCallEnds` for the careful one |
| `connection` | 3 sessions, 2 calls, heartbeats, refused and failed connections, a broker that closes, a network that fails | `ConnectCanBeRetried`; `ReconnectedWithChannel`; `EveryCallEnds` unless nothing can answer it |

Every property above has a mutant of the code that breaks it in the same run.

Four runs expect a violation. Each checks what the repository says of itself:

| Run | Says | Code |
|---|---|---|
| `client_rpc_two_tasks` | README.rst:19, the client continues after a channel error | a second task waiting for the RPC lock is let in before the channel is open again; the answer to its frame is refused in a callback and the client is closed |
| `publisher_confirms_reopened` | README.rst:19 | the new channel is not in confirm mode, the next `publish` waits for ever |
| `consumers_cancelled` | `basic_cancel`, client.py:876-878, messages may arrive before CancelOk | a delivery in `BASIC_CANCEL_SENT` is refused in a callback and the client is closed |
| `connection_old_session` | README.rst:14-16, the client reconnects and continues | the old connection's `connection_lost` closes the client on the new one |

### Bounds

* `MaxErrors`, `MaxReady` (2): two exceptions are the least that can be confused,
  two pending callbacks the least that can be out of order.
* `MaxUnsolicited` (1-3): Blocked, Unblocked and a Close, in any order.
* `MaxSilence` (4, 7): beyond three intervals a longer silence changes nothing.
* `MaxCalls` (2-4), `MaxMessages` (1-3): a call that fails, the one that
  finds what it left, and one more. `MaxChannels` (2): the number wraps round.
* `MaxDeliveries` (2): two messages are the least that can be confused.
* `MaxSessions` (3), and `MaxCalls` (2) in `Connection`: a connection, the one that
  replaces it and the one after a second failure; the call that fails and the one that
  finds what it left. Without `EveryCallEnds`, three calls pass too (5.2 million states).
* Tasks: 3 is a holder, a waiter and one behind it. Two publishers are the fewest
  of whom one can get what is the other's.

### Fairness

Weak fairness of: the callbacks of the loop and of each coroutine that can go on (an event loop
runs what is ready, and the poll repeats each millisecond), the next frame in
the inbox (delivered while the socket holds, and after it what had arrived),
and the broker's next frame. `BrokerSettles` is fair in `PublisherConfirms`: a
broker confirms what it has routed. In `Connection`, `create_connection` ends:
it has a timeout. Nothing is assumed of the
application's calls, of unsolicited frames, or of the socket. `CHECK_DEADLOCK
FALSE` stands where the behaviour ends: the connection closed, all calls made.

### Why some properties have a condition

* `OpenFinishes`, `CloseFinishes` are checked with a socket that holds, and
  `EveryCallEnds`, `AckedPublishEnds` except a lost one: `channel0.py:177`,
  `client.py:1595` and `client.py:727` wait for something that only a frame can bring.
* `CloseFinishes` is about a `close()` with `open()` behind it: otherwise both wait
  for one exception and one of them gets it.
* `PeerLossReported` begins with the first frame on another channel or heartbeat:
  until then `_last_heartbeat` is 0 and the check does nothing (`channel0.py:217`).
* `AnswersMatch` is not checked with several tasks and refusals together: the
  frame of a call that the state machine refuses has been written
  (`client.py:1662`), and its answer may end the next call of that kind.
* `CloseDisconnects` is not checked with several tasks and refusals together: once
  Channel0 has failed, `is_closed` is true and `close()` leaves the socket open.
* `EveryCallEnds` is not checked with unsolicited closes and several tasks: a
  channel that nobody opens again can leave a call in `_open_channel`.
* `ConfirmsAreTrue` with several publishers is checked for acks only: a
  result stays in the dict until its publisher polls and a later nack writes it again.
* `StaysUsable` of `publisher_confirms_returns` is for one publisher, bodies that
  are not empty and a return callback: an ack and a nack in a row, the ack of a
  returned empty message, and a missing callback each put Channel0 into its
  exception state.
* A channel that the broker closes while no request waits is never opened again:
  `_post_wait_on_state` does that, for a task that was waiting. `ChannelRestored` is
  checked without unsolicited closes.
* `ConfirmsAreTrue` is for a broker that confirms in order (`OutOfOrder` FALSE): an ack
  settles every earlier tag, `multiple` or not (`client.py:1673`).
* `CarefulIsServed` and `EveryCallEnds` of `Consumers` are for a careful application and
  a queue that stays: a delivery between a request and its answer is refused by
  `BASIC_CONSUME_SENT` and its like, and `Basic.Cancel` from the broker is an
  unsupported method. Two tasks in `basic_get` at once share `_get_future`;
  `HandedAsSent` says to whom a message goes, of gets, for the careful one only. A delivery tag kept
  over the reopening of the channel settles another message (`client.py:942`).
* `CarefulIsServed` is proved, and in the run checked, for a broker that refuses no
  `basic_cancel`: `BASIC_CANCEL_SENT` is followed by `BASIC_CANCELOK_RECEIVED` alone
  (`client.py:259`), so the Channel.Close of a refusal is refused itself. RabbitMQ confirms
  the cancel of a tag it does not know.
* `EveryCallEnds` and the addressee in `HandedAsSent` are for consumes that the broker grants:
  a refused one leaves its future and callback in `_pending_consumers`
  (`client.py:859`), where the next ConsumeOk takes them (`client.py:1485`). The next
  `basic_consume` then waits for ever and its messages go to the callback of the first. A
  channel that closes over a consume under way leaves its future in the same way, so the
  applications that are not careful are told their addressees on the first channel only.
* `EveryCallEnds` of `Connection` leaves out a silent socket, and an opening or a close
  whose connection has ended: `channel0.py:177` and `client.py:1595` do not look at
  the client's exception. It also leaves out `MaxSessions` connections: the
  code reconnects without end (`client.py:1439`, 1612).
* `ReconnectedWithChannel` says what the broker has, not what `_channel_open` says: a
  CloseOk of an old connection may clear it. It holds until `connect()` is called with
  `_channel_open` still set: `close()` on a client that has lost its connection returns
  before `_reset`, the next `connect()` does not wait for its own channel, and the
  Channel.OpenOk it did not wait for may then count for a later connection. This takes five
  calls and four connections, more than the bounds of the run; the attempt to prove the
  property found it, and `stale` is the history it left.
* `ConnectCanBeRetried` is for the errors that `connect` names. After a
  StateTransitionError, or when `_reconnect` is refused with AccessRefused, the
  client stays in the exception state, from which CONNECTING is refused.
* `ErrorIsRaisedOnce` counts the errors and does not say whose they are: all publishers
  are woken by the Channel.Close, and whoever opens the channel takes the one `_last_error`.
  The one whose message was refused may get a StateTransitionError or an UnknownError, and
  another its NotFound. That the error goes to the right one (`ErrorIsOwn`) is true of
  one publisher only, and is proved of one.

Two more cases the modules have or leave out on purpose: a call on a client that
lost its connection sends nothing and returns (`skipped` in `ClientRpc`), and
messages published before `confirm_select` shift the client's tags against
the broker's (`PublisherConfirms` starts without any).

## 4. What is proved

`StateWaits_proofs`, for every set of states, transition table, set of waiters
and bound. Assumed: `StateManagerAssumption` of `StateWaits` (the two special
states are states, the table maps states to sets of states, waits ask for
sequences of states), which TLC evaluates in `state_waits`.

| Theorem | Property |
|---|---|
| `Invariance` | `IInv`, inductive |
| `TypeCorrect` | `TypeOK` |
| `WaitsReturnVisited` | `ReturnsOnlyVisited` |
| `WakeupsAreKept` | `NoLostWakeup` |
| `ExceptionsAreDeliveredOnce` | `DeliveredOnce` |
| `WaitsLeaveNothing` | `NoLeak` |
| `WaitsKeepTheContract` | `ImplementsContract`: `StateWaits` implements `WaitContract` |

None of the properties is inductive alone. `ReturnsOnlyVisited` speaks of the
step that returns; it needs `PendingWasVisited`, that an event, set or scheduled,
stands for a state entered during that wait, and this in turn needs `NoLeak`, that
the events of a wait do not outlive it. `NoLostWakeup` needs `Registered`: a wait is
registered for all it asks for until a reset forgets it. `DeliveredOnce` needs
`Undelivered` and `RecordedIsOld`: the recorded exception, and those not created
yet, were raised to nobody. Lemmas say what each operation of the manager does to
the pending events (`EnterPends`, `RunCallbacksPends`, `ClearWaitsPends`); the
proof of the step then has one case per action.

The refinement maps `visited` to `entered`, the manager's exception to `recorded` and
the exception objects still to come to `fresh`; events, callbacks and resets' orphans have
no counterpart. `SetStepImplements` takes the three actions that call `_set_state`
together: with `RecordedIsOld` a call that says nothing new is a stutter.
`ReturnImplements` is where `PendingWasVisited` is needed.

`Channel0_proofs`, for every heartbeat interval, every limit of the client and of the
broker, and any number of frames. Assumed: `Channel0Assumption` of `Channel0`, which TLC
evaluates in `channel0`.

| Theorem | Property |
|---|---|
| `Channel0Invariance` | `IInv`, inductive |
| `Channel0TypeCorrect` | `TypeOK` |
| `SilenceIsReported` | `PeerLossReported` |
| `SettingsAreAgreed` | `AcceptedAsAgreed` |
| `RefusalsAreReported` | `RefusalIsReported` |
| `TimersStop` | `TimerStops` |
| `ConnectionsStayClosed` | `ClosedStaysClosed` |
| `BlockingIsAgreed` | `BlockedAgrees` |

`IInv` says where the handshake is on both sides of the socket and what may be under
way (`WireOK`, `NotOpened`, `HeaderIsFirst`): the client tunes once, so that the
settings are final when TuneOk is written (`TuneIsOffered`, `TuneOkIsSettled`,
`AgreedIsSettled`), and `open` returns True only on the broker's OpenOk
(`OpenOkIsAcceptance`). `PeerLossReported` needs to know when the next check comes:
`CheckIsInTime` bounds the silence so far and the time left on the timer by three
intervals together. `TimerIsOpens` ties the timer to the states in which it was armed;
`CloseOkSentIsReported` says that a closing broker's CloseOk is not written before the
client's callback knows. `BlockedAgrees` has an invariant of its own, `BlockingInv`: the
last Blocked or Unblocked on the wire says how the broker is. `ClosedStaysClosed` follows
from the transition table and the type invariant.

`PublisherConfirms_proofs`, for any number of publishers and of messages, whatever the
broker does with them and whenever the socket is lost. Assumed:
`PublisherConfirmsAssumption`, which TLC evaluates in `publisher_confirms`.

| Theorem | Property |
|---|---|
| `ConfirmsInvariance` | `IInv`, inductive |
| `ConfirmsTypeCorrect` | `TypeOK` |
| `PublishTellsTheTruth` | `ConfirmsAreTrue`, if `Unambiguous` |
| `OneRefusalOneError` | `ErrorIsRaisedOnce` |
| `AloneInvariance` | `AloneInv`, if `Alone` |
| `ErrorsAreOwn` | `ErrorIsOwn`, if `Alone`: the error is of that very message |
| `TagsAreDropped` | `TagsAreForgotten`, if `Alone` |
| `ReturnsAreReported` | `ReturnedIsReported`, if `Alone` and `OnReturn` |
| `PublisherStaysUsable` | `StaysUsable`, if `Alone`, `OnReturn` and no body is empty |

`Unambiguous` names the two cases the runs are about: confirmations come in order, and all
of them say the same or there is one publisher. It is needed in one place, where the
broker settles (`SettlesOwn`): otherwise a frame may cover a message that was settled before
with the other verdict, and the code would write its result again. The rest of `IInv`
holds without it. `ConfirmsAreTrue` speaks of a call that is over; `ResultsAreTrue` says the
same of the result noted for a call under way, `FramesAreTrue` of the confirmations
on the socket, and `BrokerCounts` ties the tags of client and broker together: they count
the same messages, `Len(outbox)` apart, until the broker closes the channel, after
which (`ClosedIsSettled`) nothing is confirmed any more. `TagsAreOwn`, that calls
under way have different tags, lets one publisher forget its tag without
touching another's. `Quiet` collects the steps that give no publisher anything new to
believe: most of the client's.

`OneRefusalOneError` has an invariant of its own, `EInv`, and no condition. Its core is a sum
(`Counted`): the publishers that were raised the error, the error kept in `_last_error` and the
Channel.Close under way are together no more than the refusals. Each of them passes
its error to the next: a refusal sends a Channel.Close, which fills the slot, which
`RaiseClosed` empties. `ClosingOK` says that no second Channel.Close is under way, from
what the broker does until its CloseOk comes; `MessagesAreNew`, that a message is written
once, so that each refusal is a new one.

`Alone` is one publisher on a socket that holds, the instance of `publisher_confirms_returns`;
the number of messages, the verdicts, outcomes and bodies are arbitrary. Several publishers
share one `_last_error` and one state; and after a lost socket a refused `publish` leaves its
tag behind. `AInv` follows the one message round: `Resting`; `Waiting`, that is `Published`,
`Routed` (perhaps with the return and the confirmation still on the wire, `Returning`),
`Confirmed`, `Missing` or `Refused`; `Reopening`; `Raising`. `Stuck` is a confirmation the
state refused after the header of a returned message without body. Each phase names the
state, the set and scheduled events, and every frame under way, so that it can be read off
the table which `_set_state` is allowed. That a return is reported by the time publish
ends rests on the order of the frames: in `Returning` the confirmation follows the content.

`ClientRpc_proofs`, for any number of tasks, calls and channels, every choice of what
the broker refuses and whether the network may fail. Assumed: `ClientRpcAssumption`.

| Theorem | Property |
|---|---|
| `RpcInvariance` | `IInv`, inductive |
| `RpcTypeCorrect` | `TypeOK` |
| `NothingIsWrittenAfterClose` | `NothingFollowsClose` |
| `ChannelsAgree` | `ChannelAgrees` |

`NothingFollowsClose` needs both locks: one task at a time is in the body of `close()`
(`CloseIsExclusive`), and once Connection.Close is written the client is closed for
good, so that who comes next out of the queue of the RPC lock is turned away
(`ClosingIsFinal`). `ChannelAgrees` is the long one. `ChannelInStep` says of a connection
that holds how the two ends of the channel come together: at most one Channel.Open, or the
OpenOk for it, is under way, it asks for the channel the client counts on, and the CloseOk
for the old channel goes ahead of it (`OpensOnce`); while it is, the client rests in
CHANNEL_OPEN_SENT; and a client that takes its channel for open is right, or the frame
that closes it is on its way. The transition table comes in where it must: it keeps a second
task from opening the channel at the same time.

The second part of `ClientRpc_proofs`, for any number of tasks, calls and channels, and a socket
that may be lost after any step. Assumed: `ClientRpcAssumption`, and `Orderly`: the broker closes a
channel only to refuse a request; and it refuses none, or one task makes all the calls and
the table allows a Channel.Close after each request that may be refused. TLC
evaluates `Orderly` for the workloads of `client_rpc` (`WorkloadsAreOrderly`).

| Theorem | Property |
|---|---|
| `CallsAreAnsweredRight` | `AnswersMatch`, if `Orderly` |
| `ClientStaysUsable` | `StaysUsable`, if `Orderly` |
| `ClosingDisconnects` | `CloseDisconnects`, if `Orderly` |

Without `Orderly` they are false, as "Why some properties have a condition" says: an answer
that comes for a call the state machine had refused is taken by another. The three share
one invariant, `Invariant`, which is `IInv` of `ClientRpc_proofs` with `OInv`. Its heart
is `Phases`: what client, broker and both wires look like in the one exchange that may be
under way. Nobody has a request (`Resting`); one task has (`Asking`), was answered
(`Answered`) or refused (`Refused`) and has not noticed, opens the channel again
(`Reopens`) or is about to raise (`Raises`); somebody closes (`Closes`); the socket is
gone (`Over`). In each phase all frames under way are named, so that the answer that comes
is the answer to the request. It is the RPC lock that makes them exclusive. When the socket is gone
the events of a wait may still be set: `HeardRight` says what they stand for. The
proof takes each action through the phases it can happen in.

`Connection_proofs`, for any number of connections and of calls, every way a connection
can fail, with and without heartbeats. Assumed: `ConnectionAssumption`.

| Theorem | Property |
|---|---|
| `ConnectionInvariance` | `IInv`, inductive |
| `ConnectionTypeCorrect` | `TypeOK` |
| `RetriesAfterFailure` | `ConnectCanBeRetried` |
| `ComesBackWithChannel` | `ReconnectedWithChannel` |

`Current` is the core: a client has the Channel0 of the newest connection or none, and
the transport lags behind it only while it is dialed. So a call that waits, waits on one
connection, although the callbacks of all of them reach the client. `Retries` adds that
these leave a client without Channel0 in CLOSED, from which the table allows CONNECTING
alone (`ClosedConnects`). For `ReconnectedWithChannel`, `OpensInTurn` says that the
only Channel.Open or Channel.OpenOk under way, on any connection, is the one the
client waits for; `NoneCloses`, that no Channel.Close follows it, which would take the broker back.
`Timed` is the last part of `TypeOK`. Most steps change nothing of this: `Passive` says
when one connection, and `Passes` when all of them, neither ask for a channel nor grant
one, and `PassesKeeps` that such a step keeps `IInv`.

`Consumers_proofs`, for any number of tasks, calls and messages, every workload, careful or
not, whatever the broker refuses or cancels, and a socket that may be lost after any step.
Assumed: `ConsumersAssumption`, which TLC evaluates in `consumers`.

| Theorem | Property |
|---|---|
| `ConsumersInvariance` | `IInv`, inductive |
| `ConsumersTypeCorrect` | `TypeOK` |
| `MessagesArriveWhole` | `ArrivedWhole`: the message of `HandedAsSent`, without its addressee |
| `DeliveredArrives` | `DeliveredIsHanded`, if `NoneIsEmpty` |
| `FirstInvariance` | `FirstInv`, inductive beside `IInv` |
| `FirstArrivesAsMeant` | `FirstAsMeant`: a message of the first channel for a consumer is handed to the call it was sent for |
| `HandedArrivesAsSent` | `HandedAsSent`, unless the application is careful |

The types already need an argument. `_on_frame` pops the first pending consumer for each
ConsumeOk, so there must be one: `CallsFit` counts the futures that wait against the
ConsumeOk frames under way, the requests for them, and the calls queued for the lock that
registered before they had it. A message is collected in the states of the table that
stand for it (`ClientTyped`), so `message` is not None when a header or a body is taken.

`ContentOK` says that the frames of a message follow each other: what has been
collected (`LastTaken`), then the socket, frame by frame (`Follows`), up to the last one while
the socket holds; a lost socket may cut a message off anywhere. From this a header or a body
frame that comes is that of the message being collected, whatever the application sent or
settled in between, and `is_complete` holds at the last frame of that message alone. Each
action takes frames off one end or adds whole messages at the other. `NoneIsLost` follows a
delivery from the socket to the message being collected to the application (`InFlight`). It
has a condition: an empty message has no body frame, the code looks at `is_complete`
when one comes, and so hands it to nobody.

`FirstInv` is about whom a message is for. A ConsumeOk does not say which call it answers:
`_on_frame` pops the oldest future. So the futures must be pending in the order in which the
answers come (`ConsumesInLine`): those whose ConsumeOk is on the socket (`GrantedInLine`), then
those whose request is on its way to an open broker (`AskedInLine`), then the calls that queue
for the lock (`QueuedInLine`), which registered their futures before they had it. From
this each consumer of the channel has its own call's callback (`OwnCallbacks`). A
refused consume, or one cut off, leaves its future in the line, but with it the broker has closed the
channel: what was under way arrives before the Channel.Close (`FirstCloses`), and on a later
channel nothing of the first is left (`FirstIsOver`). That a later channel may hand messages
to the wrong callback is why `HandedAsSent` stops there.

`ConsumersCareful_proofs` is about a careful application, with any number of tasks and calls in
turn, any messages and any reopenings of the channel, and a socket that may be lost after any
step. Assumed: `ConsumersAssumption`.

| Theorem | Property |
|---|---|
| `CarefulInvariance` | `CarefulInv`, inductive beside `IInv` |
| `CarefulClientIsServed` | `CarefulIsServed`, if `basic_cancel` is not refused |
| `SettledAsMeant` | `SettledIsMeant` |
| `AddressedInvariance` | `AddressedInv`, inductive beside the others |
| `MessagesAreHandedAsSent` | `HandedAsSent`, for every application |

While the socket holds, a careful client is `Working`: the one call that may be under way is at
rest or has heard its answer (`Serving`), is sent (`Asks`), answered (`Replied`) or `Refused`, has
been told so (`ClosedOn`), opens the channel again (`Reopens`) or raises (`Raises`). In each, the
state of the client, the events set or scheduled, the frames in both directions and the
broker's side are named, so that the table can be consulted: `_set_state` refuses nothing. What
makes these exclusive is `OneAtATime`. `Broken` is what is left after a refused `basic_cancel`.

That nothing is delivered between a request and its answer is the business of the `Books`.
They say which messages the broker waits for (`BrokerCounts`), that each is held by
the application, settled by a frame on the wire, or under way (`Underway`), the last for one
message at most (`OneUnderway`); and that while a consumer's message is held (`Filled`), its prefetch count of
one lets the broker send no other. A careful application calls only then, or without a consumer.
`Stage` follows the message that is under way: on the socket (`Coming`), in `_message` (`Taking`,
`Stuck` if it is empty), in the queue of a generator (`Mailed`), in the future of a get (`Got`), or
nowhere (`Empty`). Each stage names the states of the client. From `SettlesAreMeant` and
`HeldIsUnacked`, a settlement on the wire is of one message, which the application has settled,
of the channel that the broker has.

`AddressedInv` says whom the messages in the hands of the application and on the way to it are
for. While the socket holds this follows from `Working`; a lost one leaves what had arrived, and
so `ComeToTheirCalls` has to be kept from then on: a GetOk is the answer to the call that
waits for it, a ConsumeOk that of the oldest future. With `FirstInv` for the other
applications, it gives `HandedAsSent` without a condition.

Only model-checked: the properties above where a theorem's condition fails, and all liveness
(`EveryCallEnds` and its like). Liveness under fairness, `ENABLED` and induction over data are
beyond the prover used. The invariants of `ConsumersCareful_proofs` were model-checked before they were
proved: workloads of up to five calls and of three tasks, bodies of none to two frames, and
brokers that may refuse none, some or all of the requests.

## 5. Not modelled

Splitting bytes into frames (`pamqp` does it; the models take whole frames);
`Channel0.reset` (called by nothing); `publish` without confirms, which writes and takes a
tag; `confirm_select` after a reconnect; several tasks of the application while it
reconnects; argument validation (raises before anything changes); URL, TLS and environment
options, types, version, exceptions' texts, logging, `Message`'s accessors (no state).
`update_secret` has states but no method.

## 6. Plan

1. *Composition*: two tasks in `Connection`, one of which reconnects under the other.
2. *Framing*: bytes to frames, against a reference definition on bounded inputs.
3. Abstract specifications: a request-reply channel (each call is answered once or
   fails) that `ClientRpc` without refusals implements.
4. *Proofs*: what the composition needs; liveness stays with TLC.
