------------------------------ MODULE Consumers ------------------------------
(***************************************************************************)
(* Consuming with aiorabbit/client.py: basic_consume with a callback, the  *)
(* generator consume, basic_cancel, basic_get, basic_ack, basic_nack and   *)
(* basic_reject, and the assembly of a message from its frames.  The       *)
(* requests of other kinds are represented by queue_declare, which reads   *)
(* its answer from _last_frame.  As in ClientRpc, a task that would        *)
(* reconnect stops there.                                                  *)
(***************************************************************************)
EXTENDS ClientStates, Naturals, Sequences, FiniteSets, Functions

CONSTANTS
    Task,
    None,
    Workloads,       \* what the application does, and what the broker does then
    SocketMayDrop,   \* whether the network may fail
    MaxCalls,        \* bound: calls of a task
    MaxDeliveries    \* bound: messages sent on one channel

\* The state a method sets, and those it waits on.
Request ==
    [basic_consume |-> <<"BASIC_CONSUME_SENT", "BASIC_CONSUMEOK_RECEIVED">>,
     consume       |-> <<"BASIC_CONSUME_SENT", "BASIC_CONSUMEOK_RECEIVED">>,
     basic_cancel  |-> <<"BASIC_CANCEL_SENT", "BASIC_CANCELOK_RECEIVED">>,
     basic_get     |-> <<"BASIC_GET_SENT", "BASIC_GETEMPTY_RECEIVED",
                         "BASIC_GETOK_RECEIVED">>,
     queue_declare |-> <<"QUEUE_DECLARE_SENT", "QUEUE_DECLAREOK_RECEIVED">>]

Sent(m) == Request[m][1]
WaitsOn(m) == Append(Tail(Request[m]), "CHANNEL_CLOSE_RECEIVED")

SettledState == [ack    |-> "BASIC_ACK_SENT",
                 nack   |-> "BASIC_NACK_SENT",
                 reject |-> "BASIC_REJECT_SENT"]

Settlement == [type : DOMAIN SettledState, multiple : BOOLEAN, requeue : BOOLEAN]

\* careful: see MayCall; its queues are not deleted, and it has a prefetch count of one.
\* bodies: the messages of the queue, by their body frames.  prefetch: unacknowledged
\* messages per consumer, 0 for no limit.  refusals: what the broker may refuse at
\* will.  deleted: whether the queue of a consumer may be.
IsWorkload(w) ==
    /\ DOMAIN w = {"careful", "methods", "calls", "settlements", "bodies", "prefetch",
                   "refusals", "deleted"}
    /\ w.careful \in BOOLEAN /\ w.deleted \in BOOLEAN
    /\ w.careful => ~ w.deleted /\ w.prefetch = 1
    /\ w.methods \subseteq DOMAIN Request /\ w.refusals \subseteq w.methods
    /\ w.calls \in [Task -> 0..MaxCalls] /\ w.settlements \subseteq Settlement
    /\ w.bodies \in Seq(Nat) /\ w.prefetch \in Nat

STE == "StateTransitionError"
Error == {STE, "ConnectionClosedException", "RuntimeError"}

\* A call is known by its task and number; the broker makes consumer tags of it.
Calls == Task \X Nat

\* A message as it was sent: its delivery tag, with the number of the channel, and the
\* call whose consumer or get it is for.
Delivery == [id : Nat \X Nat, for : Calls, get : BOOLEAN, msg : Nat]

\* A message as it is received: Basic.Deliver or GetOk, the header and the body frames.
BodyFrame == [type : {"Body"}, of : Delivery, part : Nat]
Message == [delivery : Delivery, header : Delivery \cup {None}, bodies : Seq(BodyFrame)]

ASSUME ConsumersAssumption ==
    /\ \A w \in Workloads : IsWorkload(w)
    /\ MaxCalls \in Nat /\ MaxDeliveries \in Nat
    /\ None \notin Task \cup Calls \cup Delivery \cup Message \cup Error
                     \cup {"NotFound", "AttributeError"}

SM == INSTANCE StateManager
      WITH State <- ClientState, Transitions <- ClientTransitions, Waiter <- Task,
           UNINITIALIZED <- "UNINITIALIZED", EXCEPTION <- "EXCEPTION"

VARIABLES
    workload,  \* one of Workloads
    manager,   \* the client as a StateManager
    lock,      \* _rpc_lock: its holder, then those waiting for it
    task,      \* the calls of the application's tasks
    futures,   \* _pending_consumers, _get_future, and the results of futures
    consumers, \* _consumers: the call whose callback a consumer tag has
    message,   \* _message, None or the frames collected so far
    last,      \* the type of _last_frame
    session,   \* _channel_open, _last_error, whether Channel0 failed, the transport
    app,       \* what the application holds and has done
    inbox,     \* frames to the client
    outbox,    \* frames to the broker
    broker     \* the broker's side of the channel

vars == <<workload, manager, lock, task, futures, consumers, message, last, session, app,
          inbox, outbox, broker>>

\* A client that has just connected, and a queue with all its messages.
Init ==
    /\ workload \in Workloads
    /\ manager = [SM!NewManager EXCEPT !.state = "CHANNEL_OPENOK_RECEIVED"]
    /\ lock = <<>>
    /\ task = [t \in Task |-> [pc |-> "idle", call |-> None, result |-> None,
                               tag |-> None, left |-> workload.calls[t]]]
    /\ futures = [pending |-> <<>>, get |-> None, done |-> <<>>]
    /\ consumers = <<>> /\ message = None /\ last = "Channel.OpenOk"
    /\ session = [channelOpen |-> TRUE, lastError |-> None, failed |-> FALSE,
                  transport |-> "open"]
    /\ app = [held |-> {}, fresh |-> None, handed |-> {}, settled |-> {},
              mailbox |-> <<>>]
    /\ inbox = <<>> /\ outbox = <<>>
    /\ broker = [phase |-> "open", channel |-> 1, ready |-> DOMAIN workload.bodies, consumers |-> {},
                 unacked |-> <<>>, sent |-> 0, delivered |-> {}, settled |-> {}]

---------------------------------------------------------------------------
(* Helpers *)

Enter(m, state) == SM!SetState(m, state, None, STE)

\* Client.is_closed
IsClosed == session.failed \/ manager.state \in ClosedClientStates

\* An exception in a callback reaches the loop's handler, which is Channel0's.
Fails(raised) == session' = [session EXCEPT !.failed = @ \/ raised]

\* What is written to a transport that is gone is dropped.
Write(frames) == outbox' = IF session.transport = "open" THEN outbox \o frames ELSE outbox

With(f, key, value) == [k \in DOMAIN f \cup {key} |-> IF k = key THEN value ELSE f[k]]
Without(f, keys) == Restrict(f, DOMAIN f \ keys)

Call(t) == <<t, task[t].left>>

Consumes(m) == m \in {"basic_consume", "consume"}

End(t, m, result) ==
    task' = [task EXCEPT ![t] = [pc |-> "idle", call |-> m, result |-> result,
                                 tag |-> None, left |-> @.left - 1]]

Goes(t, m, tag, pc) == task' = [task EXCEPT ![t].pc = pc, ![t].call = m, ![t].tag = tag]

\* The application a gets a message for one of its calls.
Hand(a, to, msg) == [a EXCEPT !.held = @ \cup {msg}, !.fresh = msg,
                              !.handed = @ \cup {[to |-> to, message |-> msg]}]

---------------------------------------------------------------------------
(* The end of a call; f are the futures, and a is the application *)

\* await future: at once when it is done.  basic_get then forgets the future
\* that is there, whose ever it is, and consume begins to iterate.
Await(t, m, f, a) ==
    IF Call(t) \notin DOMAIN f.done
    THEN Goes(t, m, None, "future") /\ futures' = f /\ app' = a
    ELSE LET value == f.done[Call(t)] IN
         /\ IF m = "consume" THEN Goes(t, m, value.tag, "iterating") ELSE End(t, m, "answered")
         /\ futures' = IF m = "basic_get" THEN [f EXCEPT !.get = None] ELSE f
         /\ app' = IF m = "basic_get" /\ value.message # None
                   THEN Hand(a, Call(t), value.message) ELSE a

\* A request is over, answered or skipped.  queue_declare takes its counts from
\* the last frame, whatever that is.
Return(t, m, result, f, a) ==
    IF Consumes(m) \/ m = "basic_get" THEN Await(t, m, f, a)
    ELSE /\ End(t, m, IF m = "queue_declare" /\ last # "DeclareOk" THEN "AttributeError"
                      ELSE result)
         /\ futures' = f /\ app' = a

FutureIsDone(t) ==
    /\ task[t].pc = "future" /\ Call(t) \in DOMAIN futures.done
    /\ Await(t, task[t].call, futures, app)
    /\ UNCHANGED <<manager, lock, session, outbox>>

---------------------------------------------------------------------------
(* _send_rpc, once the lock is free or released to the task *)

SendSkipped(t, m, held, f, a) ==
    /\ IsClosed
    /\ lock' = Tail(held)
    /\ Return(t, m, "skipped", f, a)
    /\ UNCHANGED <<manager, outbox>>

\* The frame of a call; by stands for its number, and for the tag it will get.
CallFrame(t, m, tag) == [type |-> m, by |-> Call(t), tag |-> tag]

\* The frame is written before the state refuses the request.
SendRefused(t, m, tag, held, f, a) ==
    /\ ~ IsClosed /\ SM!Refuses(manager, Sent(m), None)
    /\ Write(<<CallFrame(t, m, tag)>>)
    /\ manager' = SM!Refuse(manager, STE)
    /\ lock' = Tail(held)
    /\ End(t, m, STE)
    /\ futures' = f /\ app' = a

SendWaits(t, m, tag, held, f, a) ==
    /\ ~ IsClosed /\ ~ SM!Refuses(manager, Sent(m), None)
    /\ Write(<<CallFrame(t, m, tag)>>)
    /\ manager' = SM!Register(Enter(manager, Sent(m)), t, Range(WaitsOn(m)))
    /\ lock' = held
    /\ Goes(t, m, tag, "waiting")
    /\ futures' = f /\ app' = a

Send(t, m, tag, held, f, a) ==
    \/ SendSkipped(t, m, held, f, a)
    \/ SendRefused(t, m, tag, held, f, a) \/ SendWaits(t, m, tag, held, f, a)

\* What a call leaves for its answer before it asks for the lock.
Prepared(t, m) ==
    CASE Consumes(m)      -> [futures EXCEPT !.pending = Append(@, [call |-> Call(t), method |-> m])]
      [] m = "basic_get" -> [futures EXCEPT !.get = Call(t)]
      [] OTHER           -> futures

\* async with self._rpc_lock
Rpc(t, m, tag) ==
    LET f == Prepared(t, m)
        a == [app EXCEPT !.fresh = None]
    IN  IF lock = <<>> THEN Send(t, m, tag, <<t>>, f, a)
        ELSE /\ lock' = Append(lock, t)
             /\ Goes(t, m, tag, "queued")
             /\ futures' = f /\ app' = a
             /\ UNCHANGED <<manager, outbox>>

Acquire(t) ==
    /\ task[t].pc = "queued" /\ Head(lock) = t
    /\ Send(t, task[t].call, task[t].tag, lock, futures, app)
    /\ UNCHANGED session

---------------------------------------------------------------------------
(* The calls of the application *)

\* A message of every consumer that is registered is held, and not settled.
WindowsAreFull ==
    \A tag \in DOMAIN consumers : \E msg \in app.held : msg.delivery.for = tag

\* A careful application makes one call at a time, has one consumer at most, and
\* while it has one makes requests only when nothing can be delivered to it.
MayCall(m) ==
    workload.careful =>
        /\ \A t \in Task : task[t].pc \in {"idle", "iterating"}
        /\ IF Consumes(m) THEN DOMAIN consumers = {} ELSE WindowsAreFull

\* A careful application leaves the consumer of a generator to the generator.
Cancellable == {tag \in DOMAIN consumers :
                   workload.careful => consumers[tag].method = "basic_consume"}

Begin(t) ==
    /\ task[t].pc = "idle" /\ task[t].left > 0
    /\ \E m \in workload.methods :
          /\ MayCall(m)
          /\ IF m = "basic_cancel" THEN \E tag \in Cancellable : Rpc(t, m, tag)
             ELSE Rpc(t, m, None)
    /\ UNCHANGED session

\* The queue of the generator that a call of consume has made.
MailOf(call) == IF call \in DOMAIN app.mailbox THEN app.mailbox[call] ELSE <<>>

\* The generator's queue has a message for async for.
TakeNext(t) ==
    /\ task[t].pc = "iterating" /\ MailOf(Call(t)) # <<>>
    /\ app' = [Hand(app, Call(t), Head(MailOf(Call(t)))) EXCEPT
                  !.mailbox = With(@, Call(t), Tail(MailOf(Call(t))))]
    /\ UNCHANGED <<manager, lock, task, futures, session, outbox>>

\* The generator ends: the application has left the loop, or the client is closed.
\* A recorded exception is raised, and stays recorded.
Leave(t) ==
    /\ task[t].pc = "iterating"
    /\ IsClosed \/ MayCall("basic_cancel")
    /\ IF manager.exception # None \/ IsClosed
       THEN /\ End(t, "consume", IF manager.exception = None THEN "answered"
                                 ELSE manager.exception)
            /\ UNCHANGED <<manager, lock, futures, app, outbox>>
       ELSE Rpc(t, "basic_cancel", task[t].tag)
    /\ UNCHANGED session

\* Mutant: an ack settles whatever was delivered before, too.
SettleMultiple ==
    /\ \E msg \in app.held, how \in workload.settlements :
          /\ Write(<<[type |-> how.type, tag |-> msg.delivery.id[2], multiple |-> TRUE,
                      requeue |-> how.requeue]>>)
          /\ manager' = Enter(manager, SettledState[how.type])
          /\ app' = [app EXCEPT !.held = @ \ {msg}, !.fresh = None,
                                !.settled = @ \cup {msg.delivery.id}]
          /\ Fails(SM!Refuses(manager, SettledState[how.type], None))
    /\ UNCHANGED <<lock, task, futures>>

\* basic_ack, basic_nack and basic_reject, of messages that are held.  They are
\* written, and may be refused then; what the application makes of a refusal is
\* its own affair, but one that is raised in the coroutine of a callback ends in
\* the loop's handler, which is Channel0's.  A careful application settles a
\* message before its next call, or not at all.
Settle ==
    /\ \E msg \in app.held, how \in workload.settlements :
          /\ workload.careful => msg = app.fresh /\ ~ how.multiple
          /\ Write(<<[type |-> how.type, tag |-> msg.delivery.id[2], multiple |-> how.multiple,
                      requeue |-> how.requeue]>>)
          /\ manager' = Enter(manager, SettledState[how.type])
          /\ app' = [app EXCEPT !.held = @ \ {msg}, !.fresh = None,
                                !.settled = @ \cup {msg.delivery.id}]
          /\ \E handled \in BOOLEAN :
                Fails(~ handled /\ SM!Refuses(manager, SettledState[how.type], None))
    /\ UNCHANGED <<lock, task, futures>>

---------------------------------------------------------------------------
(* The end of the wait, and _post_wait_on_state *)

\* The event loop sets the events of one _set_state.
RunReady ==
    /\ manager.ready # <<>>
    /\ manager' = SM!RunCallbacks(manager)
    /\ UNCHANGED <<lock, task, futures, session, app, outbox>>

Waits(t) == task[t].pc = "waiting"

PollIs(t, state) == SM!PollReturns(manager, t, WaitsOn(task[t].call), state)

\* A channel that was closed for an error somebody has taken counts as an answer.
PollAnswered(t) ==
    /\ Waits(t)
    /\ \E state \in Range(WaitsOn(task[t].call)) :
          /\ PollIs(t, state)
          /\ state = "CHANNEL_CLOSE_RECEIVED" => session.lastError = None
    /\ manager' = SM!AfterPoll(manager, t)
    /\ lock' = Tail(lock)
    /\ Return(t, task[t].call, "answered", futures, app)
    /\ UNCHANGED <<session, outbox>>

\* The broker has closed the channel: _open_channel, up to its wait, or a
\* refusal of its first state.
PollChannelClosed(t) ==
    LET m == SM!AfterPoll(manager, t) IN
    /\ Waits(t) /\ PollIs(t, "CHANNEL_CLOSE_RECEIVED") /\ session.lastError # None
    /\ lock' = Tail(lock)
    /\ IF SM!Refuses(m, "OPENING_CHANNEL", None)
       THEN /\ manager' = SM!Refuse(m, STE)
            /\ End(t, task[t].call, STE)
            /\ UNCHANGED outbox
       ELSE /\ manager' = Enter(Enter(m, "OPENING_CHANNEL"), "CHANNEL_OPEN_SENT")
            /\ Write(<<[type |-> "Channel.Open"]>>)
            /\ Goes(t, task[t].call, None, IF session.channelOpen THEN "raising" ELSE "opening")
    /\ UNCHANGED <<futures, session, app>>

\* The new channel is open: the error of the old one is raised.
RaiseLastError(t) ==
    /\ task[t].pc = "raising"
    /\ End(t, task[t].call, IF session.lastError = None THEN "UnknownError"
                            ELSE session.lastError)
    /\ session' = [session EXCEPT !.lastError = None]
    /\ UNCHANGED <<manager, lock, futures, app, outbox>>

\* An exception ends the wait.  Those of aiorabbit lead to _reconnect, a
\* RuntimeError passes through _send_rpc.
PollRaises(t) ==
    /\ Waits(t) /\ SM!PollRaises(manager, t)
    /\ manager' = SM!AfterPoll(manager, t)
    /\ lock' = Tail(lock)
    /\ IF manager.exception = "RuntimeError" THEN End(t, task[t].call, "RuntimeError")
       ELSE Goes(t, task[t].call, None, "reconnecting")
    /\ UNCHANGED <<futures, session, app, outbox>>

---------------------------------------------------------------------------
(* _on_frame *)

Takes(type) ==
    /\ inbox # <<>> /\ Head(inbox).type = type
    /\ inbox' = Tail(inbox)
    /\ last' = IF type = "Disconnected" THEN last ELSE type

\* _set_state in a callback.
Receives(state) ==
    /\ manager' = Enter(manager, state)
    /\ Fails(SM!Refuses(manager, state, None))

\* Mutant: the future and callback of the last call are taken.
ReceiveConsumeOkOfLast ==
    LET by == futures.pending[Len(futures.pending)] IN
    /\ Takes("ConsumeOk")
    /\ futures' = [futures EXCEPT !.pending = SubSeq(@, 1, Len(@) - 1),
                                  !.done = With(@, by.call, [tag |-> Head(inbox).tag])]
    /\ consumers' = With(consumers, Head(inbox).tag, by)
    /\ Receives("BASIC_CONSUMEOK_RECEIVED")
    /\ UNCHANGED <<task, message, app, outbox>>

\* Mutant: the future stays in the deque.
ReceiveConsumeOkKept ==
    LET by == Head(futures.pending) IN
    /\ Takes("ConsumeOk")
    /\ futures' = [futures EXCEPT !.done = With(@, by.call, [tag |-> Head(inbox).tag])]
    /\ consumers' = With(consumers, Head(inbox).tag, by)
    /\ Receives("BASIC_CONSUMEOK_RECEIVED")
    /\ UNCHANGED <<task, message, app, outbox>>

\* The oldest future gets the tag, and its callback the messages.
ReceiveConsumeOk ==
    LET by == Head(futures.pending) IN
    /\ Takes("ConsumeOk")
    /\ futures' = [futures EXCEPT !.pending = Tail(@),
                                  !.done = With(@, by.call, [tag |-> Head(inbox).tag])]
    /\ consumers' = With(consumers, Head(inbox).tag, by)
    /\ Receives("BASIC_CONSUMEOK_RECEIVED")
    /\ UNCHANGED <<task, message, app, outbox>>

\* A tag that is not known is a KeyError.
ReceiveCancelOk ==
    /\ Takes("CancelOk")
    /\ IF Head(inbox).tag \in DOMAIN consumers
       THEN Receives("BASIC_CANCELOK_RECEIVED")
       ELSE Fails(TRUE) /\ UNCHANGED manager
    /\ consumers' = Without(consumers, {Head(inbox).tag})
    /\ UNCHANGED <<task, futures, message, app, outbox>>

\* Basic.Deliver and Basic.GetOk begin a message, unless the state refuses them.
ReceiveMessage(type, state) ==
    /\ Takes(type)
    /\ Receives(state)
    /\ message' = IF SM!Refuses(manager, state, None) THEN message
                  ELSE [delivery |-> Head(inbox).delivery, header |-> None, bodies |-> <<>>]
    /\ UNCHANGED <<task, futures, consumers, app, outbox>>

\* Whether the future of basic_get can take a result: there is one, and it has none.
GetIsAwaited == futures.get # None /\ futures.get \notin DOMAIN futures.done

GetResult(value) ==
    [futures EXCEPT !.done = With(@, futures.get, [message |-> value])]

\* Mutant: an empty queue sets the state only.
ReceiveGetEmptyQuietly ==
    /\ Takes("GetEmpty")
    /\ Receives("BASIC_GETEMPTY_RECEIVED")
    /\ UNCHANGED <<task, futures, consumers, message, app, outbox>>

ReceiveGetEmpty ==
    LET refused == SM!Refuses(manager, "BASIC_GETEMPTY_RECEIVED", None) IN
    /\ Takes("GetEmpty")
    /\ manager' = Enter(manager, "BASIC_GETEMPTY_RECEIVED")
    /\ Fails(refused \/ ~ GetIsAwaited)
    /\ futures' = IF refused \/ ~ GetIsAwaited THEN futures ELSE GetResult(None)
    /\ UNCHANGED <<task, consumers, message, app, outbox>>

ReceiveHeader ==
    LET refused == SM!Refuses(manager, "CONTENT_HEADER_RECEIVED", None) IN
    /\ Takes("Header")
    /\ Receives("CONTENT_HEADER_RECEIVED")
    /\ message' = IF refused THEN message ELSE [message EXCEPT !.header = Head(inbox).of]
    /\ UNCHANGED <<task, futures, consumers, app, outbox>>

\* Mutant: off by one.
IsCompleteLate(msg) == Len(msg.bodies) > workload.bodies[msg.header.msg]

\* is_complete
IsComplete(msg) == Len(msg.bodies) = workload.bodies[msg.header.msg]

\* A message whose last frame is here goes to the callback of its consumer tag,
\* or becomes the result of basic_get.  The callback of the generator is the
\* put of its queue.  A message that has nowhere to go stays where it is.
Complete(msg) ==
    LET tag == msg.delivery.for
        call == consumers[tag].call
    IN
    IF msg.delivery.get
    THEN /\ Fails(~ GetIsAwaited)
         /\ futures' = IF GetIsAwaited THEN GetResult(msg) ELSE futures
         /\ message' = IF futures.get = None THEN msg ELSE None
         /\ UNCHANGED app
    ELSE /\ Fails(tag \notin DOMAIN consumers)
         /\ app' = IF tag \notin DOMAIN consumers THEN app
                   ELSE IF consumers[tag].method = "consume"
                   THEN [app EXCEPT !.mailbox = With(@, call, Append(MailOf(call), msg))]
                   ELSE Hand(app, call, msg)
         /\ message' = IF tag \notin DOMAIN consumers THEN msg ELSE None
         /\ UNCHANGED futures

\* Mutant: the state MESSAGE_ASSEMBLED is not entered.
ReceiveBodyUnassembled ==
    LET msg == [message EXCEPT !.bodies = Append(@, Head(inbox))] IN
    /\ Takes("Body")
    /\ ~ SM!Refuses(manager, "CONTENT_BODY_RECEIVED", None)
    /\ manager' = Enter(manager, "CONTENT_BODY_RECEIVED")
    /\ IF IsComplete(msg) THEN Complete(msg)
       ELSE message' = msg /\ UNCHANGED <<futures, app, session>>
    /\ UNCHANGED <<task, consumers, outbox>>

ReceiveBody ==
    LET refused == SM!Refuses(manager, "CONTENT_BODY_RECEIVED", None)
        msg == [message EXCEPT !.bodies = Append(@, Head(inbox))]
    IN  /\ Takes("Body")
        /\ IF refused
           THEN Receives("CONTENT_BODY_RECEIVED") /\ UNCHANGED <<message, futures, app>>
           ELSE IF IsComplete(msg)
           THEN /\ manager' = Enter(Enter(manager, "CONTENT_BODY_RECEIVED"),
                                    "MESSAGE_ASSEMBLED")
                /\ Complete(msg)
           ELSE /\ Receives("CONTENT_BODY_RECEIVED")
                /\ message' = msg /\ UNCHANGED <<futures, app>>
        /\ UNCHANGED <<task, consumers, outbox>>

ReceiveDeclareOk ==
    /\ Takes("DeclareOk")
    /\ Receives("QUEUE_DECLAREOK_RECEIVED")
    /\ UNCHANGED <<task, futures, consumers, message, app, outbox>>

\* Basic.Cancel of the broker is an unsupported method.
ReceiveCancel ==
    /\ Takes("Cancel")
    /\ manager' = SM!SetState(manager, "EXCEPTION", "RuntimeError", STE)
    /\ UNCHANGED <<task, futures, consumers, message, session, app, outbox>>

ReceiveChannelClose ==
    /\ Takes("Channel.Close")
    /\ IF SM!Refuses(manager, "CHANNEL_CLOSE_RECEIVED", None)
       THEN Receives("CHANNEL_CLOSE_RECEIVED") /\ UNCHANGED outbox
       ELSE /\ manager' = Enter(Enter(manager, "CHANNEL_CLOSE_RECEIVED"),
                                "CHANNEL_CLOSEOK_SENT")
            /\ Write(<<[type |-> "Channel.CloseOk"]>>)
            /\ session' = [session EXCEPT !.lastError = "NotFound", !.channelOpen = FALSE]
    /\ UNCHANGED <<task, futures, consumers, message, app>>

\* The event wakes who waits for it.
ReceiveChannelOpenOk ==
    /\ Takes("Channel.OpenOk")
    /\ manager' = Enter(manager, "CHANNEL_OPENOK_RECEIVED")
    /\ session' = [session EXCEPT !.channelOpen = TRUE, !.failed = @
                       \/ SM!Refuses(manager, "CHANNEL_OPENOK_RECEIVED", None)]
    /\ task' = [t \in Task |-> IF task[t].pc = "opening"
                               THEN [task[t] EXCEPT !.pc = "raising"] ELSE task[t]]
    /\ UNCHANGED <<futures, consumers, message, app, outbox>>

\* _on_disconnected; a connection error of the broker comes to the same.
Disconnected ==
    /\ Takes("Disconnected")
    /\ manager' = IF IsClosed THEN manager
                  ELSE SM!SetState(manager, "EXCEPTION", "ConnectionClosedException", STE)
    /\ UNCHANGED <<task, futures, consumers, message, session, app, outbox>>

Receive ==
    /\ \/ ReceiveConsumeOk \/ ReceiveCancelOk \/ ReceiveGetEmpty
       \/ ReceiveMessage("Deliver", "BASIC_DELIVER_RECEIVED")
       \/ ReceiveMessage("GetOk", "BASIC_GETOK_RECEIVED")
       \/ ReceiveHeader \/ ReceiveBody \/ ReceiveDeclareOk \/ ReceiveCancel
       \/ ReceiveChannelClose \/ ReceiveChannelOpenOk \/ Disconnected
    /\ UNCHANGED <<workload, lock, broker>>

---------------------------------------------------------------------------
(* The broker and the network, external *)

Sends(frames) == inbox' = IF session.transport = "open" THEN inbox \o frames ELSE inbox

\* The body frames of a message.
Bodies(delivery) == [i \in 1..workload.bodies[delivery.msg] |->
                        [type |-> "Body", of |-> delivery, part |-> i]]

\* The first message of the queue goes out under the next delivery tag, for a consumer
\* or for a get.
BrokerDelivers(type, for) ==
    \E msg \in broker.ready :
        LET delivery == [id |-> <<broker.channel, broker.sent + 1>>, for |-> for,
                         get |-> type = "GetOk", msg |-> msg]
        IN  /\ \A other \in broker.ready : msg <= other
            /\ broker.sent < MaxDeliveries
            /\ Sends(<<[type |-> type, delivery |-> delivery],
                       [type |-> "Header", of |-> delivery]>> \o Bodies(delivery))
            /\ broker' = [broker EXCEPT !.ready = @ \ {msg}, !.sent = @ + 1,
                                        !.unacked = With(@, broker.sent + 1, delivery),
                                        !.delivered = @ \cup {delivery}]

Unacked(tag) == {n \in DOMAIN broker.unacked : broker.unacked[n].for = tag}

BrokerDeliversToConsumer ==
    /\ broker.phase = "open" /\ session.transport = "open"
    /\ \E tag \in broker.consumers :
          /\ workload.prefetch = 0 \/ Cardinality(Unacked(tag)) < workload.prefetch
          /\ BrokerDelivers("Deliver", tag)
    /\ UNCHANGED outbox

MessagesOf(tags) == {broker.unacked[n].msg : n \in tags}

\* What is unacknowledged on a channel that is closed goes back into the queue.
BrokerClosesChannel ==
    /\ Sends(<<[type |-> "Channel.Close"]>>)
    /\ broker' = [broker EXCEPT !.phase = "closing", !.consumers = {}, !.unacked = <<>>,
                                !.ready = @ \cup MessagesOf(DOMAIN broker.unacked)]

\* The delivery tags a settlement is about; one that is unknown is an error.
BrokerSettles(frame) ==
    LET tags == {n \in DOMAIN broker.unacked :
                    n = frame.tag \/ (frame.multiple /\ n < frame.tag)}
    IN  IF frame.tag \notin DOMAIN broker.unacked THEN BrokerClosesChannel
        ELSE /\ broker' = [broker EXCEPT
                    !.unacked = Without(@, tags),
                    !.settled = @ \cup {broker.unacked[n].id : n \in tags},
                    !.ready = IF frame.type # "ack" /\ frame.requeue
                              THEN @ \cup MessagesOf(tags) ELSE @]
             /\ UNCHANGED inbox

BrokerAnswers(frame) ==
    CASE Consumes(frame.type) ->
           /\ Sends(<<[type |-> "ConsumeOk", tag |-> frame.by]>>)
           /\ broker' = [broker EXCEPT !.consumers = @ \cup {frame.by}]
      [] frame.type = "basic_cancel" ->
           /\ Sends(<<[type |-> "CancelOk", tag |-> frame.tag]>>)
           /\ broker' = [broker EXCEPT !.consumers = @ \ {frame.tag}]
      [] frame.type = "basic_get" ->
           IF broker.ready = {} \/ broker.sent = MaxDeliveries
           THEN Sends(<<[type |-> "GetEmpty"]>>) /\ UNCHANGED broker
           ELSE BrokerDelivers("GetOk", frame.by)
      [] frame.type = "queue_declare" ->
           Sends(<<[type |-> "DeclareOk"]>>) /\ UNCHANGED broker

\* A broker that has closed the channel discards what comes there until it is
\* told so, and ends the connection for what comes later.
BrokerReads ==
    /\ outbox # <<>> /\ outbox' = Tail(outbox)
    /\ LET frame == Head(outbox) IN
       CASE broker.phase = "open" /\ frame.type \in DOMAIN Request ->
              \/ BrokerAnswers(frame)
              \/ frame.type \in workload.refusals /\ BrokerClosesChannel
         [] broker.phase = "open" /\ frame.type \in DOMAIN SettledState ->
              BrokerSettles(frame)
         [] broker.phase = "closing" /\ frame.type = "Channel.CloseOk" ->
              broker' = [broker EXCEPT !.phase = "closed"] /\ UNCHANGED inbox
         [] broker.phase = "closed" /\ frame.type = "Channel.Open" ->
              /\ Sends(<<[type |-> "Channel.OpenOk"]>>)
              /\ broker' = [broker EXCEPT !.phase = "open", !.channel = @ + 1, !.sent = 0]
         [] broker.phase = "closed" /\ frame.type # "Channel.Open" ->
              /\ Sends(<<[type |-> "Disconnected"]>>)
              /\ broker' = [broker EXCEPT !.phase = "gone"]
         [] OTHER -> UNCHANGED <<broker, inbox>>

\* The queue of a consumer is deleted.
BrokerCancels ==
    /\ workload.deleted /\ broker.phase = "open" /\ session.transport = "open"
    /\ \E tag \in broker.consumers :
          /\ Sends(<<[type |-> "Cancel"]>>)
          /\ broker' = [broker EXCEPT !.consumers = @ \ {tag}]
    /\ UNCHANGED outbox

ClientUnchanged ==
    UNCHANGED <<workload, manager, lock, task, futures, consumers, message, last,
                session, app>>

Broker ==
    (BrokerReads \/ BrokerDeliversToConsumer \/ BrokerCancels) /\ ClientUnchanged

\* The frames that had arrived are handled before connection_lost is.
SocketLost ==
    /\ SocketMayDrop /\ session.transport = "open"
    /\ session' = [session EXCEPT !.transport = "lost"]
    /\ \E n \in 0..Len(inbox) :
          inbox' = Append(SubSeq(inbox, 1, n), [type |-> "Disconnected"])
    /\ outbox' = <<>>
    /\ UNCHANGED <<workload, manager, lock, task, futures, consumers, message, last, app,
                   broker>>

---------------------------------------------------------------------------

FramesUnchanged == UNCHANGED <<workload, consumers, message, last, inbox, broker>>

Proceeds(t) ==
    /\ \/ Acquire(t) \/ FutureIsDone(t)
       \/ PollAnswered(t) \/ PollChannelClosed(t) \/ PollRaises(t) \/ RaiseLastError(t)
    /\ FramesUnchanged

Application ==
    (Settle \/ \E t \in Task : Begin(t) \/ TakeNext(t) \/ Leave(t)) /\ FramesUnchanged

Next ==
    \/ Application \/ (RunReady /\ FramesUnchanged) \/ \E t \in Task : Proceeds(t)
    \/ Receive \/ Broker \/ SocketLost

\* The loop runs, frames arrive and the broker answers.
Fairness ==
    /\ \A t \in Task : WF_vars(Proceeds(t))
    /\ WF_vars(RunReady /\ FramesUnchanged)
    /\ WF_vars(Receive)
    /\ WF_vars(BrokerReads /\ ClientUnchanged)

Spec == Init /\ [][Next]_vars /\ Fairness

---------------------------------------------------------------------------
(* Properties *)

\* The lock is held by the one task whose request is under way, or was just
\* released to the next; who asks for it is queued once.  A future that is done
\* was one call's, and no consume waits behind it any more.  (_send_rpc, _on_frame)
TypeOK ==
    /\ manager.state \in ClientState /\ manager.exception \in Error \cup {None}
    /\ IsInjective(lock) /\ Range(lock) \subseteq Task
    /\ \A t \in Task :
          /\ task[t].pc \in {"idle", "queued", "waiting", "future", "iterating",
                             "opening", "raising", "reconnecting"}
          /\ task[t].pc = "waiting" => Head(lock) = t
          /\ task[t].pc \in {"queued", "waiting"} <=> t \in Range(lock)
    /\ {p.call : p \in Range(futures.pending)} \cap DOMAIN futures.done = {}
    /\ message # None => session.failed \/ message.bodies = <<>>
                         \/ message.header = message.delivery

\* No consume is refused: one that is leaves its future to the next.
ConsumesAreGranted == \A m \in workload.refusals : ~ Consumes(m)

\* Whether its addressee can be told: the future of a get is shared by those who
\* are not careful, and a consumer registered after a consume that a closed channel
\* has cut off has the callback of that one.
HasAddressee(delivery) ==
    \/ workload.careful /\ (delivery.get \/ ConsumesAreGranted)
    \/ ~ delivery.get /\ delivery.id[1] = 1

\* While the client is not failed, a message that is handed to the application
\* goes to the callback, the generator or the get that the broker sent it for,
\* with its own header and the whole of its own body.  (_on_frame, _pop_message)
HandedAsSent ==
    session.failed \/
    \A h \in app.handed :
        LET msg == h.message IN
        /\ HasAddressee(msg.delivery) => h.to = msg.delivery.for
        /\ msg.header = msg.delivery /\ msg.bodies = Bodies(msg.delivery)

Content == {"Deliver", "GetOk", "Header", "Body"}

\* What the client has put where the application finds it.
Arrived ==
    {h.message : h \in app.handed}
    \cup (UNION {Range(app.mailbox[call]) : call \in DOMAIN app.mailbox})
    \cup {futures.done[call].message :
             call \in {c \in DOMAIN futures.done : DOMAIN futures.done[c] = {"message"}}}

\* When all content frames have been taken, every message that the broker sent
\* has reached the application, the queue of a generator or the future of a get,
\* unless the client has failed or the socket is lost.  (_on_frame)
DeliveredIsHanded ==
    (/\ \A i \in DOMAIN inbox : inbox[i].type \notin Content
     /\ ~ session.failed /\ session.transport = "open")
    => \A delivery \in broker.delivered :
          \E msg \in Arrived \ {None} : msg.delivery = delivery

\* A careful application is served: no frame of a broker that keeps to the
\* protocol ends the client, no call is refused by its own state machine, and
\* queue_declare finds its counts, while the socket holds.
CarefulIsServed ==
    (workload.careful /\ session.transport = "open") =>
        /\ ~ session.failed
        /\ \A t \in Task : task[t].result \notin {STE, "AttributeError"}

\* What a careful application has not settled the broker still has to deliver, or
\* has put back itself.  (basic_ack, basic_nack, basic_reject)
SettledIsMeant == workload.careful => broker.settled \subseteq app.settled

Reconnecting == \E t \in Task : task[t].pc = "reconnecting"

\* While the socket holds, a call of a careful application returns or raises, unless
\* a consume before it was refused.  (basic_consume, basic_get, _send_rpc)
EveryCallEnds ==
    \A t \in Task : (/\ workload.careful /\ ConsumesAreGranted
                     /\ task[t].pc \notin {"idle", "iterating"})
        ~> \/ task[t].pc \in {"idle", "iterating"}
           \/ Reconnecting \/ session.transport = "lost"

\* "The client may receive an arbitrary number of messages in between sending the
\* cancel method and receiving the CancelOk reply" (basic_cancel): none of them
\* ends the client.
ServedUntilCancelOk ==
    \A t \in Task :
        (task[t].call = "basic_cancel" /\ task[t].pc = "waiting") => ~ session.failed
=============================================================================
