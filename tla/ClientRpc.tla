------------------------------ MODULE ClientRpc ------------------------------
(***************************************************************************)
(* The requests of aiorabbit/client.py on a connected client: _send_rpc    *)
(* behind the RPC lock, the broker's answers in _on_frame, the channel     *)
(* that is opened again after the broker closed it, and close().           *)
(* Tasks are coroutines of the application.  A task that would reconnect   *)
(* stops there: _reconnect is not part of this module.  Channel0 is kept   *)
(* to what is_closed sees of it; module Channel0 is its own model.         *)
(***************************************************************************)
EXTENDS ClientStates, Naturals, Sequences, FiniteSets

CONSTANTS
    Task,
    None,
    Requests,        \* the methods the application calls
    Workloads,       \* the calls of each task, and the requests that the broker
                     \* may refuse at will
    Codes,           \* the errors that close a channel, by the exceptions raised for them
    MaxChannels,     \* the negotiated channel-max
    ClientCloses,    \* whether the application calls close()
    SocketMayDrop,   \* whether the network may fail
    MaxCalls,        \* bound: calls of a task
    MaxUnsolicited   \* bound: channels the broker closes of its own accord

---------------------------------------------------------------------------
(* The requests: the state a method sets, and the states it waits on *)

ExchangeMethods ==
    [exchange_declare |-> <<"EXCHANGE_DECLARE_SENT", "EXCHANGE_DECLAREOK_RECEIVED">>,
     exchange_delete  |-> <<"EXCHANGE_DELETE_SENT", "EXCHANGE_DELETEOK_RECEIVED">>,
     exchange_bind    |-> <<"EXCHANGE_BIND_SENT", "EXCHANGE_BINDOK_RECEIVED">>,
     exchange_unbind  |-> <<"EXCHANGE_UNBIND_SENT", "EXCHANGE_UNBINDOK_RECEIVED">>]

QueueMethods ==
    [queue_declare |-> <<"QUEUE_DECLARE_SENT", "QUEUE_DECLAREOK_RECEIVED">>,
     queue_delete  |-> <<"QUEUE_DELETE_SENT", "QUEUE_DELETEOK_RECEIVED">>,
     queue_bind    |-> <<"QUEUE_BIND_SENT", "QUEUE_BINDOK_RECEIVED">>,
     queue_unbind  |-> <<"QUEUE_UNBIND_SENT", "QUEUE_UNBINDOK_RECEIVED">>,
     queue_purge   |-> <<"QUEUE_PURGE_SENT", "QUEUE_PURGEOK_RECEIVED">>]

TxMethods ==
    [tx_select   |-> <<"TX_SELECT_SENT", "TX_SELECTOK_RECEIVED">>,
     tx_commit   |-> <<"TX_COMMIT_SENT", "TX_COMMITOK_RECEIVED">>,
     tx_rollback |-> <<"TX_ROLLBACK_SENT", "TX_ROLLBACKOK_RECEIVED">>]

ChannelMethods ==
    [qos_prefetch   |-> <<"BASIC_QOS_SENT", "BASIC_QOSOK_RECEIVED">>,
     basic_recover  |-> <<"BASIC_RECOVER_SENT", "BASIC_RECOVEROK_RECEIVED">>,
     confirm_select |-> <<"CONFIRM_SELECT_SENT", "CONFIRM_SELECTOK_RECEIVED">>,
     close          |-> <<"CHANNEL_CLOSE_SENT", "CHANNEL_CLOSEOK_RECEIVED">>]

Method == DOMAIN ExchangeMethods \cup DOMAIN QueueMethods \cup DOMAIN TxMethods
              \cup DOMAIN ChannelMethods

StatesOf(m) == CASE m \in DOMAIN ExchangeMethods -> ExchangeMethods[m]
                 [] m \in DOMAIN QueueMethods    -> QueueMethods[m]
                 [] m \in DOMAIN TxMethods       -> TxMethods[m]
                 [] m \in DOMAIN ChannelMethods  -> ChannelMethods[m]

Sent(m) == StatesOf(m)[1]
Ok(m) == StatesOf(m)[2]

STE == "StateTransitionError"
Error == {STE, "ConnectionClosedException", "ChannelError"}

ASSUME ClientRpcAssumption ==
    /\ Requests \subseteq Method \ {"close"}
    /\ Workloads \subseteq [calls : [Task -> 0..MaxCalls], refusals : SUBSET Requests]
    /\ Codes \cap (Error \cup {"UnknownError", "answered", "skipped", "rejected",
                              "closed"}) = {}
    /\ MaxChannels \in Nat \ {0}
    /\ MaxCalls \in Nat /\ MaxUnsolicited \in Nat
    /\ None \notin Task \cup Codes \cup Error
                  \cup {"open", "closing", "closed", "failed", "answered"}

SM == INSTANCE StateManager
      WITH State <- ClientState, Transitions <- ClientTransitions, Waiter <- Task,
           UNINITIALIZED <- "UNINITIALIZED", EXCEPTION <- "EXCEPTION"

VARIABLES
    manager,     \* the client as a StateManager
    lock,        \* _rpc_lock: its holder, then those waiting for it
    closeLock,   \* _close_lock, likewise
    task,        \* the calls of the application's tasks
    channel,     \* _channel, the number of the current channel
    channelOpen, \* the _channel_open event
    lastError,   \* the error of _last_error, None when its code is 0
    mode,        \* _transactional and _publisher_confirms
    channel0,    \* Channel0: "open", "closing", "closed", "failed" or None
    transport,   \* "open", "lost" or "closed" by the client
    inbox,       \* frames to the client
    outbox,      \* frames to the broker
    broker       \* the broker's side of the channel

flow == <<lock, closeLock, task>>
session == <<channel, channelOpen, lastError, mode, channel0, transport>>
vars == <<manager, flow, session, inbox, outbox, broker>>

\* A client that has just connected: it has one open channel.
Init ==
    /\ manager = [SM!NewManager EXCEPT !.state = "CHANNEL_OPENOK_RECEIVED"]
    /\ lock = <<>> /\ closeLock = <<>>
    /\ \E w \in Workloads :
          /\ task = [t \in Task |-> [pc |-> "idle", call |-> None, result |-> None,
                                     left |-> w.calls[t]]]
          /\ broker = [channel |-> 1, closing |-> FALSE, mode |-> "normal", gone |-> FALSE,
                       unsolicited |-> 0, refusals |-> w.refusals, answers |-> {}]
    /\ channel = 1 /\ channelOpen = TRUE /\ lastError = None
    /\ mode = [transactional |-> FALSE, confirms |-> FALSE]
    /\ channel0 = "open" /\ transport = "open"
    /\ inbox = <<>> /\ outbox = <<>>

---------------------------------------------------------------------------
(* Helpers *)

Enter(m, state) == SM!SetState(m, state, None, STE)

\* Mutant: only Channel0 is asked.
Channel0IsClosed == channel0 \in {"closed", "failed", None}

\* Client.is_closed
IsClosed ==
    \/ channel0 \in {"closed", "failed", None}
    \/ manager.state \in ClosedClientStates

\* What is written to a transport that is gone is dropped.
Write(frames) == outbox' = IF transport = "open" THEN outbox \o frames ELSE outbox

Frame(type, number) == [type |-> type, channel |-> number]

\* The frame of a call; by names the call, for the properties only.
CallFrame(t, m) ==
    [type |-> IF m = "close" THEN "Channel.Close" ELSE m, channel |-> channel,
     by |-> <<t, task[t].left>>]

\* Mutant: the lock of close() is kept.
Within(l, t) == l

\* async with self._close_lock, at its end.
Without(l, t) == IF l # <<>> /\ Head(l) = t THEN Tail(l) ELSE l

\* A call is over: close() also lets go of its own lock.
End(t, m, result) ==
    /\ task' = [task EXCEPT ![t] = [pc |-> "idle", call |-> m, result |-> result,
                                    left |-> @.left - 1]]
    /\ closeLock' = Without(closeLock, t)

Goes(t, m, pc) ==
    /\ task' = [task EXCEPT ![t].pc = pc, ![t].call = m]
    /\ UNCHANGED closeLock

\* confirm_select notes the mode when its request is done, answered or skipped.
Return(t, m, result) ==
    /\ End(t, m, result)
    /\ mode' = [mode EXCEPT !.confirms = @ \/ m = "confirm_select"]

---------------------------------------------------------------------------
(* close() *)

\* _close, in client state m, up to the answer that Channel0.close waits for.
\* A Channel0 that the broker has closed refuses.
Disconnect(t, m) ==
    /\ manager' = IF SM!Refuses(m, "CLOSING", None) THEN SM!Refuse(m, STE)
                  ELSE Enter(m, "CLOSING")
    /\ IF SM!Refuses(m, "CLOSING", None)
       THEN End(t, "close", STE) /\ UNCHANGED <<channel0, outbox>>
       ELSE /\ Write(<<Frame("Connection.Close", 0)>>)
            /\ IF channel0 = "closed"
               THEN End(t, "close", STE) /\ UNCHANGED channel0
               ELSE Goes(t, "close", "closing") /\ channel0' = "closing"
    /\ UNCHANGED <<channel, channelOpen, lastError, mode, transport, inbox, broker>>

\* The rest of _close, _reset included.
CloseEnds(t) ==
    /\ task[t].pc = "closing" /\ channel0 = "closed"
    /\ manager' = [manager EXCEPT !.state = "CLOSED", !.exception = None]
    /\ channel' = 0 /\ channelOpen' = FALSE
    /\ mode' = [mode EXCEPT !.confirms = FALSE]
    /\ channel0' = None /\ transport' = "closed"
    /\ End(t, "close", "closed")
    /\ UNCHANGED <<lock, lastError, inbox, outbox, broker>>

\* Channel0 fails while close() waits for it: the client stays in CLOSING.
CloseFails(t) ==
    /\ task[t].pc = "closing" /\ channel0 = "failed"
    /\ End(t, "close", STE)
    /\ UNCHANGED <<manager, lock, session, inbox, outbox, broker>>

---------------------------------------------------------------------------
(* _send_rpc, once the lock is free or released to the task *)

SendSkipped(t, m, held) ==
    /\ IsClosed
    /\ lock' = Tail(held)
    /\ IF m = "close" THEN Disconnect(t, manager)
       ELSE /\ Return(t, m, "skipped")
            /\ UNCHANGED <<manager, channel, channelOpen, lastError, channel0,
                           transport, inbox, outbox, broker>>

\* The frame is written before the state refuses the request.
SendRefused(t, m, held) ==
    /\ ~ IsClosed /\ SM!Refuses(manager, Sent(m), None)
    /\ Write(<<CallFrame(t, m)>>)
    /\ manager' = SM!Refuse(manager, STE)
    /\ lock' = Tail(held)
    /\ End(t, m, STE)
    /\ UNCHANGED <<session, inbox, broker>>

SendWaits(t, m, held) ==
    /\ ~ IsClosed /\ ~ SM!Refuses(manager, Sent(m), None)
    /\ Write(<<CallFrame(t, m)>>)
    /\ manager' = SM!Register(Enter(manager, Sent(m)), t,
                              {Ok(m), "CHANNEL_CLOSE_RECEIVED"})
    /\ lock' = held
    /\ Goes(t, m, "waiting")
    /\ UNCHANGED <<session, inbox, broker>>

Send(t, m, held) ==
    SendSkipped(t, m, held) \/ SendRefused(t, m, held) \/ SendWaits(t, m, held)

\* Mutant: nobody waits for the lock.
RpcUnlocked(t, m) == Send(t, m, Append(lock, t))

\* async with self._rpc_lock: at once, or behind those before it.
Rpc(t, m) ==
    IF lock = <<>> THEN Send(t, m, <<t>>)
    ELSE /\ lock' = Append(lock, t)
         /\ Goes(t, m, "queued")
         /\ UNCHANGED <<manager, session, inbox, outbox, broker>>

Acquire(t) == task[t].pc = "queued" /\ Head(lock) = t /\ Send(t, task[t].call, lock)

MayCall(t) == task[t].pc = "idle" /\ task[t].left > 0

\* What a method checks before it sends: the transaction, or the confirms.
ChecksFail(m) == \/ m \in {"tx_commit", "tx_rollback"} /\ ~ mode.transactional
                 \/ m = "confirm_select" /\ mode.confirms

Call(t) ==
    /\ MayCall(t)
    /\ \E m \in Requests : ~ ChecksFail(m) /\ Rpc(t, m)

CallFails(t) ==
    /\ MayCall(t)
    /\ \E m \in Requests : ChecksFail(m) /\ End(t, m, "rejected")
    /\ UNCHANGED <<manager, lock, session, inbox, outbox, broker>>

\* close() waits for its own lock; a free lock is taken when the call goes on,
\* nothing tells the two moments apart.
Close(t) ==
    /\ ClientCloses /\ MayCall(t)
    /\ closeLock' = Append(closeLock, t)
    /\ task' = [task EXCEPT ![t].pc = "closeQueued", ![t].call = "close"]
    /\ UNCHANGED <<manager, lock, session, inbox, outbox, broker>>

\* close() of a client that is closed notes that, if its state allows.
CloseClosed(t) ==
    LET refused == manager.state # "CLOSED" /\ SM!Refuses(manager, "CLOSED", None)
    IN  /\ manager' = IF manager.state = "CLOSED" THEN manager
                      ELSE Enter(manager, "CLOSED")
        /\ End(t, "close", IF refused THEN STE ELSE "closed")
        /\ UNCHANGED <<lock, session, inbox, outbox, broker>>

\* Mutant: two tasks may be in close().
CloseUnlocked(t) ==
    /\ task[t].pc = "closeQueued"
    /\ \/ IsClosed /\ CloseClosed(t)
       \/ ~ IsClosed /\ channelOpen /\ Rpc(t, "close")
       \/ ~ IsClosed /\ ~ channelOpen /\ Disconnect(t, manager) /\ UNCHANGED lock

CloseLocked(t) ==
    /\ task[t].pc = "closeQueued" /\ Head(closeLock) = t
    /\ \/ IsClosed /\ CloseClosed(t)
       \/ ~ IsClosed /\ channelOpen /\ Rpc(t, "close")
       \/ ~ IsClosed /\ ~ channelOpen /\ Disconnect(t, manager) /\ UNCHANGED lock

---------------------------------------------------------------------------
(* The end of the wait, and _post_wait_on_state *)

\* The event loop sets the events of one _set_state.
RunReady ==
    /\ manager.ready # <<>>
    /\ manager' = SM!RunCallbacks(manager)
    /\ UNCHANGED <<flow, session, inbox, outbox, broker>>

Waits(t) == task[t].pc = "waiting"

\* Mutant: a channel that is closed does not end the wait.
WaitsOnAnswer(t) == <<Ok(task[t].call)>>

WaitsOn(t) == <<Ok(task[t].call), "CHANNEL_CLOSE_RECEIVED">>

\* The wait ends and nothing is raised.
PollReturnsNormally(t) ==
    /\ lock' = Tail(lock)
    /\ IF task[t].call = "close" THEN Disconnect(t, SM!AfterPoll(manager, t))
       ELSE /\ manager' = SM!AfterPoll(manager, t)
            /\ Return(t, task[t].call, "answered")
            /\ UNCHANGED <<channel, channelOpen, lastError, channel0, transport,
                           inbox, outbox, broker>>

\* Mutant: the closing of the channel is an answer like any other.
PollAnsweredAnyhow(t) ==
    /\ Waits(t)
    /\ \E state \in {Ok(task[t].call), "CHANNEL_CLOSE_RECEIVED"} :
           SM!PollReturns(manager, t, WaitsOn(t), state)
    /\ PollReturnsNormally(t)

\* A channel that was closed for an error somebody has taken counts as an answer.
PollAnswered(t) ==
    /\ Waits(t)
    /\ \/ SM!PollReturns(manager, t, WaitsOn(t), Ok(task[t].call))
       \/ /\ SM!PollReturns(manager, t, WaitsOn(t), "CHANNEL_CLOSE_RECEIVED")
          /\ lastError = None
    /\ PollReturnsNormally(t)

\* Mutant: the channel number does not wrap at the limit.
NextChannelUnbounded == channel + 1

NextChannel == IF channel + 1 > MaxChannels THEN 1 ELSE channel + 1

\* Mutant: _open_channel does not note that it has sent the request.
OpeningUnsent(m) == Enter(m, "OPENING_CHANNEL")

Opening(m) == Enter(Enter(m, "OPENING_CHANNEL"), "CHANNEL_OPEN_SENT")

\* The broker has closed the channel: _open_channel, up to its wait, or a
\* refusal of its first state.
PollChannelClosed(t) ==
    LET m == SM!AfterPoll(manager, t) IN
    /\ Waits(t) /\ SM!PollReturns(manager, t, WaitsOn(t), "CHANNEL_CLOSE_RECEIVED")
    /\ lastError # None
    /\ lock' = Tail(lock)
    /\ IF SM!Refuses(m, "OPENING_CHANNEL", None)
       THEN /\ manager' = SM!Refuse(m, STE)
            /\ End(t, task[t].call, STE)
            /\ UNCHANGED <<channel, outbox>>
       ELSE /\ manager' = Opening(m)
            /\ channel' = NextChannel
            /\ Write(<<Frame("Channel.Open", NextChannel)>>)
            /\ Goes(t, task[t].call, IF channelOpen THEN "raising" ELSE "opening")
    /\ UNCHANGED <<channelOpen, lastError, mode, channel0, transport, inbox, broker>>

\* The new channel is open, and a millisecond has passed.
RaiseLastError(t) ==
    /\ task[t].pc = "raising"
    /\ End(t, task[t].call, IF lastError = None THEN "UnknownError" ELSE lastError)
    /\ lastError' = None
    /\ UNCHANGED <<manager, lock, channel, channelOpen, mode, channel0, transport,
                   inbox, outbox, broker>>

\* An exception ends the wait: the task goes on to _reconnect.
PollRaises(t) ==
    /\ Waits(t) /\ SM!PollRaises(manager, t)
    /\ manager' = SM!AfterPoll(manager, t)
    /\ lock' = Tail(lock)
    /\ Goes(t, task[t].call, "reconnecting")
    /\ UNCHANGED <<session, inbox, outbox, broker>>

Poll(t) == PollAnswered(t) \/ PollChannelClosed(t) \/ PollRaises(t)

---------------------------------------------------------------------------
(* _on_frame *)

Takes(type) ==
    /\ inbox # <<>> /\ Head(inbox).type = type
    /\ channel0 # None
    /\ inbox' = Tail(inbox)

\* A refusal in a callback reaches the loop's handler, which is Channel0's.
Receives(state) ==
    /\ manager' = Enter(manager, state)
    /\ channel0' = IF SM!Refuses(manager, state, None) THEN "failed" ELSE channel0

\* The Ok of a request.
ReceiveOk ==
    \E m \in Requests :
        /\ Takes(m)
        /\ Receives(Ok(m))
        /\ mode' = [mode EXCEPT !.transactional = @ \/ m = "tx_select"]
        /\ UNCHANGED <<flow, channel, channelOpen, lastError, transport, outbox, broker>>

\* Mutant: the event of the open channel stays set.
ReceiveChannelCloseOpen ==
    /\ Takes("Channel.Close")
    /\ ~ SM!Refuses(manager, "CHANNEL_CLOSE_RECEIVED", None)
    /\ manager' = Enter(Enter(manager, "CHANNEL_CLOSE_RECEIVED"), "CHANNEL_CLOSEOK_SENT")
    /\ Write(<<Frame("Channel.CloseOk", channel)>>)
    /\ lastError' = Head(inbox).code
    /\ UNCHANGED <<flow, channel, channelOpen, mode, channel0, transport, broker>>

ReceiveChannelClose ==
    /\ Takes("Channel.Close")
    /\ ~ SM!Refuses(manager, "CHANNEL_CLOSE_RECEIVED", None)
    /\ manager' = Enter(Enter(manager, "CHANNEL_CLOSE_RECEIVED"), "CHANNEL_CLOSEOK_SENT")
    /\ Write(<<Frame("Channel.CloseOk", channel)>>)
    /\ lastError' = Head(inbox).code
    /\ channelOpen' = FALSE
    /\ UNCHANGED <<flow, channel, mode, channel0, transport, broker>>

\* A Channel.Close that the state does not allow is not answered.
ReceiveChannelCloseRefused ==
    /\ Takes("Channel.Close")
    /\ SM!Refuses(manager, "CHANNEL_CLOSE_RECEIVED", None)
    /\ Receives("CHANNEL_CLOSE_RECEIVED")
    /\ UNCHANGED <<flow, channel, channelOpen, lastError, mode, transport, outbox, broker>>

ReceiveChannelCloseOk ==
    /\ Takes("Channel.CloseOk")
    /\ channelOpen' = FALSE
    /\ Receives("CHANNEL_CLOSEOK_RECEIVED")
    /\ UNCHANGED <<flow, channel, lastError, mode, transport, outbox, broker>>

\* The event wakes who waits for it.
ReceiveChannelOpenOk ==
    /\ Takes("Channel.OpenOk")
    /\ channelOpen' = TRUE
    /\ Receives("CHANNEL_OPENOK_RECEIVED")
    /\ task' = [t \in Task |-> IF task[t].pc = "opening"
                               THEN [task[t] EXCEPT !.pc = "raising"] ELSE task[t]]
    /\ UNCHANGED <<lock, closeLock, channel, lastError, mode, transport, outbox, broker>>

\* Connection.Close, through Channel0 and _on_remote_close; a Channel0 that has
\* failed or is closing refuses it.
ReceiveConnectionClose ==
    /\ Takes("Connection.Close")
    /\ IF channel0 = "open"
       THEN /\ channel0' = "closed"
            /\ lastError' = Head(inbox).code
            /\ manager' = SM!SetState(manager, "EXCEPTION", "ChannelError", STE)
       ELSE channel0' = "failed" /\ UNCHANGED <<lastError, manager>>
    /\ UNCHANGED <<flow, channel, channelOpen, mode, transport, outbox, broker>>

\* Connection.CloseOk ends the wait of Channel0.close.
ReceiveConnectionCloseOk ==
    /\ Takes("Connection.CloseOk")
    /\ channel0' = IF channel0 = "closing" THEN "closed" ELSE "failed"
    /\ UNCHANGED <<manager, flow, channel, channelOpen, lastError, mode, transport,
                   outbox, broker>>

\* _on_disconnected
Disconnected ==
    /\ Takes("Disconnected")
    /\ manager' = IF IsClosed THEN manager
                  ELSE SM!SetState(manager, "EXCEPTION", "ConnectionClosedException", STE)
    /\ UNCHANGED <<flow, session, outbox, broker>>

Receive ==
    \/ ReceiveOk \/ ReceiveChannelClose \/ ReceiveChannelCloseRefused
    \/ ReceiveChannelCloseOk \/ ReceiveChannelOpenOk
    \/ ReceiveConnectionClose \/ ReceiveConnectionCloseOk \/ Disconnected

---------------------------------------------------------------------------
(* The broker and the network, external *)

Sends(frames) == inbox' = IF transport = "open" THEN inbox \o frames ELSE inbox

Answers(call, outcome) == [broker EXCEPT !.answers = @ \cup {<<call, outcome>>}]

\* The channel's mode rules some requests out.
MustRefuse(m) == \/ m \in {"tx_commit", "tx_rollback"} /\ broker.mode # "tx"
                 \/ m = "tx_select" /\ broker.mode = "confirm"
                 \/ m = "confirm_select" /\ broker.mode = "tx"

BrokerAccepts(frame) ==
    /\ frame.type \in Requests /\ ~ MustRefuse(frame.type)
    /\ Sends(<<Frame(frame.type, frame.channel)>>)
    /\ broker' = [Answers(frame.by, "answered") EXCEPT
                     !.mode = CASE frame.type = "tx_select" -> "tx"
                                [] frame.type = "confirm_select" -> "confirm"
                                [] OTHER -> @]

BrokerRefuses(frame) ==
    /\ frame.type \in Requests
    /\ MustRefuse(frame.type) \/ frame.type \in broker.refusals
    /\ \E code \in Codes :
          /\ Sends(<<[type |-> "Channel.Close", channel |-> frame.channel, code |-> code]>>)
          /\ broker' = [Answers(frame.by, code) EXCEPT !.closing = TRUE]

\* A broker that has closed a channel discards what is not about closing it.
BrokerReadsOpenChannel(frame) ==
    \/ /\ frame.type = "Channel.Close"
       /\ Sends(<<Frame("Channel.CloseOk", frame.channel)>>)
       /\ broker' = [broker EXCEPT !.channel = 0, !.closing = FALSE]
    \/ /\ frame.type = "Channel.CloseOk" /\ broker.closing
       /\ broker' = [broker EXCEPT !.channel = 0, !.closing = FALSE]
       /\ UNCHANGED inbox
    \/ /\ frame.type \notin {"Channel.Close", "Channel.CloseOk"} /\ broker.closing
       /\ UNCHANGED <<broker, inbox>>
    \/ ~ broker.closing /\ (BrokerAccepts(frame) \/ BrokerRefuses(frame))

\* A frame for a channel that is not open is a connection error.
BrokerReadsOther(frame) ==
    CASE frame.type = "Connection.Close" ->
           /\ Sends(<<Frame("Connection.CloseOk", 0)>>)
           /\ broker' = [broker EXCEPT !.gone = TRUE]
      [] frame.type = "Channel.Open" /\ broker.channel = 0 ->
           /\ Sends(<<Frame("Channel.OpenOk", frame.channel)>>)
           /\ broker' = [broker EXCEPT !.channel = frame.channel, !.mode = "normal"]
      [] frame.type = "Channel.CloseOk" -> UNCHANGED <<broker, inbox>>
      [] OTHER ->
           /\ Sends(<<[type |-> "Connection.Close", channel |-> 0, code |-> "ChannelError"]>>)
           /\ broker' = [broker EXCEPT !.gone = TRUE]

BrokerReads ==
    /\ outbox # <<>> /\ outbox' = Tail(outbox)
    /\ LET frame == Head(outbox) IN
       IF broker.gone THEN UNCHANGED <<broker, inbox>>
       ELSE IF broker.channel # 0 /\ frame.channel = broker.channel
       THEN BrokerReadsOpenChannel(frame)
       ELSE BrokerReadsOther(frame)
    /\ UNCHANGED <<manager, flow, session>>

\* The broker closes the channel for what is not a request: a message published
\* to an exchange that is missing, or the ack of a tag it does not know.
BrokerClosesChannel ==
    /\ broker.unsolicited < MaxUnsolicited
    /\ broker.channel # 0 /\ ~ broker.closing /\ ~ broker.gone /\ transport = "open"
    /\ \E code \in Codes :
          Sends(<<[type |-> "Channel.Close", channel |-> broker.channel, code |-> code]>>)
    /\ broker' = [broker EXCEPT !.closing = TRUE, !.unsolicited = @ + 1]
    /\ UNCHANGED <<manager, flow, session, outbox>>

\* The frames that had arrived are handled before connection_lost is.
SocketLost ==
    /\ SocketMayDrop /\ transport = "open"
    /\ transport' = "lost"
    /\ \E n \in 0..Len(inbox) :
          inbox' = Append(SubSeq(inbox, 1, n), Frame("Disconnected", 0))
    /\ outbox' = <<>>
    /\ UNCHANGED <<manager, flow, channel, channelOpen, lastError, mode, channel0, broker>>

---------------------------------------------------------------------------

Proceeds(t) == Acquire(t) \/ CloseLocked(t) \/ Poll(t) \/ RaiseLastError(t)
                   \/ CloseEnds(t) \/ CloseFails(t)

Next ==
    \/ \E t \in Task : Call(t) \/ CallFails(t) \/ Close(t) \/ Proceeds(t)
    \/ RunReady \/ Receive
    \/ BrokerReads \/ BrokerClosesChannel \/ SocketLost

\* The loop runs its callbacks and resumes its coroutines, frames arrive and
\* the broker answers what it is sent.
Fairness ==
    /\ \A t \in Task : WF_vars(Proceeds(t))
    /\ WF_vars(RunReady) /\ WF_vars(Receive) /\ WF_vars(BrokerReads)

Spec == Init /\ [][Next]_vars /\ Fairness

---------------------------------------------------------------------------
(* The workloads for which no call meets another's refusal *)

\* The requests that the broker may refuse: at will, or for the mode of the channel.
MayBeRefused(refusals) ==
    refusals \cup (Requests \cap {"tx_select", "tx_commit", "tx_rollback", "confirm_select"})

\* The table lets the channel be closed while the request is under way.
CanBeRefused(m) == "CHANNEL_CLOSE_RECEIVED" \in ClientTransitions[Sent(m)]

\* All requests are answered; or one task makes them, and those that may be refused
\* can be.  The broker closes no channel for anything else.
Orderly ==
    /\ MaxUnsolicited = 0
    /\ \A w \in Workloads : MayBeRefused(w.refusals) # {} =>
          /\ \A t, u \in Task : w.calls[t] > 0 /\ w.calls[u] > 0 => t = u
          /\ \A m \in MayBeRefused(w.refusals) : CanBeRefused(m)

---------------------------------------------------------------------------
(* Properties *)

Outcome == {"answered", "skipped", "rejected", "closed", "UnknownError", "ChannelError",
            STE} \cup Codes

\* The type invariant: of the client, and of what it holds of the broker.
TypeOK ==
    /\ manager \in SM!ManagerWith(Error)
    /\ lock \in Seq(Task) /\ closeLock \in Seq(Task)
    /\ task \in [Task -> [pc : {"idle", "queued", "closeQueued", "waiting", "opening",
                                "raising", "closing", "reconnecting"},
                          call : Method \cup {None}, result : Outcome \cup {None},
                          left : 0..MaxCalls]]
    /\ channel \in 0..MaxChannels /\ channelOpen \in BOOLEAN
    /\ lastError \in Codes \cup {"ChannelError", None}
    /\ mode \in [transactional : BOOLEAN, confirms : BOOLEAN]
    /\ channel0 \in {"open", "closing", "closed", "failed", None}
    /\ transport \in {"open", "lost", "closed"}

\* The outcome of a task's last call, when that was answered or raised a code.
Ended(t, outcome) == task[t].pc = "idle" /\ task[t].result = outcome

BrokerSaid(t, outcome) == <<<<t, task[t].left + 1>>, outcome>> \in broker.answers

\* A call that returns was answered by the broker, and a call that raises the
\* error of a reply code was refused with that code: no call takes the answer
\* or the error of another.  (_send_rpc, _post_wait_on_state, _get_last_error)
AnswersMatch ==
    \A t \in Task, outcome \in {"answered"} \cup Codes :
        Ended(t, outcome) => BrokerSaid(t, outcome)

\* With nothing on its way that closes the channel, the client that takes its
\* channel for open has that channel open at the broker.  (_on_frame,
\* _open_channel)
ChannelAgrees ==
    (/\ channelOpen /\ channel0 = "open" /\ transport = "open"
     /\ \A i \in DOMAIN inbox :
            inbox[i].type \notin {"Channel.Close", "Channel.CloseOk", "Connection.Close"})
    => broker.channel = channel /\ ~ broker.closing

\* Nothing is written after Connection.Close, whoever was queued behind close().
\* (_send_rpc, close, _close)
NothingFollowsClose ==
    \A i, j \in DOMAIN outbox : i < j => outbox[i].type # "Connection.Close"

\* "the exception is raised, but the client continues to operate" (README.rst):
\* while the socket holds and nobody closes it, the client is not closed.
StaysUsable ==
    (transport = "open" /\ \A t \in Task : task[t].call # "close") => ~ IsClosed

Reconnecting == \E t \in Task : task[t].pc = "reconnecting"

\* "Close the client connection to the server" (close): when close() returns
\* the socket is closed, unless the broker has ended the connection or a task
\* is about to replace it.
CloseDisconnects ==
    \A t \in Task : Ended(t, "closed") =>
        transport # "open" \/ broker.gone \/ Reconnecting

\* While the socket holds, a call returns or raises, unless some task goes on to
\* reconnect.  (_send_rpc, _open_channel, close)
EveryCallEnds ==
    \A t \in Task : task[t].pc # "idle"
                       ~> task[t].pc = "idle" \/ Reconnecting \/ transport = "lost"

\* "To automatically create a new channel when the channel is closed due to an
\* AMQP exception/error" (README.rst), unless the client is closed meanwhile.
\* (_post_wait_on_state, _open_channel)
ChannelRestored == ~ channelOpen ~> channelOpen \/ IsClosed
=============================================================================
