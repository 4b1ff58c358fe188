------------------------------ MODULE Connection ------------------------------
(***************************************************************************)
(* The connection of aiorabbit/client.py: connect, close, _reconnect and   *)
(* the callbacks of the socket, and the context manager of __init__.py.    *)
(* One coroutine of the application uses the client.  Each connection that *)
(* is tried is a session: the Channel0, the socket and the broker's side.  *)
(* A session lives on when the client has gone to the next one, and what   *)
(* it does then reaches the client through the same callbacks.  Channel0   *)
(* has its own module; here it is as far as it has come.                   *)
(***************************************************************************)
EXTENDS ClientStates, Naturals, Sequences

CONSTANTS
    None,
    DialErrors,     \* how create_connection may fail
    Refusals,       \* why the broker may refuse the connection
    Heartbeats,     \* whether Channel0 has a heartbeat interval
    BrokerMayClose, \* whether the broker may close the connection
    SocketMayDrop,  \* whether the network may fail
    MaxSessions,    \* bound: connections that are tried
    MaxCalls        \* bound: calls of the application

ASSUME ConnectionAssumption ==
    /\ DialErrors \subseteq {"OSError", "TimeoutError"}
    /\ Refusals \subseteq {"AccessRefused", "NotAllowed", "InternalError"}
    /\ Heartbeats \in BOOLEAN /\ BrokerMayClose \in BOOLEAN /\ SocketMayDrop \in BOOLEAN
    /\ MaxSessions \in Nat /\ MaxCalls \in Nat
    /\ None \notin Nat \cup {"StateTransitionError", "ConnectionClosedException",
                              "AttributeError", "UnknownError", "ConnectionForced"}
                         \cup DialErrors \cup Refusals

SM == INSTANCE StateManager
      WITH State <- ClientState, Transitions <- ClientTransitions, Waiter <- {"app"},
           UNINITIALIZED <- "UNINITIALIZED", EXCEPTION <- "EXCEPTION"

STE == "StateTransitionError"
Lost == "ConnectionClosedException"
Error == {STE, Lost, "AttributeError", "UnknownError", "ConnectionForced"}
             \cup DialErrors \cup Refusals

\* What _wait_on_state raises, and what makes connect reset the client.
CONNECTING_EXCEPTIONS == {"AccessRefused", "NotAllowed"}
ResetErrors == {"OSError", "RuntimeError", "TimeoutError", "AccessRefused",
                "ClientNegotiationException"}

VARIABLES
    manager,  \* the client as a StateManager
    client,   \* _channel0 and _transport, by their session; _channel_open, _last_error
    session,  \* all the connections that were tried
    app       \* the coroutine that uses the client; stale, for the properties only,
              \* when it has connected with _channel_open still set

vars == <<manager, client, session, app>>

NewSession ==
    [channel0 |-> "new", exception |-> None, opened |-> FALSE, timer |-> FALSE,
     heard |-> FALSE, socket |-> "dialing", inbox |-> <<>>, outbox |-> <<>>,
     broker |-> "new"]

Init ==
    /\ manager = [SM!NewManager EXCEPT !.state = "DISCONNECTED"]
    /\ client = [channel0 |-> None, transport |-> None, channelOpen |-> FALSE,
                 lastError |-> None]
    /\ session = <<>>
    /\ app = [pc |-> "idle", call |-> None, again |-> FALSE, result |-> None,
              left |-> MaxCalls, stale |-> FALSE]

---------------------------------------------------------------------------
(* Helpers *)

Newest == Len(session)
Enter(m, state) == SM!SetState(m, state, None, STE)
Refuses(m, state) == SM!Refuses(m, state, None)

\* Channel0.is_closed
Channel0IsClosed(n) == session[n].channel0 \in {"remoteClosed", "closed", "failed"}

\* Client.is_closed
IsClosed ==
    ~ (/\ client.channel0 # None /\ client.transport # None
       /\ ~ Channel0IsClosed(client.channel0)
       /\ manager.state \notin ClosedClientStates)

\* What is written to a socket that is gone is dropped.
Written(s, n, type) ==
    IF s[n].socket \in {"made", "silent"} THEN [s EXCEPT ![n].outbox = Append(@, type)]
    ELSE s

\* An exception in a callback reaches the handler of the loop, which is that of
\* the Channel0 that was made last.
Raised(s, exc) == [s EXCEPT ![Len(s)].channel0 = "failed", ![Len(s)].exception = exc]

\* _set_state in a callback.
Receives(state, exc) ==
    /\ manager' = SM!SetState(manager, state, exc, STE)
    /\ session' = IF SM!Refuses(manager, state, exc) THEN Raised(session, STE) ELSE session

\* Mutant: _reset leaves the state as it is.
ResetManagerKeeps(m) == [m EXCEPT !.exception = None]

\* Mutant: _reset leaves the event of the channel set.
ResetClientOpen(c) == [c EXCEPT !.channel0 = None, !.transport = None]

\* _reset.  The socket and the timer of the session are left as they are.
ResetManager(m) == [m EXCEPT !.state = "CLOSED", !.exception = None]
ResetClient(c) == [c EXCEPT !.channel0 = None, !.transport = None, !.channelOpen = FALSE]

Goes(call, pc) == app' = [app EXCEPT !.call = call, !.pc = pc]

\* The call ends; connect resets the client for some errors of _connect.
Ends(call, result, m, c) ==
    LET resets == call = "connect" /\ result \in ResetErrors IN
    /\ manager' = IF resets THEN ResetManager(m) ELSE m
    /\ client' = IF resets THEN ResetClient(c) ELSE c
    /\ app' = [app EXCEPT !.pc = "idle", !.call = call, !.again = FALSE, !.result = result,
                          !.left = @ - 1]

\* The state machine refuses what the call is about to do.
Fails(call, m) == Ends(call, STE, SM!Refuse(m, STE), client)

---------------------------------------------------------------------------
(* _connect and _open_channel *)

\* Up to create_connection.
Dial(m, c, call, again) ==
    IF Refuses(m, "CONNECTING")
    THEN Ends(call, STE, SM!Refuse(m, STE), c) /\ UNCHANGED session
    ELSE /\ Newest < MaxSessions
         /\ manager' = Enter(m, "CONNECTING")
         /\ session' = Append(session, NewSession)
         /\ client' = [c EXCEPT !.channel0 = Newest + 1]
         /\ app' = [app EXCEPT !.pc = "dialing", !.call = call, !.again = again,
                                 !.stale = @ \/ (~ again /\ c.channelOpen)]

\* The connection is refused, or not made in time.
DialFails ==
    /\ app.pc = "dialing" /\ session[Newest].socket = "dialing"
    /\ \E error \in DialErrors : Ends(app.call, error, manager, client)
    /\ session' = [session EXCEPT ![Newest].socket = "closed"]

\* connection_made, _on_connected
Connected ==
    /\ app.pc = "dialing" /\ session[Newest].socket = "dialing"
    /\ manager' = Enter(manager, "CONNECTED")
    /\ session' = LET s == [session EXCEPT ![Newest].socket = "made"] IN
                  IF Refuses(manager, "CONNECTED") THEN Raised(s, STE) ELSE s
    /\ UNCHANGED <<client, app>>

\* Mutant: the transport is kept when Channel0 is open, and not before.
DialReturnsUnkept ==
    /\ app.pc = "dialing" /\ session[Newest].socket # "dialing"
    /\ session' = [Written(session, Newest, "Header") EXCEPT ![Newest].channel0 = "opening"]
    /\ Goes(app.call, "opening") /\ UNCHANGED <<manager, client>>

\* create_connection has returned: Channel0.open, up to its wait.
DialReturns ==
    LET c == [client EXCEPT !.transport = Newest]
        s == Written(session, Newest, "Header")
    IN  /\ app.pc = "dialing" /\ session[Newest].socket # "dialing"
        /\ IF session[Newest].channel0 = "failed"
           THEN /\ Ends(app.call, STE, manager, c)
                /\ session' = [s EXCEPT ![Newest].exception = STE]
           ELSE /\ session' = [s EXCEPT ![Newest].channel0 = "opening"]
                /\ client' = c /\ Goes(app.call, "opening") /\ UNCHANGED manager

\* Channel0.open raises what a callback left there.
OpenRaises ==
    /\ app.pc = "opening" /\ session[Newest].exception # None
    /\ Ends(app.call, session[Newest].exception, manager, client)
    /\ session' = [session EXCEPT ![Newest].exception = None]

\* Channel0.open returns True.  _open_channel follows without a pause.
OpenReturns ==
    LET s == [session EXCEPT ![Newest].timer = Heartbeats] IN
    /\ app.pc = "opening" /\ session[Newest].exception = None /\ session[Newest].opened
    /\ IF Refuses(manager, "OPENED") THEN Fails(app.call, manager) /\ session' = s
       ELSE /\ manager' = Enter(Enter(Enter(manager, "OPENED"), "OPENING_CHANNEL"),
                                "CHANNEL_OPEN_SENT")
            /\ session' = Written(s, Newest, "Channel.Open")
            /\ Goes(app.call, IF client.channelOpen THEN "channelOpened" ELSE "openingChannel")
            /\ UNCHANGED client

\* Channel0.open returns False, and the wait for OPENED raises the error of the
\* broker.  Errors but those of CONNECTING_EXCEPTIONS lead to another connection.
OpenRefused ==
    /\ app.pc = "opening" /\ session[Newest].exception = None
    /\ ~ session[Newest].opened /\ session[Newest].channel0 = "remoteClosed"
    /\ manager.exception # None
    /\ session' = [session EXCEPT ![Newest].timer = Heartbeats]
    /\ LET m == SM!AfterPoll(manager, "app") IN
       IF manager.exception \in CONNECTING_EXCEPTIONS
       THEN Ends(app.call, manager.exception, m, client)
       ELSE manager' = m /\ Goes(app.call, "reconnect") /\ UNCHANGED client

\* _channel_open was set: connect returns, _reconnect goes on to raise the error.
ChannelOpened ==
    /\ app.pc = "channelOpened"
    /\ IF ~ app.again THEN Ends(app.call, "done", manager, client)
       ELSE Ends(app.call, IF client.lastError = None THEN "UnknownError" ELSE client.lastError,
                 manager, [client EXCEPT !.lastError = None])
    /\ UNCHANGED session

---------------------------------------------------------------------------
(* The calls, and _reconnect *)

\* The context manager connects first, and closes a client that is not closed.
MayCall(call) == app.pc = "idle" /\ app.left > 0
                 /\ IF call = "connect" THEN IsClosed ELSE Newest > 0

Connect == MayCall("connect") /\ Dial(manager, client, "connect", FALSE)

\* After 1 ms.
Reconnect ==
    /\ app.pc = "reconnect"
    /\ Dial(ResetManager(manager), ResetClient(client), app.call, TRUE)

\* _send_rpc of a request that is written, and waits for its answer.
Send(call, type, sent, ok, pc) ==
    /\ session' = Written(session, client.transport, type)
    /\ IF Refuses(manager, sent) THEN Fails(call, manager)
       ELSE /\ manager' = SM!Register(Enter(manager, sent), "app",
                                      {ok, "CHANNEL_CLOSE_RECEIVED"})
            /\ Goes(call, pc) /\ UNCHANGED client

\* queue_declare stands for every request.
Declare ==
    /\ MayCall("declare")
    /\ IF IsClosed THEN Ends("declare", "skipped", manager, client) /\ UNCHANGED session
       ELSE Send("declare", "Declare", "QUEUE_DECLARE_SENT", "QUEUE_DECLAREOK_RECEIVED",
                 "waiting")

\* _close, up to the wait of Channel0.close.
Disconnect(call, m) ==
    LET n == client.channel0
        s == Written([session EXCEPT ![n].timer = FALSE], client.transport, "Close")
    IN  IF Refuses(m, "CLOSING") THEN Fails(call, m) /\ UNCHANGED session
        ELSE IF session[n].channel0 \in {"open", "failed"}
        THEN /\ manager' = Enter(m, "CLOSING")
             /\ session' = [s EXCEPT ![n].channel0 = "closing", ![n].exception = None]
             /\ Goes(call, "closing") /\ UNCHANGED client
        ELSE /\ Ends(call, STE, Enter(m, "CLOSING"), client)
             /\ session' = [s EXCEPT ![n].exception = STE]

\* close() of a client that is closed notes that, if its state is another.
CloseClosed ==
    IF manager.state # "CLOSED" /\ Refuses(manager, "CLOSED") THEN Fails("close", manager)
    ELSE Ends("close", "closed",
              IF manager.state = "CLOSED" THEN manager ELSE Enter(manager, "CLOSED"), client)

Close ==
    /\ MayCall("close")
    /\ IF IsClosed
       THEN CloseClosed /\ UNCHANGED session
       ELSE IF client.channelOpen
       THEN Send("close", "Channel.Close", "CHANNEL_CLOSE_SENT", "CHANNEL_CLOSEOK_RECEIVED",
                 "waiting")
       ELSE Disconnect("close", manager)

\* The request has its answer; what follows that of close is _close.
PollAnswered ==
    LET m == SM!AfterPoll(manager, "app") IN
    /\ app.pc = "waiting" /\ manager.exception = None /\ manager.fired # {}
    /\ IF app.call = "close" THEN Disconnect("close", m)
       ELSE Ends(app.call, "done", m, client) /\ UNCHANGED session

\* The request ends with an exception, which leads to another connection.
PollRaises ==
    /\ app.pc = "waiting" /\ SM!PollRaises(manager, "app")
    /\ manager' = SM!AfterPoll(manager, "app")
    /\ Goes(app.call, "reconnect")
    /\ UNCHANGED <<client, session>>

\* Channel0.close returns, and the socket is closed.
CloseReturns ==
    /\ app.pc = "closing" /\ session[client.channel0].channel0 = "closed"
    /\ session' = [session EXCEPT ![client.transport].socket = "closed"]
    /\ IF Refuses(manager, "CLOSED") THEN Fails("close", manager)
       ELSE Ends("close", "closed", ResetManager(Enter(manager, "CLOSED")), ResetClient(client))

\* Channel0.close raises what a callback left there.
CloseRaises ==
    LET n == client.channel0 IN
    /\ app.pc = "closing" /\ session[n].exception # None
    /\ Ends("close", session[n].exception, manager, client)
    /\ session' = [session EXCEPT ![n].exception = None]

RunReady ==
    /\ manager.ready # <<>>
    /\ manager' = SM!RunCallbacks(manager)
    /\ UNCHANGED <<client, session, app>>

---------------------------------------------------------------------------
(* _on_frame, _on_disconnected, and Channel0's process and timer *)

Replies == Refusals \cup {"ConnectionForced"}

\* Where Channel0 may be when a frame comes, and where it is then.
Moves(type) ==
    CASE type = "OpenOk"  -> [from |-> {"opening"}, to |-> "open"]
      [] type = "CloseOk" -> [from |-> {"closing"}, to |-> "closed"]
      [] type \in Replies -> [from |-> {"opening", "open"}, to |-> "remoteClosed"]

\* Channel0.process: a frame of any session goes to the Channel0 the client has.
\* A Close is answered, and reported to the client.
Process(s, type) ==
    LET n == client.channel0 IN
    IF s[n].channel0 \notin Moves(type).from
    THEN session' = Raised([s EXCEPT ![n].exception = STE], STE)
         /\ UNCHANGED <<manager, client, app>>
    ELSE LET moved == [s EXCEPT ![n].channel0 = Moves(type).to,
                                ![n].opened = @ \/ type = "OpenOk"]
         IN  IF type \in Replies
             THEN /\ manager' = SM!SetState(manager, "EXCEPTION", type, STE)
                  /\ client' = [client EXCEPT !.lastError = type]
                  /\ session' = Written(moved, n, "CloseOk") /\ UNCHANGED app
             ELSE session' = moved /\ UNCHANGED <<manager, client, app>>

\* The frames of a channel, and the state they set.
Sets == [Channel_OpenOk  |-> "CHANNEL_OPENOK_RECEIVED",
         Channel_CloseOk |-> "CHANNEL_CLOSEOK_RECEIVED",
         DeclareOk       |-> "QUEUE_DECLAREOK_RECEIVED"]

\* Traffic counts for the Channel0 the client has.  The event _channel_open wakes who
\* waits for it.
OnFrame(s, type) ==
    LET heard == [s EXCEPT ![client.channel0].heard = TRUE] IN
    /\ manager' = Enter(manager, Sets[type])
    /\ session' = IF Refuses(manager, Sets[type]) THEN Raised(heard, STE) ELSE heard
    /\ client' = [client EXCEPT !.channelOpen =
                     CASE type = "Channel_OpenOk"  -> TRUE
                       [] type = "Channel_CloseOk" -> FALSE
                       [] OTHER                    -> @]
    /\ app' = IF type = "Channel_OpenOk" /\ app.pc = "openingChannel"
              THEN [app EXCEPT !.pc = "channelOpened"] ELSE app

\* Mutant: the loss of the socket is logged, not reported.
OnDisconnectedQuiet(s) == session' = s /\ UNCHANGED <<manager, client, app>>

\* A client that is not closed records the loss.
OnDisconnected(s) ==
    /\ manager' = IF IsClosed THEN manager ELSE SM!SetState(manager, "EXCEPTION", Lost, STE)
    /\ session' = s /\ UNCHANGED <<client, app>>

\* A client without a Channel0 has no attribute to call.
Receive(n) ==
    LET type == Head(session[n].inbox)
        s == [session EXCEPT ![n].inbox = Tail(@)]
    IN  /\ session[n].socket \in {"made", "lost"} /\ session[n].inbox # <<>>
        /\ IF type = "Disconnected" THEN OnDisconnected(s)
           ELSE IF client.channel0 = None
           THEN session' = Raised(s, "AttributeError") /\ UNCHANGED <<manager, client, app>>
           ELSE IF type \in DOMAIN Sets THEN OnFrame(s, type) ELSE Process(s, type)

\* Nothing was heard on a session for two intervals.  Timers are slow: what the
\* client can do, it has done.
Overdue(n) ==
    /\ session[n].timer /\ session[n].heard
    /\ n # client.channel0 \/ session[n].socket # "made"
    /\ session[n].inbox = <<>>
    /\ manager.ready = <<>> /\ app.pc # "reconnect"
    /\ app.pc = "waiting" => manager.exception = None /\ manager.fired = {}

\* The exception of a remote close is a new object each time, so it
\* is never the one _set_state finds recorded, whatever its kind.
BeforeANewException == [manager EXCEPT !.exception = None]

\* _heartbeat_check reports missed heartbeats to _on_remote_close.
HeartbeatsMissed(n) ==
    /\ Overdue(n)
    /\ manager' = SM!SetState(BeforeANewException, "CLOSED", Lost, STE)
    /\ session' = LET s == [session EXCEPT ![n].timer = FALSE] IN
                  IF SM!Refuses(BeforeANewException, "CLOSED", Lost) THEN Raised(s, STE)
                  ELSE s
    /\ client' = [client EXCEPT !.lastError = "UnknownError"]
    /\ UNCHANGED app

---------------------------------------------------------------------------
(* The broker and the network, external *)

\* The broker sends frames, and goes on to a phase; a broker that is gone has
\* closed the socket.
Answers(n, frames, phase) ==
    session' = [session EXCEPT
        ![n].outbox = Tail(@), ![n].broker = phase,
        ![n].inbox = @ \o IF phase = "gone" THEN Append(frames, "Disconnected") ELSE frames,
        ![n].socket = IF phase = "gone" THEN "lost" ELSE @]

BrokerReads(n) ==
    LET frame == Head(session[n].outbox)
        phase == session[n].broker
    IN  /\ session[n].socket = "made" /\ session[n].outbox # <<>>
        /\ CASE phase = "new" ->
                  \/ Answers(n, <<"OpenOk">>, "open")
                  \/ \E reply \in Refusals : Answers(n, <<reply>>, "closing")
             [] phase = "open" /\ frame = "Channel.Open" ->
                  Answers(n, <<"Channel_OpenOk">>, "channel")
             [] phase = "channel" /\ frame = "Declare" ->
                  Answers(n, <<"DeclareOk">>, phase)
             [] phase = "channel" /\ frame = "Channel.Close" ->
                  Answers(n, <<"Channel_CloseOk">>, "open")
             [] phase \in {"open", "channel"} /\ frame = "Close" ->
                  Answers(n, <<"CloseOk">>, "gone")
             [] phase = "closing" /\ frame = "CloseOk" -> Answers(n, <<>>, "gone")
             [] OTHER -> Answers(n, <<>>, phase)
        /\ UNCHANGED <<manager, client, app>>

BrokerCloses(n) ==
    /\ BrokerMayClose /\ session[n].broker \in {"open", "channel"}
    /\ session[n].socket = "made"
    /\ session' = [session EXCEPT ![n].inbox = Append(@, "ConnectionForced"),
                                  ![n].broker = "closing"]
    /\ UNCHANGED <<manager, client, app>>

\* Nothing passes any more, until the loss is noticed; what was under way is lost.
SocketStalls(n) ==
    /\ SocketMayDrop /\ session[n].socket = "made"
    /\ session' = [session EXCEPT ![n].socket = "silent", ![n].inbox = <<>>]
    /\ UNCHANGED <<manager, client, app>>

SocketLost(n) ==
    /\ SocketMayDrop /\ session[n].socket \in {"made", "silent"}
    /\ \E k \in 0..Len(session[n].inbox) :
          session' = [session EXCEPT
              ![n].socket = "lost", ![n].outbox = <<>>,
              ![n].inbox = Append(SubSeq(@, 1, k), "Disconnected")]
    /\ UNCHANGED <<manager, client, app>>

---------------------------------------------------------------------------

Call == Connect \/ Declare \/ Close

Proceeds ==
    \/ DialFails \/ Connected \/ DialReturns \/ OpenRaises \/ OpenReturns \/ OpenRefused
    \/ ChannelOpened \/ Reconnect \/ PollAnswered \/ PollRaises \/ CloseReturns
    \/ CloseRaises

Next ==
    \/ Call \/ Proceeds \/ RunReady
    \/ \E n \in DOMAIN session :
          \/ Receive(n) \/ HeartbeatsMissed(n)
          \/ BrokerReads(n) \/ BrokerCloses(n) \/ SocketStalls(n) \/ SocketLost(n)

\* The loop runs, create_connection ends, frames arrive and the broker answers.
Fairness ==
    /\ WF_vars(Proceeds) /\ WF_vars(RunReady)
    /\ \A n \in 1..MaxSessions :
          /\ WF_vars(n \in DOMAIN session /\ Receive(n))
          /\ WF_vars(n \in DOMAIN session /\ BrokerReads(n))

Spec == Init /\ [][Next]_vars /\ Fairness

---------------------------------------------------------------------------
(* Properties *)

\* The client has the Channel0 of the session that was tried last or none, and in a
\* call that waits for the broker the transport of that session; only a session that
\* was answered has a timer.  (_connect, _reset)
TypeOK ==
    /\ manager.state \in ClientState /\ manager.exception \in Error \cup {None}
    /\ client.channel0 \in {None, Newest} /\ client.transport \in {None} \cup 1..Newest
    /\ app.pc \in {"opening", "openingChannel", "channelOpened", "waiting", "closing"} =>
          client.channel0 = Newest /\ client.transport = Newest
    /\ client.lastError \in Error \cup {None}
    /\ \A n \in DOMAIN session :
          session[n].timer => session[n].opened \/ session[n].channel0 # "opening"

\* Nothing that could end the wait is under way: the network is silent, or the
\* session ended in the middle of an opening or a close, which do not look at the
\* client's exception.
Unanswerable ==
    LET s == session[Newest] IN
    /\ app.pc \in {"opening", "openingChannel", "closing", "waiting"}
    /\ \/ s.socket = "silent"
       \/ app.pc # "waiting" /\ s.inbox = <<>> /\ s.broker \in {"closing", "gone"}
       \/ app.pc # "waiting" /\ s.inbox = <<>> /\ s.socket = "lost"

\* A call ends, unless nothing can answer it or connections have no end.
EveryCallEnds ==
    app.pc # "idle" ~> \/ app.pc = "idle" \/ Unanswerable
                       \/ app.pc = "reconnect" /\ Newest = MaxSessions

\* A call that comes back from a connection made in place of another, to raise the
\* error of that one, comes back when the broker has opened a channel on the newest
\* connection, whatever old connections do meanwhile; unless connect() was called on
\* a client whose channel was still noted as open.  (_reconnect, _open_channel)
ReconnectedWithChannel ==
    [][(~ app.stale /\ app.again /\ app.pc = "channelOpened" /\ app'.pc = "idle") =>
          client.transport = Newest /\ session[Newest].broker # "open"]_vars

\* After connect() has failed for a reason it knows, it can be tried again,
\* whatever old connections do.  (connect, _reset)
ConnectCanBeRetried ==
    (app.pc = "idle" /\ app.call = "connect" /\ app.result \in ResetErrors) =>
        IsClosed /\ ~ Refuses(manager, "CONNECTING")

\* "the exception is raised, but the client continues to operate" (README.rst): a
\* client whose newest connection is sound is not closed.
StaysUsable ==
    (/\ app.pc \in {"idle", "waiting"} /\ client.transport = Newest
     /\ session[Newest].socket = "made" /\ session[Newest].broker = "channel")
    => ~ IsClosed
=============================================================================
