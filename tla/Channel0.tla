------------------------------ MODULE Channel0 ------------------------------
(***************************************************************************)
(* aiorabbit/channel0.py: the connection's own protocol.  open() and       *)
(* close() are coroutines waiting on the state that process() sets as the  *)
(* broker's frames arrive; _heartbeat_check is a timer of the event loop.  *)
(* The socket is a FIFO of frames each way; a frame in inbox is on the     *)
(* wire or already handed to call_soon (protocol.py).  The broker follows  *)
(* AMQP 0-9-1.                                                             *)
(***************************************************************************)
EXTENDS Naturals, Sequences

CONSTANTS
    None,
    HeartbeatRequests,  \* the client's heartbeat_interval: None, 0 or ticks
    HeartbeatOffers,    \* the broker's heartbeat in Connection.Tune
    LimitRequests,      \* the client's max_channels; max_frame_size is
    LimitOffers,        \*   negotiated in the same way, one stands for both
    SocketMayDrop,      \* whether the network may fail
    MaxUnsolicited,     \* bound: frames the broker sends of its own accord
    MaxSilence          \* bound: ticks of silence that are told apart

ASSUME Channel0Assumption ==
    /\ None \notin Nat
    /\ HeartbeatRequests \subseteq Nat \cup {None}
    /\ HeartbeatOffers \subseteq Nat
    /\ LimitRequests \subseteq Nat /\ LimitOffers \subseteq Nat
    /\ MaxUnsolicited \in Nat /\ MaxSilence \in Nat
    /\ \A h \in HeartbeatRequests \cup HeartbeatOffers : h # None => 3 * h < MaxSilence

---------------------------------------------------------------------------
(* The states and their transitions *)

Transitions ==
    [UNINITIALIZED        |-> {"PROTOCOL_HEADER_SENT"},
     EXCEPTION            |-> {"CLOSE_SENT"},
     PROTOCOL_HEADER_SENT |-> {"START_RECEIVED"},
     START_RECEIVED       |-> {"STARTOK_SENT"},
     STARTOK_SENT         |-> {"TUNE_RECEIVED", "CLOSE_RECEIVED"},
     TUNE_RECEIVED        |-> {"TUNEOK_SENT"},
     TUNEOK_SENT          |-> {"OPEN_SENT", "CLOSE_RECEIVED"},
     OPEN_SENT            |-> {"OPENOK_RECEIVED", "CLOSE_RECEIVED"},
     OPENOK_RECEIVED      |-> {"BLOCKED_RECEIVED", "HEARTBEAT_RECEIVED",
                               "CLOSE_RECEIVED", "CLOSE_SENT"},
     CLOSE_RECEIVED       |-> {"CLOSEOK_SENT"},
     CLOSE_SENT           |-> {"CLOSEOK_RECEIVED"},
     CLOSEOK_RECEIVED     |-> {"PROTOCOL_HEADER_SENT"},
     CLOSEOK_SENT         |-> {"PROTOCOL_HEADER_SENT"},
     BLOCKED_RECEIVED     |-> {"UNBLOCKED_RECEIVED", "CLOSE_RECEIVED",
                               "HEARTBEAT_RECEIVED"},
     UNBLOCKED_RECEIVED   |-> {"CLOSE_RECEIVED", "HEARTBEAT_RECEIVED"},
     HEARTBEAT_RECEIVED   |-> {"HEARTBEAT_SENT", "BLOCKED_RECEIVED",
                               "UNBLOCKED_RECEIVED", "CLOSE_RECEIVED"},
     HEARTBEAT_SENT       |-> {"HEARTBEAT_RECEIVED", "BLOCKED_RECEIVED",
                               "UNBLOCKED_RECEIVED", "CLOSE_RECEIVED", "CLOSE_SENT"}]

SM == INSTANCE StateManager
      WITH State <- DOMAIN Transitions, Waiter <- {"open", "close"},
           UNINITIALIZED <- "UNINITIALIZED", EXCEPTION <- "EXCEPTION"

Error == {"StateTransitionError", "ClientNegotiationException",
          "AIORabbitException", "CallbackError"}

\* The state process() sets first for a frame.
EntersOn ==
    [Start     |-> "START_RECEIVED",    Tune      |-> "TUNE_RECEIVED",
     OpenOk    |-> "OPENOK_RECEIVED",   Blocked   |-> "BLOCKED_RECEIVED",
     Unblocked |-> "UNBLOCKED_RECEIVED", Close    |-> "CLOSE_RECEIVED",
     CloseOk   |-> "CLOSEOK_RECEIVED",  Heartbeat |-> "HEARTBEAT_RECEIVED"]

\* Mutant: open() does not expect to be refused.
OpenWaitsOnOpenOk == <<"OPENOK_RECEIVED">>

OpenWaitsOn == <<"OPENOK_RECEIVED", "CLOSEOK_SENT">>

\* Mutant: close() waits on the state it has set, not on the answer.
CloseWaitsOnSent == <<"CLOSE_SENT">>

CloseWaitsOn == <<"CLOSEOK_RECEIVED">>
ClosedStates == {"CLOSEOK_RECEIVED", "CLOSEOK_SENT", "EXCEPTION"}

VARIABLES
    manager,   \* Channel0 as a StateManager
    settings,  \* _heartbeat_interval and max_channels
    timer,     \* _heartbeat_timer: ticks until the check, None when not armed
    silence,   \* ticks since _last_heartbeat, None while that is 0
    blocked,   \* the blocked event shared with the client
    task,      \* the coroutines, and whether a callback of the client raised
    reported,  \* what _on_remote_close was called for
    transport, \* "open", "closed" by the client or "lost"
    inbox,     \* frames to the client
    outbox,    \* frames to the broker
    broker     \* the broker's side of the connection

client == <<manager, settings, timer, silence, blocked, task, reported>>
network == <<transport, inbox, outbox>>
vars == <<client, network, broker>>

Init ==
    /\ manager = SM!NewManager
    /\ settings \in [heartbeat : HeartbeatRequests, limit : LimitRequests]
    /\ timer = None /\ silence = None
    /\ blocked = FALSE
    /\ task = [open |-> "idle", close |-> "idle", orderly |-> FALSE, stray |-> FALSE]
    /\ reported = {}
    /\ transport = "open" /\ inbox = <<>> /\ outbox = <<>>
    /\ broker = [phase |-> "idle", blocked |-> FALSE, unsolicited |-> 0,
                 accepted |-> FALSE, agreed |-> None, offered |-> None]

---------------------------------------------------------------------------
(* Helpers *)

Frame(type) == [type |-> type]
Types(frames) == {frames[i].type : i \in DOMAIN frames}

\* transport.write on a transport that is gone is dropped.
Write(frames) ==
    outbox' = IF transport = "open" THEN outbox \o frames ELSE outbox

\* One _set_state call, in a callback or in a coroutine that the table allows.
Enter(m, state, exc) == SM!SetState(m, state, exc, "StateTransitionError")
EnterAll(m, first, second) == Enter(Enter(m, first, None), second, None)

IsClosed == manager.state \in ClosedStates
Armed == timer # None

Smaller(a, b) == IF a <= b THEN a ELSE b

\* Mutant: zero, which stands for no limit, wins the negotiation.
NegotiateSmaller(requested, offered) == Smaller(requested, offered)

\* _negotiate: zero means no limit.
Negotiate(requested, offered) ==
    IF Smaller(requested, offered) # 0 THEN Smaller(requested, offered)
    ELSE IF requested # 0 THEN requested ELSE offered

---------------------------------------------------------------------------
(* process(): one action per frame *)

Takes(type) ==
    /\ inbox # <<>> /\ Head(inbox).type = type
    /\ inbox' = Tail(inbox)

Accepts(type) == Takes(type) /\ ~ SM!Refuses(manager, EntersOn[type], None)

\* The first _set_state refuses: the rest of the handler does not run and the
\* loop hands the refusal to _on_exception, which is this manager's own.
ReceiveRefused ==
    \E type \in DOMAIN EntersOn :
        /\ Takes(type)
        /\ SM!Refuses(manager, EntersOn[type], None)
        /\ manager' = SM!SetStateInCallback(manager, EntersOn[type], None,
                                            "StateTransitionError")
        /\ UNCHANGED <<settings, timer, silence, blocked, task, reported,
                       transport, outbox, broker>>

\* _process_start
ReceiveStart ==
    /\ Accepts("Start")
    /\ LET started == Enter(manager, "START_RECEIVED", None)
       IN  IF Head(inbox).supported
           THEN /\ Write(<<Frame("StartOk")>>)
                /\ manager' = Enter(started, "STARTOK_SENT", None)
                /\ UNCHANGED transport
           ELSE /\ transport' = "closed"
                /\ manager' = Enter(started, "EXCEPTION", "ClientNegotiationException")
                /\ UNCHANGED outbox
    /\ UNCHANGED <<settings, timer, silence, blocked, task, reported, broker>>

\* _process_tune
ReceiveTune ==
    /\ Accepts("Tune")
    /\ LET tune == Head(inbox)
           agreed == [heartbeat |-> IF settings.heartbeat = None THEN tune.heartbeat
                                    ELSE settings.heartbeat,
                      limit     |-> Negotiate(settings.limit, tune.limit)]
       IN  /\ settings' = agreed
           /\ Write(<<[type |-> "TuneOk", settings |-> agreed], Frame("Open")>>)
    /\ manager' = Enter(EnterAll(manager, "TUNE_RECEIVED", "TUNEOK_SENT"),
                        "OPEN_SENT", None)
    /\ UNCHANGED <<timer, silence, blocked, task, reported, transport, broker>>

ReceiveOpenOk ==
    /\ Accepts("OpenOk")
    /\ manager' = Enter(manager, "OPENOK_RECEIVED", None)
    /\ UNCHANGED <<settings, timer, silence, blocked, task, reported,
                   transport, outbox, broker>>

\* Mutant: Unblocked leaves the event set.
ReceiveBlockedOnce(type) ==
    /\ Accepts(type)
    /\ manager' = Enter(manager, EntersOn[type], None)
    /\ blocked' = TRUE
    /\ UNCHANGED <<settings, timer, silence, task, reported, transport, outbox, broker>>

\* Connection.Blocked sets the event, Connection.Unblocked clears it.
ReceiveBlocked(type) ==
    /\ Accepts(type)
    /\ manager' = Enter(manager, EntersOn[type], None)
    /\ blocked' = (type = "Blocked")
    /\ UNCHANGED <<settings, timer, silence, task, reported, transport, outbox, broker>>

\* Mutant: the client is not told.
ReceiveCloseQuietly ==
    /\ Accepts("Close")
    /\ Write(<<Frame("CloseOk")>>)
    /\ manager' = EnterAll(manager, "CLOSE_RECEIVED", "CLOSEOK_SENT")
    /\ UNCHANGED <<settings, timer, silence, blocked, task, reported, transport, broker>>

ReceiveClose ==
    /\ Accepts("Close")
    /\ Write(<<Frame("CloseOk")>>)
    /\ manager' = EnterAll(manager, "CLOSE_RECEIVED", "CLOSEOK_SENT")
    /\ reported' = reported \cup {"closed by broker"}
    /\ UNCHANGED <<settings, timer, silence, blocked, task, transport, broker>>

ReceiveCloseOk ==
    /\ Accepts("CloseOk")
    /\ manager' = Enter(manager, "CLOSEOK_RECEIVED", None)
    /\ UNCHANGED <<settings, timer, silence, blocked, task, reported,
                   transport, outbox, broker>>

ReceiveHeartbeat ==
    /\ Accepts("Heartbeat")
    /\ silence' = 0
    /\ Write(<<Frame("Heartbeat")>>)
    /\ manager' = EnterAll(manager, "HEARTBEAT_RECEIVED", "HEARTBEAT_SENT")
    /\ UNCHANGED <<settings, timer, blocked, task, reported, transport, broker>>

\* Any other frame on channel 0.
ReceiveOther ==
    /\ Takes("Other")
    /\ manager' = Enter(manager, "EXCEPTION", "AIORabbitException")
    /\ UNCHANGED <<settings, timer, silence, blocked, task, reported,
                   transport, outbox, broker>>

\* A frame on another channel: Client._on_frame calls update_last_heartbeat.
ReceiveTraffic ==
    /\ Takes("Traffic")
    /\ silence' = 0
    /\ UNCHANGED <<manager, settings, timer, blocked, task, reported,
                   transport, outbox, broker>>

Receive ==
    \/ ReceiveRefused \/ ReceiveStart \/ ReceiveTune \/ ReceiveOpenOk
    \/ (\E type \in {"Blocked", "Unblocked"} : ReceiveBlocked(type))
    \/ ReceiveClose \/ ReceiveCloseOk \/ ReceiveHeartbeat
    \/ ReceiveOther \/ ReceiveTraffic

\* Some other callback of the loop raises, say a user's on_message: the loop's
\* exception handler is the one of the manager made last, this one.
CallbackRaises ==
    /\ ~ task.stray
    /\ task' = [task EXCEPT !.stray = TRUE]
    /\ manager' = SM!OnException(manager, "CallbackError")
    /\ UNCHANGED <<settings, timer, silence, blocked, reported, network, broker>>

---------------------------------------------------------------------------
(* open() and close() *)

Goes(name, pc) == task' = [task EXCEPT ![name] = pc]

\* A coroutine writes, sets a state and waits on others; a refusal is raised to
\* it after the frame was written.
SetAndWait(name, state, waitsOn) ==
    IF SM!Refuses(manager, state, None)
    THEN manager' = SM!Refuse(manager, "StateTransitionError")
    ELSE manager' = SM!Register(Enter(manager, state, None), name,
                                {waitsOn[i] : i \in DOMAIN waitsOn})

Open ==
    /\ task.open = "idle"
    /\ Write(<<Frame("ProtocolHeader")>>)
    /\ SetAndWait("open", "PROTOCOL_HEADER_SENT", OpenWaitsOn)
    /\ Goes("open", IF SM!Refuses(manager, "PROTOCOL_HEADER_SENT", None)
                    THEN "raised" ELSE "waiting")
    /\ UNCHANGED <<settings, timer, silence, blocked, reported, transport, inbox,
                   broker>>

\* Mutant: zero is taken for an interval, and the timer is early.
ArmTimerEarly ==
    timer' = IF settings.heartbeat = None THEN timer ELSE settings.heartbeat - 1

\* The timer is armed whether or not the connection was accepted.
ArmTimer ==
    timer' = IF settings.heartbeat \in {None, 0} THEN timer ELSE settings.heartbeat

OpenReturns ==
    /\ task.open = "waiting"
    /\ \E state \in {"OPENOK_RECEIVED", "CLOSEOK_SENT"} :
          /\ SM!PollReturns(manager, "open", OpenWaitsOn, state)
          /\ Goes("open", IF state = "OPENOK_RECEIVED" THEN "true" ELSE "false")
    /\ ArmTimer
    /\ manager' = SM!AfterPoll(manager, "open")
    /\ UNCHANGED <<settings, silence, blocked, reported, network, broker>>

OpenRaises ==
    /\ task.open = "waiting"
    /\ SM!PollRaises(manager, "open")
    /\ Goes("open", "raised")
    /\ manager' = SM!AfterPoll(manager, "open")
    /\ UNCHANGED <<settings, timer, silence, blocked, reported, network, broker>>

\* Client.close calls it when there is a transport and the connection is not
\* closed.  Once a channel is open, Client.close awaits Channel.Close between
\* that check and this call, and Channel0 may fail meanwhile; a close that was
\* reported meanwhile leaves the client in a state that refuses CLOSING.  A
\* second Client.close does not get here: the client is then CLOSING.
MayClose ==
    /\ task.open # "idle" /\ task.close = "idle"
    /\ reported = {}
    /\ task.open = "true" \/ ~ IsClosed

\* Mutant: the timer survives.
CloseKeepsTimer ==
    /\ MayClose
    /\ Write(<<Frame("Close")>>)
    /\ SetAndWait("close", "CLOSE_SENT", CloseWaitsOn)
    /\ task' = [task EXCEPT !.close = IF SM!Refuses(manager, "CLOSE_SENT", None)
                                      THEN "raised" ELSE "waiting",
                            !.orderly = task.open # "waiting"]
    /\ UNCHANGED <<settings, timer, silence, blocked, reported, transport, inbox,
                   broker>>

Close ==
    /\ MayClose
    /\ timer' = None
    /\ Write(<<Frame("Close")>>)
    /\ SetAndWait("close", "CLOSE_SENT", CloseWaitsOn)
    /\ task' = [task EXCEPT !.close = IF SM!Refuses(manager, "CLOSE_SENT", None)
                                      THEN "raised" ELSE "waiting",
                            !.orderly = task.open # "waiting"]
    /\ UNCHANGED <<settings, silence, blocked, reported, transport, inbox, broker>>

CloseReturns ==
    /\ task.close = "waiting"
    /\ SM!PollReturns(manager, "close", CloseWaitsOn, "CLOSEOK_RECEIVED")
    /\ Goes("close", "returned")
    /\ manager' = SM!AfterPoll(manager, "close")
    /\ UNCHANGED <<settings, timer, silence, blocked, reported, network, broker>>

CloseRaises ==
    /\ task.close = "waiting"
    /\ SM!PollRaises(manager, "close")
    /\ Goes("close", "raised")
    /\ manager' = SM!AfterPoll(manager, "close")
    /\ UNCHANGED <<settings, timer, silence, blocked, reported, network, broker>>

OpenEnds == OpenReturns \/ OpenRaises
CloseEnds == CloseReturns \/ CloseRaises

RunReady ==
    /\ manager.ready # <<>>
    /\ manager' = SM!RunCallbacks(manager)
    /\ UNCHANGED <<settings, timer, silence, blocked, task, reported,
                   network, broker>>

---------------------------------------------------------------------------
(* Time and the heartbeat timer *)

\* A tick is much longer than the 1 ms poll: the loop has nothing left to do
\* before it, and the timer is not late.  Time matters while the timer is armed.
LoopIsIdle ==
    /\ manager.ready = <<>> /\ manager.fired = {}
    /\ manager.exception # None => "waiting" \notin {task.open, task.close}

Tick ==
    /\ Armed /\ timer # 0
    /\ LoopIsIdle
    /\ timer' = timer - 1
    /\ silence' = IF silence = None THEN None ELSE Smaller(silence + 1, MaxSilence)
    /\ UNCHANGED <<manager, settings, blocked, task, reported, network, broker>>

Missed(threshold) == silence # None /\ silence > threshold

\* Mutant: a broker that was heard of late is given one more interval.
HeartbeatCheckLate ==
    /\ timer = 0
    /\ IF Missed(3 * settings.heartbeat)
       THEN timer' = None /\ reported' = reported \cup {"missed heartbeats"}
       ELSE timer' = settings.heartbeat /\ UNCHANGED reported
    /\ UNCHANGED <<manager, settings, silence, blocked, task, network, broker>>

\* _heartbeat_check
HeartbeatCheck ==
    /\ timer = 0
    /\ IF Missed(2 * settings.heartbeat)
       THEN timer' = None /\ reported' = reported \cup {"missed heartbeats"}
       ELSE timer' = settings.heartbeat /\ UNCHANGED reported
    /\ UNCHANGED <<manager, settings, silence, blocked, task, network, broker>>

---------------------------------------------------------------------------
(* The broker and the network, external *)

Sends(frames) == inbox' = IF transport = "open" THEN inbox \o frames ELSE inbox

BrokerGoes(phase) == broker' = [broker EXCEPT !.phase = phase]

BrokerAnswersHeader ==
    /\ \E supported \in BOOLEAN :
           Sends(<<[type |-> "Start", supported |-> supported]>>)
    /\ BrokerGoes("starting")

BrokerAnswersStartOk ==
    \/ \E limit \in LimitOffers, heartbeat \in HeartbeatOffers :
          /\ Sends(<<[type |-> "Tune", limit |-> limit, heartbeat |-> heartbeat]>>)
          /\ broker' = [broker EXCEPT !.phase = "tuning",
                           !.offered = [limit |-> limit, heartbeat |-> heartbeat]]
    \/ Sends(<<Frame("Close")>>) /\ BrokerGoes("closing")

BrokerAnswersOpen ==
    \/ /\ Sends(<<Frame("OpenOk")>>)
       /\ broker' = [broker EXCEPT !.phase = "open", !.accepted = TRUE]
    \/ Sends(<<Frame("Close")>>) /\ BrokerGoes("closing")

\* A broker that is closing discards everything but Close and CloseOk.
BrokerReads ==
    /\ outbox # <<>>
    /\ outbox' = Tail(outbox)
    /\ LET frame == Head(outbox) IN
       CASE frame.type = "ProtocolHeader" -> BrokerAnswersHeader
         [] frame.type = "StartOk" /\ broker.phase = "starting" -> BrokerAnswersStartOk
         [] frame.type = "TuneOk" /\ broker.phase = "tuning" ->
              /\ broker' = [broker EXCEPT !.phase = "tuned", !.agreed = frame.settings]
              /\ UNCHANGED inbox
         [] frame.type = "Open" /\ broker.phase = "tuned" -> BrokerAnswersOpen
         [] frame.type = "Close" /\ broker.phase # "closed" ->
              Sends(<<Frame("CloseOk")>>) /\ BrokerGoes("closed")
         [] frame.type = "CloseOk" /\ broker.phase = "closing" ->
              BrokerGoes("closed") /\ UNCHANGED inbox
         [] OTHER -> UNCHANGED <<inbox, broker>>
    /\ UNCHANGED <<client, transport>>

\* What the broker says of its own accord.  Frames on other channels come once
\* the client has opened one.
BrokerSpeaks ==
    /\ broker.phase = "open" /\ transport = "open"
    /\ broker.unsolicited < MaxUnsolicited
    /\ \E type \in {"Heartbeat", "Traffic", "Other", "Blocked", "Unblocked", "Close"} :
          /\ type = "Traffic" => task.open = "true"
          /\ type = "Blocked" => ~ broker.blocked
          /\ type = "Unblocked" => broker.blocked
          /\ Sends(<<Frame(type)>>)
          /\ broker' = [broker EXCEPT
                !.unsolicited = @ + 1,
                !.blocked = IF type \in {"Blocked", "Unblocked"} THEN ~ @ ELSE @,
                !.phase = IF type = "Close" THEN "closing" ELSE @]
    /\ UNCHANGED <<client, transport, outbox>>

\* The socket is lost with what was on the wire.  Client._on_disconnected sets
\* the client's exception, and nothing of Channel0.
SocketLost ==
    /\ SocketMayDrop /\ transport = "open"
    /\ transport' = "lost"
    /\ \E n \in 0..Len(inbox) : inbox' = SubSeq(inbox, 1, n)
    /\ outbox' = <<>>
    /\ UNCHANGED <<client, broker>>

---------------------------------------------------------------------------

Next ==
    \/ Receive \/ CallbackRaises
    \/ Open \/ OpenEnds \/ Close \/ CloseEnds \/ RunReady
    \/ Tick \/ HeartbeatCheck
    \/ BrokerReads \/ BrokerSpeaks \/ SocketLost

\* The loop runs its callbacks and wakes its sleepers; while there is a socket
\* its frames arrive and the broker answers what it is sent.
Fairness ==
    /\ WF_vars(RunReady) /\ WF_vars(OpenEnds) /\ WF_vars(CloseEnds)
    /\ WF_vars(Receive) /\ WF_vars(BrokerReads)

Spec == Init /\ [][Next]_vars /\ Fairness

---------------------------------------------------------------------------
(* Properties *)

Settings == [heartbeat : Nat \cup {None}, limit : Nat]

\* The type invariant: of the client, and of what it and the broker exchange.
TypeOK ==
    /\ manager \in SM!ManagerWith(Error)
    /\ settings \in Settings
    /\ timer \in Nat \cup {None}
    /\ silence \in (0..MaxSilence) \cup {None}
    /\ blocked \in BOOLEAN
    /\ task \in [open    : {"idle", "waiting", "true", "false", "raised"},
                 close   : {"idle", "waiting", "returned", "raised"},
                 orderly : BOOLEAN, stray : BOOLEAN]
    /\ reported \subseteq {"closed by broker", "missed heartbeats"}
    /\ transport \in {"open", "closed", "lost"}
    /\ \A frame \in {inbox[i] : i \in DOMAIN inbox} :
           frame.type = "Tune" => frame.limit \in Nat /\ frame.heartbeat \in Nat

\* While the connection is in use, a broker that was heard of once and then
\* falls silent is reported within three intervals of its last heartbeat or
\* frame, whatever the timer and the frames did in between.
\* (update_last_heartbeat, _heartbeat_check, open)
PeerLossReported ==
    (/\ task.open = "true" /\ task.close = "idle"
     /\ settings.heartbeat # 0 /\ silence # None)
    => \/ silence <= 3 * settings.heartbeat
       \/ "missed heartbeats" \in reported

\* open() answers True only for a connection the broker accepted, and then both
\* sides hold the same settings, within the broker's limit.  (open, _negotiate,
\* _process_tune)
AcceptedAsAgreed ==
    task.open = "true" =>
        /\ broker.accepted
        /\ broker.agreed = settings
        /\ broker.offered.limit # 0 => settings.limit \in 1..broker.offered.limit

\* open() answers False only when the client was told why: Client._connect then
\* waits for the exception that _on_remote_close recorded.  (open, process)
RefusalIsReported ==
    task.open = "false" => "closed by broker" \in reported

\* With no Blocked or Unblocked on its way, the client takes itself for blocked
\* exactly when the broker blocks it, as long as it accepts frames.  (process)
BlockedAgrees ==
    (/\ manager.state \notin ClosedStates \cup {"CLOSE_SENT"}
     /\ {"Blocked", "Unblocked"} \cap Types(inbox) = {}
     /\ transport = "open")
    => blocked = broker.blocked

\* After a close() that was called with open() behind it no timer is left that
\* would report missed heartbeats on a connection nobody has.  (close)
TimerStops ==
    task.close # "idle" /\ task.orderly => ~ Armed

\* Whatever frames still arrive, a closed connection stays closed: is_closed
\* turns false again only by a close().  (_STATE_TRANSITIONS, process)
ClosedStaysClosed ==
    [][IsClosed /\ task'.close = task.close => IsClosed']_vars

\* While the socket holds, open() returns or raises.
OpenFinishes == task.open = "waiting" ~> task.open # "waiting" \/ transport = "lost"

\* While the socket holds, close() returns or raises, also when the broker's
\* own frames cross it, if it was called with open() behind it.  Otherwise
\* open() may take the one exception that both are waiting for.
CloseFinishes ==
    (task.close = "waiting" /\ task.orderly)
        ~> task.close # "waiting" \/ transport = "lost"
=============================================================================
