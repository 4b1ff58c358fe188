------------------------ MODULE ConsumersCareful_proofs ------------------------
(***************************************************************************)
(* Proofs about Consumers for a careful application, which makes one call  *)
(* at a time, settles each message before its next call, and calls only    *)
(* when no message can be delivered to it: that it is served, that the     *)
(* broker forgets no message it has not settled, and that each message     *)
(* comes to the call it was sent for.                                      *)
(***************************************************************************)
EXTENDS Consumers_proofs, TLAPS

---------------------------------------------------------------------------
(* The invariant of a careful application *)

Busy(r) == r.pc \notin {"idle", "iterating"}

\* A careful application makes one call at a time, so that nobody queues for the lock.
OneAtATime ==
    /\ \A t, u \in Task : Busy(task[t]) /\ Busy(task[u]) => t = u
    /\ \A t \in Task : task[t].pc # "queued"

\* Delivery tags: settled on the wire, held by the application, and under way to it.
SettleTypes == DOMAIN SettledState
Settling(n) == \E i \in DOMAIN outbox : outbox[i].type \in SettleTypes /\ outbox[i].tag = n
Kept(n) == \E msg \in app.held : msg.delivery.id = <<broker.channel, n>>
Underway == {n \in DOMAIN broker.unacked : ~ Kept(n) /\ ~ Settling(n)}

\* The consumer of the broker has a message that is held, so it is sent no other.
Filled == \A tag \in broker.consumers : \E msg \in app.held : msg.delivery.for = tag

\* The broker numbers its messages, and has one consumer, with one message at most.
BrokerCounts ==
    /\ \A n \in DOMAIN broker.unacked : /\ n \in 1..broker.sent
                                        /\ broker.unacked[n].id = <<broker.channel, n>>
                                        /\ Begun(task, broker.unacked[n].for)
    /\ \A x, y \in broker.consumers : x = y
    /\ \A x \in broker.consumers : Begun(task, x)
    /\ \A n, o \in DOMAIN broker.unacked :
          broker.unacked[n].for = broker.unacked[o].for
             /\ broker.unacked[n].for \in broker.consumers => n = o
    /\ broker.phase # "open" => broker.consumers = {} /\ DOMAIN broker.unacked = {}

\* What is held, of the channel the broker has, the broker waits to be settled.
HeldIsUnacked ==
    /\ \A msg \in app.held :
          LET d == msg.delivery IN
          /\ d.id[1] <= broker.channel /\ Begun(task, d.for)
          /\ d.for \in broker.consumers => d.id[1] = broker.channel
          /\ d.id[1] = broker.channel /\ broker.phase = "open"
                => /\ d.id[2] \in DOMAIN broker.unacked /\ broker.unacked[d.id[2]] = d
                   /\ ~ Settling(d.id[2])
    /\ \A msg, other \in app.held : msg.delivery.id = other.delivery.id => msg = other

\* What is settled on the wire the application has settled, once, and the broker
\* waits for.
SettlesAreMeant ==
    /\ broker.settled \subseteq app.settled
    /\ \A i \in DOMAIN outbox : outbox[i].type \in SettleTypes =>
          /\ ~ outbox[i].multiple /\ outbox[i].tag \in DOMAIN broker.unacked
          /\ <<broker.channel, outbox[i].tag>> \in app.settled
    /\ \A i, j \in DOMAIN outbox :
          outbox[i].type \in SettleTypes /\ outbox[j].type \in SettleTypes
             /\ outbox[i].tag = outbox[j].tag => i = j

\* One message is under way at most: for a get, or for the consumer.
OneUnderway ==
    /\ \A n, o \in Underway : n = o
    /\ \A n \in Underway : IF broker.unacked[n].get THEN Filled
                           ELSE broker.unacked[n].for \in broker.consumers

\* The message that may be settled is the last one, and nothing comes after it yet.
FreshIsLast ==
    app.fresh # None =>
        /\ app.fresh \in app.held /\ app.fresh.delivery.id[1] = broker.channel
        /\ broker.phase = "open" /\ Filled /\ Underway = {}
        /\ manager.state = "MESSAGE_ASSEMBLED"

\* The tag of a generator is registered, with its queue.
Registered(registry, call, tag, m) ==
    tag \in DOMAIN registry /\ registry[tag] = [call |-> call, method |-> m]
TagsAreRegistered ==
    \A t \in Task :
        /\ task[t].pc = "iterating" => /\ Registered(consumers, Call(t), task[t].tag, "consume")
                                      /\ Call(t) \in DOMAIN futures.done
        /\ Busy(task[t]) /\ Consumes(task[t].call) /\ Call(t) \in DOMAIN futures.done
              => Registered(consumers, Call(t), futures.done[Call(t)].tag, task[t].call)
        /\ \A i \in DOMAIN futures.pending : futures.pending[i].call = Call(t)
              => Consumes(task[t].call) /\ futures.pending[i].method = task[t].call

Ledger == BrokerCounts /\ HeldIsUnacked /\ SettlesAreMeant /\ OneUnderway
Books == Ledger /\ FreshIsLast /\ TagsAreRegistered

---------------------------------------------------------------------------
(* Where the message is that is under way *)

Calm == {"CHANNEL_OPENOK_RECEIVED", "BASIC_CONSUMEOK_RECEIVED", "BASIC_CANCELOK_RECEIVED",
         "BASIC_GETEMPTY_RECEIVED", "QUEUE_DECLAREOK_RECEIVED", "BASIC_ACK_SENT",
         "BASIC_NACK_SENT", "BASIC_REJECT_SENT", "MESSAGE_ASSEMBLED"}

Collecting == message # None /\ Partial(workload, LastTaken(message))

\* The states in which the next part of a message is taken.
TakingStates(msg) ==
    IF msg.header = None THEN {"BASIC_DELIVER_RECEIVED", "BASIC_GETOK_RECEIVED"}
    ELSE IF msg.bodies = <<>> THEN {"CONTENT_HEADER_RECEIVED"} ELSE {"CONTENT_BODY_RECEIVED"}

IsUnderway(d) ==
    /\ d.id[1] = broker.channel /\ d.id[2] \in Underway /\ broker.unacked[d.id[2]] = d

Gets(t) == task[t].call = "basic_get" /\ task[t].pc \in {"waiting", "future"}

\* A message of a get is the answer to the call that is made.
ForItsGet(d) ==
    d.get => \E t \in Task : /\ Gets(t) /\ Call(t) = d.for /\ futures.get = d.for
                             /\ d.for \notin DOMAIN futures.done

MailIsEmpty == \A call \in DOMAIN app.mailbox : app.mailbox[call] = <<>>
NoneGot == \A t \in Task : Gets(t) /\ Call(t) \in DOMAIN futures.done
                              => futures.done[Call(t)].message = None

BeginsFirst(in, n) == \A i \in DOMAIN in : i >= n => /\ in[i].type \in Content
                                                     /\ Begins(in[i]) => i = n

Empty == inbox = <<>> /\ Underway = {} /\ MailIsEmpty /\ NoneGot /\ manager.state \in Calm
Coming ==
    /\ inbox # <<>> /\ BeginsFirst(inbox, 1) /\ inbox[1].type = "Deliver"
    /\ ~ inbox[1].delivery.get /\ IsUnderway(inbox[1].delivery)
    /\ manager.state \in Calm /\ MailIsEmpty /\ NoneGot
Taking ==
    /\ Collecting /\ BeginsFirst(inbox, 1) /\ IsUnderway(message.delivery)
    /\ ForItsGet(message.delivery) /\ manager.state \in TakingStates(message)
    /\ MailIsEmpty /\ NoneGot
\* An empty message has no body frame that completes it.
Stuck ==
    /\ inbox = <<>> /\ message # None /\ ~ Collecting /\ IsUnderway(message.delivery)
    /\ ForItsGet(message.delivery) /\ manager.state = "CONTENT_HEADER_RECEIVED"
    /\ MailIsEmpty /\ NoneGot
Mailed ==
    /\ inbox = <<>> /\ manager.state = "MESSAGE_ASSEMBLED" /\ NoneGot
    /\ \E call \in DOMAIN app.mailbox :
          /\ Len(app.mailbox[call]) = 1
          /\ ~ app.mailbox[call][1].delivery.get /\ IsUnderway(app.mailbox[call][1].delivery)
          /\ \A other \in DOMAIN app.mailbox \ {call} : app.mailbox[other] = <<>>
Got ==
    /\ inbox = <<>> /\ manager.state = "MESSAGE_ASSEMBLED" /\ MailIsEmpty
    /\ \E t \in Task :
          LET msg == futures.done[Call(t)].message IN
          /\ Gets(t) /\ Call(t) \in DOMAIN futures.done /\ msg # None
          /\ msg.delivery.get /\ Call(t) = msg.delivery.for /\ IsUnderway(msg.delivery)

Stage == Empty \/ Coming \/ Taking \/ Stuck \/ Mailed \/ Got

---------------------------------------------------------------------------
(* The calls, one at a time, and the broker *)

\* The events of a wait of task t in the manager m, in a call of c: none is set, or that
\* of the state s is, or will be.
Quiet(m) == m.waits = {} /\ m.ready = <<>> /\ m.fired = {}
Listens(m, t, c) ==
    m.waits = Range(WaitsOn(c)) \X {t} /\ m.ready = <<>> /\ m.fired = {}
Hears(m, t, c, s) == /\ m.waits = Range(WaitsOn(c)) \X {t}
                     /\ \/ m.ready = <<{<<s, t>>}>> /\ m.fired = {}
                        \/ m.ready = <<>> /\ m.fired = {<<s, t>>}
Unheard(t) == Listens(manager, t, task[t].call)
Heard(t, s) == Hears(manager, t, task[t].call, s)
NoneWaits == Quiet(manager)

Answers(m) == CASE Consumes(m)          -> {"BASIC_CONSUMEOK_RECEIVED"}
                [] m = "basic_cancel"   -> {"BASIC_CANCELOK_RECEIVED"}
                [] m = "basic_get"      -> {"BASIC_GETEMPTY_RECEIVED", "BASIC_GETOK_RECEIVED"}
                [] m = "queue_declare"  -> {"QUEUE_DECLAREOK_RECEIVED"}

Settles(out) == \A i \in DOMAIN out : out[i].type \in SettleTypes

\* The futures of the consumes that are not answered; t is the one that waits.
NonePends == ConsumesAreGranted => futures.pending = <<>>
OnePends(t) == IF Consumes(task[t].call)
               THEN /\ ConsumesAreGranted => Len(futures.pending) = 1
                    /\ \E i \in DOMAIN futures.pending : futures.pending[i].call = Call(t)
               ELSE NonePends

ChannelIsOpen == session.channelOpen /\ session.lastError = None /\ broker.phase = "open"
KnownToClient == broker.consumers \subseteq DOMAIN consumers

\* No request is under way.
AtRest(t) == task[t].pc \in {"idle", "iterating", "future"}
HasHeard(t) ==
    /\ task[t].pc = "waiting" /\ \E s \in Answers(task[t].call) : Heard(t, s)
    /\ Consumes(task[t].call) \/ (Filled /\ app.fresh = None)
    /\ task[t].call = "queue_declare" => last = "DeclareOk" /\ Empty
Serving ==
    /\ ChannelIsOpen /\ KnownToClient /\ NonePends /\ Settles(outbox) /\ Stage
    /\ \/ NoneWaits /\ \A t \in Task : AtRest(t)
       \/ \E t \in Task : HasHeard(t)

\* A request of t is under way, and nothing else.
NewTo(call) ==
    /\ call \notin broker.consumers /\ \A msg \in app.held : msg.delivery.for # call
    /\ \A n \in DOMAIN broker.unacked : broker.unacked[n].for # call
Ready(t) ==
    LET m == task[t].call IN
    /\ Consumes(m) => DOMAIN consumers = {} /\ Call(t) \notin DOMAIN futures.done
    /\ m = "basic_get" => futures.get = Call(t) /\ Call(t) \notin DOMAIN futures.done
    /\ m = "basic_cancel" => /\ task[t].tag \in DOMAIN consumers
                             /\ \A u \in Task : task[u].pc = "iterating"
                                                   => task[u].tag # task[t].tag
Requests(t) ==
    /\ task[t].pc = "waiting" /\ Unheard(t) /\ manager.state = Sent(task[t].call)
    /\ app.fresh = None /\ MailIsEmpty
    /\ session.channelOpen /\ session.lastError = None
    /\ Ready(t) /\ OnePends(t)
Asks(t) ==
    /\ Requests(t) /\ broker.phase = "open" /\ KnownToClient
    /\ inbox = <<>> /\ Underway = {} /\ Filled
    /\ task[t].call \in {"basic_consume", "consume", "basic_get"} => NewTo(Call(t))
    /\ outbox # <<>> /\ outbox[Len(outbox)] = CallFrame(t, task[t].call, task[t].tag)
    /\ \A i \in DOMAIN outbox : i # Len(outbox) => outbox[i].type \in SettleTypes

IsAnswer(t, frame) ==
    LET m == task[t].call IN
    CASE Consumes(m) -> frame = [type |-> "ConsumeOk", tag |-> Call(t)]
      [] m = "basic_cancel" -> frame = [type |-> "CancelOk", tag |-> task[t].tag]
      [] m = "basic_get" ->
            \/ frame.type = "GetEmpty"
            \/ /\ frame.type = "GetOk" /\ frame.delivery.get /\ frame.delivery.for = Call(t)
               /\ IsUnderway(frame.delivery)
      [] m = "queue_declare" -> frame.type = "DeclareOk"
Replied(t) ==
    LET m == task[t].call IN
    /\ Requests(t) /\ broker.phase = "open" /\ outbox = <<>>
    /\ inbox # <<>> /\ IsAnswer(t, inbox[1])
    /\ IF Consumes(m)
       THEN /\ broker.consumers = {Call(t)}
            /\ \/ Len(inbox) = 1 /\ Underway = {}
               \/ /\ Len(inbox) > 1 /\ BeginsFirst(inbox, 2)
                  /\ inbox[2].type = "Deliver" /\ ~ inbox[2].delivery.get
                  /\ IsUnderway(inbox[2].delivery)
       ELSE /\ KnownToClient /\ Filled
            /\ m = "basic_cancel" => task[t].tag \notin broker.consumers
            /\ IF inbox[1].type = "GetOk" THEN BeginsFirst(inbox, 1)
               ELSE Len(inbox) = 1 /\ Underway = {}

\* The broker has refused the request of t.
Refused(t) ==
    /\ Requests(t) /\ task[t].call \in workload.refusals
    /\ broker.phase = "closing" /\ outbox = <<>> /\ inbox = <<[type |-> "Channel.Close"]>>

Closes == /\ ~ session.channelOpen /\ session.lastError = "NotFound"
          /\ app.fresh = None /\ MailIsEmpty /\ NonePends
CloseOkFrame == [type |-> "Channel.CloseOk"]
OpenFrame == [type |-> "Channel.Open"]
ClosedOn(t) ==
    /\ task[t].pc = "waiting" /\ Heard(t, "CHANNEL_CLOSE_RECEIVED")
    /\ manager.state = "CHANNEL_CLOSEOK_SENT" /\ Closes /\ inbox = <<>>
    /\ \/ broker.phase = "closing" /\ outbox = <<CloseOkFrame>>
       \/ broker.phase = "closed" /\ outbox = <<>>
Reopens(t) ==
    /\ task[t].pc = "opening" /\ NoneWaits
    /\ manager.state = "CHANNEL_OPEN_SENT" /\ Closes
    /\ \/ broker.phase = "closing" /\ outbox = <<CloseOkFrame, OpenFrame>> /\ inbox = <<>>
       \/ broker.phase = "closed" /\ outbox = <<OpenFrame>> /\ inbox = <<>>
       \/ /\ broker.phase = "open" /\ outbox = <<>> /\ inbox = <<[type |-> "Channel.OpenOk"]>>
          /\ broker.consumers = {} /\ DOMAIN broker.unacked = {}
Raises(t) ==
    /\ task[t].pc = "raising" /\ NoneWaits
    /\ manager.state = "CHANNEL_OPENOK_RECEIVED"
    /\ session.channelOpen /\ app.fresh = None /\ MailIsEmpty /\ NonePends
    /\ inbox = <<>> /\ outbox = <<>> /\ broker.phase = "open"
    /\ broker.consumers = {} /\ DOMAIN broker.unacked = {}

Working ==
    /\ ~ session.failed /\ manager.exception = None
    /\ \A t \in Task : task[t].result \notin {STE, "AttributeError"}
    /\ Books
    /\ \/ Serving
       \/ \E t \in Task : \/ Asks(t) \/ Replied(t) \/ Refused(t)
                          \/ ClosedOn(t) \/ Reopens(t) \/ Raises(t)

\* BASIC_CANCEL_SENT does not allow the refusal of a cancel.
Broken ==
    /\ "basic_cancel" \in workload.refusals
    /\ session.failed
    /\ broker.phase = "closing" /\ inbox = <<>> /\ outbox = <<>>
    /\ app.fresh = None /\ MailIsEmpty
    /\ \E t \in Task : \/ task[t].pc = "waiting" /\ manager.exception # None
                       \/ task[t].pc = "reconnecting"
    /\ broker.settled \subseteq app.settled

---------------------------------------------------------------------------
(* Whose message it is *)

\* The event of Channel.Close is set for t, or will be.
ClosingIn(m, t) == \/ <<"CHANNEL_CLOSE_RECEIVED", t>> \in m.fired
                   \/ \E i \in DOMAIN m.ready : <<"CHANNEL_CLOSE_RECEIVED", t>> \in m.ready[i]

\* The call of t waits for the message d of a get, and nothing else can end it.
AwaitedBy(t, d) ==
    /\ task[t].call = "basic_get" /\ task[t].pc \in {"waiting", "future", "reconnecting"}
    /\ Call(t) = d.for /\ futures.get = d.for
    /\ d.for \notin DOMAIN futures.done /\ ~ ClosingIn(manager, t)
IsAwaited(d) ==
    /\ \E t \in Task : AwaitedBy(t, d)
    /\ \A i \in DOMAIN inbox : inbox[i].type # "Channel.Close"

GetsComeToTheirCalls ==
    /\ \A i \in DOMAIN inbox : inbox[i].type = "GetOk" => i = 1 /\ IsAwaited(inbox[i].delivery)
    /\ Collecting /\ message.delivery.get => IsAwaited(message.delivery)
    /\ \A i \in DOMAIN inbox : Begins(inbox[i])
          => (inbox[i].delivery.get <=> inbox[i].type = "GetOk")

ConsumesComeToTheirCalls ==
    ConsumesAreGranted =>
        \A i \in DOMAIN inbox : inbox[i].type = "ConsumeOk" =>
            /\ i = 1 /\ futures.pending # <<>> /\ futures.pending[1].call = inbox[i].tag

CallbacksAreOwn ==
    ConsumesAreGranted => \A tag \in DOMAIN consumers : consumers[tag].call = tag

ToAddressee(d, to) == d.get \/ ConsumesAreGranted => to = d.for
MayMail(d, to) == ~ d.get /\ ToAddressee(d, to)
AppAddressed(a) ==
    /\ \A h \in a.handed : ToAddressee(h.message.delivery, h.to)
    /\ \A call \in DOMAIN a.mailbox : \A i \in DOMAIN a.mailbox[call] :
          MayMail(a.mailbox[call][i].delivery, call)
GetsAddressed(done) ==
    \A call \in DOMAIN done :
        DOMAIN done[call] = {"message"} /\ done[call].message # None
           => done[call].message.delivery.get /\ done[call].message.delivery.for = call
AllAddressed == AppAddressed(app) /\ GetsAddressed(futures.done)

\* What is under way comes to the call that waits for it.
ComeToTheirCalls == GetsComeToTheirCalls /\ ConsumesComeToTheirCalls
Addressing == CallbacksAreOwn /\ AllAddressed /\ ComeToTheirCalls

\* Basic.Cancel of the broker, which ends the calls with a RuntimeError, never comes.
NeverCancelled == manager.exception # "RuntimeError"
NoneCancels == \A i \in DOMAIN inbox : inbox[i].type # "Cancel"

\* The invariant of a careful application, and what follows of what it is handed; that
\* the frames come to their calls follows from the first while the socket holds, and has
\* to be kept when it is lost.
CarefulInv ==
    workload.careful =>
        /\ OneAtATime /\ NeverCancelled
        /\ session.transport = "open" => Working \/ Broken
        /\ session.transport = "lost" =>
              NoneCancels /\ outbox = <<>> /\ broker.settled \subseteq app.settled
AddressedInv ==
    workload.careful /\ ~ session.failed =>
        /\ CallbacksAreOwn /\ AllAddressed
        /\ session.transport = "lost" => ComeToTheirCalls

---------------------------------------------------------------------------
(* The manager of a careful client *)

Polled(c) == Answers(c) \cup {"CHANNEL_CLOSE_RECEIVED"}
Parts == {"BASIC_DELIVER_RECEIVED", "CONTENT_HEADER_RECEIVED", "CONTENT_BODY_RECEIVED",
          "MESSAGE_ASSEMBLED", "BASIC_ACK_SENT", "BASIC_NACK_SENT", "BASIC_REJECT_SENT"}

LEMMA WaitedIs ==
    ASSUME NEW c \in DOMAIN Request
    PROVE  /\ Range(WaitsOn(c)) = Polled(c) /\ Sent(c) \in ClientState
           /\ Sent(c) \notin Polled(c) /\ Polled(c) \subseteq ClientState
           /\ Polled(c) \cap Parts = {} /\ "CHANNEL_CLOSE_RECEIVED" \notin Answers(c)
           /\ "CHANNEL_CLOSEOK_SENT" \notin Polled(c)
           /\ Sent(c) \notin ClosedClientStates \cup Calm \cup Parts
<1>1. /\ "CHANNEL_CLOSE_RECEIVED" \in ClientState
      /\ {"BASIC_CONSUMEOK_RECEIVED", "BASIC_CANCELOK_RECEIVED", "BASIC_GETEMPTY_RECEIVED",
          "BASIC_GETOK_RECEIVED", "QUEUE_DECLAREOK_RECEIVED", "BASIC_CONSUME_SENT",
          "BASIC_CANCEL_SENT", "BASIC_GET_SENT", "QUEUE_DECLARE_SENT"} \subseteq ClientState
  BY StatesAre
<1>2. CASE c = "basic_consume" \/ c = "consume"
  <2>1. /\ Request[c] = <<"BASIC_CONSUME_SENT", "BASIC_CONSUMEOK_RECEIVED">>
        /\ Sent(c) = "BASIC_CONSUME_SENT"
        /\ Answers(c) = {"BASIC_CONSUMEOK_RECEIVED"}
    BY <1>2 DEF Sent, Request, Answers, Consumes
  <2>2. Range(WaitsOn(c)) = {"BASIC_CONSUMEOK_RECEIVED", "CHANNEL_CLOSE_RECEIVED"}
    <3> DEFINE w == <<"BASIC_CONSUMEOK_RECEIVED">>
               S == {"BASIC_CONSUMEOK_RECEIVED", "CHANNEL_CLOSE_RECEIVED"}
    <3>1. Tail(Request[c]) = w
      BY <2>1
    <3>2. w \in Seq(S) /\ DOMAIN w = {1}
      OBVIOUS
    <3>3. Range(w) = {"BASIC_CONSUMEOK_RECEIVED"}
      BY <3>2 DEF Range
    <3>4. "CHANNEL_CLOSE_RECEIVED" \in S
      OBVIOUS
    <3> HIDE DEF w, S
    <3>5. Range(Append(w, "CHANNEL_CLOSE_RECEIVED")) = Range(w) \cup {"CHANNEL_CLOSE_RECEIVED"}
      BY <3>2, <3>4, RangeOfAppend
    <3> QED BY <3>1, <3>3, <3>5 DEF WaitsOn
  <2> QED BY <1>1, <2>1, <2>2 DEF Polled, Parts, Calm, ClosedClientStates
<1>3. CASE c = "basic_cancel"
  <2>1. /\ Request[c] = <<"BASIC_CANCEL_SENT", "BASIC_CANCELOK_RECEIVED">>
        /\ Sent(c) = "BASIC_CANCEL_SENT"
        /\ Answers(c) = {"BASIC_CANCELOK_RECEIVED"}
    BY <1>3 DEF Sent, Request, Answers, Consumes
  <2>2. Range(WaitsOn(c)) = {"BASIC_CANCELOK_RECEIVED", "CHANNEL_CLOSE_RECEIVED"}
    <3> DEFINE w == <<"BASIC_CANCELOK_RECEIVED">>
               S == {"BASIC_CANCELOK_RECEIVED", "CHANNEL_CLOSE_RECEIVED"}
    <3>1. Tail(Request[c]) = w
      BY <2>1
    <3>2. w \in Seq(S) /\ DOMAIN w = {1}
      OBVIOUS
    <3>3. Range(w) = {"BASIC_CANCELOK_RECEIVED"}
      BY <3>2 DEF Range
    <3>4. "CHANNEL_CLOSE_RECEIVED" \in S
      OBVIOUS
    <3> HIDE DEF w, S
    <3>5. Range(Append(w, "CHANNEL_CLOSE_RECEIVED")) = Range(w) \cup {"CHANNEL_CLOSE_RECEIVED"}
      BY <3>2, <3>4, RangeOfAppend
    <3> QED BY <3>1, <3>3, <3>5 DEF WaitsOn
  <2> QED BY <1>1, <2>1, <2>2 DEF Polled, Parts, Calm, ClosedClientStates
<1>4. CASE c = "basic_get"
  <2>1. /\ Request[c] = <<"BASIC_GET_SENT", "BASIC_GETEMPTY_RECEIVED", "BASIC_GETOK_RECEIVED">>
        /\ Sent(c) = "BASIC_GET_SENT"
        /\ Answers(c) = {"BASIC_GETEMPTY_RECEIVED", "BASIC_GETOK_RECEIVED"}
    BY <1>4 DEF Sent, Request, Answers, Consumes
  <2>2. Range(WaitsOn(c)) = {"BASIC_GETEMPTY_RECEIVED", "BASIC_GETOK_RECEIVED",
                             "CHANNEL_CLOSE_RECEIVED"}
    <3> DEFINE w == <<"BASIC_GETEMPTY_RECEIVED", "BASIC_GETOK_RECEIVED">>
               S == {"BASIC_GETEMPTY_RECEIVED", "BASIC_GETOK_RECEIVED", "CHANNEL_CLOSE_RECEIVED"}
    <3>1. Tail(Request[c]) = w
      BY <2>1
    <3>2. w \in Seq(S) /\ DOMAIN w = {1, 2}
      OBVIOUS
    <3>3. Range(w) = {"BASIC_GETEMPTY_RECEIVED", "BASIC_GETOK_RECEIVED"}
      BY <3>2 DEF Range
    <3>4. "CHANNEL_CLOSE_RECEIVED" \in S
      OBVIOUS
    <3> HIDE DEF w, S
    <3>5. Range(Append(w, "CHANNEL_CLOSE_RECEIVED")) = Range(w) \cup {"CHANNEL_CLOSE_RECEIVED"}
      BY <3>2, <3>4, RangeOfAppend
    <3> QED BY <3>1, <3>3, <3>5 DEF WaitsOn
  <2> QED BY <1>1, <2>1, <2>2 DEF Polled, Parts, Calm, ClosedClientStates
<1>5. CASE c = "queue_declare"
  <2>1. /\ Request[c] = <<"QUEUE_DECLARE_SENT", "QUEUE_DECLAREOK_RECEIVED">>
        /\ Sent(c) = "QUEUE_DECLARE_SENT"
        /\ Answers(c) = {"QUEUE_DECLAREOK_RECEIVED"}
    BY <1>5 DEF Sent, Request, Answers, Consumes
  <2>2. Range(WaitsOn(c)) = {"QUEUE_DECLAREOK_RECEIVED", "CHANNEL_CLOSE_RECEIVED"}
    <3> DEFINE w == <<"QUEUE_DECLAREOK_RECEIVED">>
               S == {"QUEUE_DECLAREOK_RECEIVED", "CHANNEL_CLOSE_RECEIVED"}
    <3>1. Tail(Request[c]) = w
      BY <2>1
    <3>2. w \in Seq(S) /\ DOMAIN w = {1}
      OBVIOUS
    <3>3. Range(w) = {"QUEUE_DECLAREOK_RECEIVED"}
      BY <3>2 DEF Range
    <3>4. "CHANNEL_CLOSE_RECEIVED" \in S
      OBVIOUS
    <3> HIDE DEF w, S
    <3>5. Range(Append(w, "CHANNEL_CLOSE_RECEIVED")) = Range(w) \cup {"CHANNEL_CLOSE_RECEIVED"}
      BY <3>2, <3>4, RangeOfAppend
    <3> QED BY <3>1, <3>3, <3>5 DEF WaitsOn
  <2> QED BY <1>1, <2>1, <2>2 DEF Polled, Parts, Calm, ClosedClientStates
<1> QED BY <1>2, <1>3, <1>4, <1>5 DEF Request

\* The transitions that a careful client makes.
LEMMA CarefulTransitions ==
    /\ \A s \in Calm, c \in DOMAIN Request :
          Sent(c) \in ClientTransitions[s] /\ s # Sent(c)
    /\ \A s \in Calm : "BASIC_DELIVER_RECEIVED" \in ClientTransitions[s]
    /\ \A c \in DOMAIN Request : \A s \in Answers(c) : s \in ClientTransitions[Sent(c)]
    /\ \A c \in DOMAIN Request : c # "basic_cancel" =>
          "CHANNEL_CLOSE_RECEIVED" \in ClientTransitions[Sent(c)]
    /\ "CHANNEL_CLOSE_RECEIVED" \notin ClientTransitions["BASIC_CANCEL_SENT"]
    /\ "CHANNEL_CLOSEOK_SENT" \in ClientTransitions["CHANNEL_CLOSE_RECEIVED"]
    /\ "OPENING_CHANNEL" \in ClientTransitions["CHANNEL_CLOSEOK_SENT"]
    /\ "CHANNEL_OPEN_SENT" \in ClientTransitions["OPENING_CHANNEL"]
    /\ "CHANNEL_OPENOK_RECEIVED" \in ClientTransitions["CHANNEL_OPEN_SENT"]
    /\ \A s \in {"BASIC_DELIVER_RECEIVED", "BASIC_GETOK_RECEIVED"} :
          "CONTENT_HEADER_RECEIVED" \in ClientTransitions[s]
    /\ "CONTENT_BODY_RECEIVED" \in ClientTransitions["CONTENT_HEADER_RECEIVED"]
    /\ \A how \in DOMAIN SettledState :
          SettledState[how] \in ClientTransitions["MESSAGE_ASSEMBLED"]
<1>1. \A s \in Calm : Idle \subseteq ClientTransitions[s]
  <2>1. Calm \subseteq IdleAfter \cup DOMAIN IdleWith
    BY DEF Calm, IdleAfter, IdleWith
  <2> QED BY <2>1, TransitionsAre
<1>2. \A c \in DOMAIN Request : /\ Sent(c) \in Idle
                                /\ Sent(c) \notin Calm
  BY DEF Sent, Request, Idle, Calm
<1>3. /\ ClientTransitions["BASIC_CONSUME_SENT"]
            = {"BASIC_CONSUMEOK_RECEIVED", "CHANNEL_CLOSE_RECEIVED"}
      /\ ClientTransitions["BASIC_GET_SENT"]
            = {"BASIC_GETEMPTY_RECEIVED", "BASIC_GETOK_RECEIVED", "CHANNEL_CLOSE_RECEIVED"}
      /\ ClientTransitions["QUEUE_DECLARE_SENT"]
            = {"QUEUE_DECLAREOK_RECEIVED", "CHANNEL_CLOSE_RECEIVED"}
  BY TransitionsAre DEF Refusable
<1>4. /\ ClientTransitions["BASIC_CANCEL_SENT"] = {"BASIC_CANCELOK_RECEIVED"}
      /\ ClientTransitions["CHANNEL_OPEN_SENT"] = {"CHANNEL_OPENOK_RECEIVED"}
  BY TransitionsAre DEF Strict
<1>5. /\ "CHANNEL_CLOSEOK_SENT" \in ClientTransitions["CHANNEL_CLOSE_RECEIVED"]
      /\ "OPENING_CHANNEL" \in ClientTransitions["CHANNEL_CLOSEOK_SENT"]
      /\ "CHANNEL_OPEN_SENT" \in ClientTransitions["OPENING_CHANNEL"]
      /\ "CONTENT_HEADER_RECEIVED" \in ClientTransitions["BASIC_DELIVER_RECEIVED"]
      /\ "CONTENT_HEADER_RECEIVED" \in ClientTransitions["BASIC_GETOK_RECEIVED"]
      /\ "CONTENT_BODY_RECEIVED" \in ClientTransitions["CONTENT_HEADER_RECEIVED"]
  BY TransitionsAre DEF Steps
<1>6. {"BASIC_ACK_SENT", "BASIC_NACK_SENT", "BASIC_REJECT_SENT"}
         \subseteq ClientTransitions["MESSAGE_ASSEMBLED"]
  BY TransitionsAre DEF IdleWith
<1>7. \A how \in DOMAIN SettledState :
         SettledState[how] \in ClientTransitions["MESSAGE_ASSEMBLED"]
  BY <1>6 DEF SettledState
<1>8. \A c \in DOMAIN Request : \A s \in Answers(c) : s \in ClientTransitions[Sent(c)]
  BY <1>3, <1>4 DEF Answers, Consumes, Sent, Request
<1>9. \A c \in DOMAIN Request : c # "basic_cancel" =>
         "CHANNEL_CLOSE_RECEIVED" \in ClientTransitions[Sent(c)]
  BY <1>3 DEF Sent, Request
<1>10. "BASIC_DELIVER_RECEIVED" \in Idle
  BY DEF Idle
<1> QED BY <1>1, <1>2, <1>4, <1>5, <1>7, <1>8, <1>9, <1>10

\* What is left of a manager that enters a state nobody waits on, or one that t does.
LEMMA EnterIs ==
    ASSUME NEW m \in Managers, m.exception = None, NEW s \in ClientState,
           m.state = s \/ s \in ClientTransitions[m.state]
    PROVE  LET n == Enter(m, s) IN
           /\ ~ SM!Refuses(m, s, None) /\ n \in Managers
           /\ n.state = s /\ n.exception = None /\ n.waits = m.waits /\ n.fired = m.fired
           /\ (\A e \in m.waits : e[1] # s) => n.ready = m.ready
           /\ m.state # s /\ SM!Scheduled(m, s) # {}
                 => n.ready = Append(m.ready, SM!Scheduled(m, s))
<1>1. ~ SM!Refuses(m, s, None)
  BY DEF SM!Refuses, SM!Unchanged
<1>2. Enter(m, s) \in Managers /\ Enter(m, s).state = s
  BY <1>1, EnterKeepsType
<1>3. CASE m.state = s
  <2>1. Enter(m, s) = m
    BY <1>3 DEF Enter, SM!SetState, SM!Unchanged
  <2> QED BY <1>1, <1>2, <1>3, <2>1
<1>4. CASE m.state # s
  <2>1. Enter(m, s) = SM!Enter(m, s, None)
    BY <1>1, <1>4 DEF Enter, SM!SetState, SM!Unchanged
  <2>2. (\A e \in m.waits : e[1] # s) => SM!Scheduled(m, s) = {}
    BY DEF SM!Scheduled
  <2> QED BY <1>1, <1>2, <2>1, <2>2, ManagersAre DEF SM!Enter
<1> QED BY <1>3, <1>4

\* A call is made.
LEMMA CallEnters ==
    ASSUME NEW m \in Managers, m.exception = None, Quiet(m), m.state \in Calm,
           NEW c \in DOMAIN Request, NEW t \in Task
    PROVE  LET n == SM!Register(Enter(m, Sent(c)), t, Range(WaitsOn(c))) IN
           /\ ~ SM!Refuses(m, Sent(c), None) /\ n.state = Sent(c) /\ n.exception = None
           /\ Listens(n, t, c)
<1>1. Sent(c) \in ClientTransitions[m.state] /\ Sent(c) \in ClientState
  BY CarefulTransitions, WaitedIs
<1> DEFINE e == Enter(m, Sent(c))
<1>2. /\ ~ SM!Refuses(m, Sent(c), None) /\ e \in Managers
      /\ e.state = Sent(c) /\ e.exception = None /\ e.waits = {} /\ e.fired = {}
      /\ e.ready = <<>>
  BY <1>1, EnterIs DEF Quiet
<1> HIDE DEF e
<1>3. SM!Register(e, t, Range(WaitsOn(c))).waits = Range(WaitsOn(c)) \X {t}
  BY <1>2, ManagersAre DEF SM!Register
<1> QED BY <1>2, <1>3, ManagersAre DEF SM!Register, Listens, e

\* Its answer arrives.
LEMMA AnswerEnters ==
    ASSUME NEW m \in Managers, m.exception = None, NEW t \in Task,
           NEW c \in DOMAIN Request, Listens(m, t, c), m.state = Sent(c),
           NEW s \in Polled(c), s \in ClientTransitions[Sent(c)]
    PROVE  LET n == Enter(m, s) IN
           /\ ~ SM!Refuses(m, s, None) /\ n \in Managers
           /\ n.state = s /\ n.exception = None /\ Hears(n, t, c, s)
<1>1. s \in ClientState /\ s # m.state /\ s \in Range(WaitsOn(c))
  BY WaitedIs
<1>2. SM!Scheduled(m, s) = {<<s, t>>}
  BY <1>1 DEF SM!Scheduled, Listens
<1>3. Append(<<>>, {<<s, t>>}) = <<{<<s, t>>}>>
  BY ShortSequences
<1> QED BY <1>1, <1>2, <1>3, EnterIs DEF Listens, Hears

\* A part of a message, or a settlement, wakes nobody.
LEMMA PartEnters ==
    ASSUME NEW m \in Managers, m.exception = None, NEW s \in Parts,
           m.state = s \/ s \in ClientTransitions[m.state],
           \/ Quiet(m)
           \/ \E t \in Task, c \in DOMAIN Request : \E x \in Polled(c) : Hears(m, t, c, x)
    PROVE  LET n == Enter(m, s) IN
           /\ ~ SM!Refuses(m, s, None) /\ n \in Managers
           /\ n.state = s /\ n.exception = None
           /\ n.waits = m.waits /\ n.ready = m.ready /\ n.fired = m.fired
<1>1. s \in ClientState
  BY StatesAre DEF Parts
<1>2. \A e \in m.waits : e[1] # s
  <2>1. CASE Quiet(m)
    BY <2>1 DEF Quiet
  <2>2. ASSUME NEW t \in Task, NEW c \in DOMAIN Request, NEW x \in Polled(c),
               Hears(m, t, c, x)
        PROVE  \A e \in m.waits : e[1] # s
    BY <2>2, WaitedIs DEF Hears
  <2> QED BY <2>1, <2>2
<1> QED BY <1>1, <1>2, EnterIs

\* A wait hears of one state only, and leaves nothing when it ends.
LEMMA HeardRuns ==
    ASSUME NEW m \in Managers, m.ready # <<>>, NEW t, NEW c, NEW s, Hears(m, t, c, s)
    PROVE  LET n == SM!RunCallbacks(m) IN
           /\ Hears(n, t, c, s) /\ n.state = m.state /\ n.exception = m.exception
<1>1. m.ready = <<{<<s, t>>}>> /\ m.fired = {}
  BY DEF Hears
<1>2. Head(m.ready) = {<<s, t>>} /\ Tail(m.ready) = <<>>
  BY <1>1
<1> QED BY <1>1, <1>2, ManagersAre DEF SM!RunCallbacks, Hears

LEMMA HeardEnds ==
    ASSUME NEW m \in Managers, NEW t \in Task, NEW c \in DOMAIN Request, NEW s \in Polled(c),
           Hears(m, t, c, s), NEW u \in Task, NEW args, NEW x, SM!PollReturns(m, u, args, x)
    PROVE  LET n == SM!AfterPoll(m, u) IN
           /\ Quiet(n) /\ n.state = m.state /\ n.exception = None /\ n \in Managers
           /\ x = s /\ u = t
<1>1. <<x, u>> \in m.fired
  BY DEF SM!PollReturns, SM!IsSet
<1>2. m.ready = <<>> /\ m.fired = {<<s, t>>} /\ x = s /\ u = t
  BY <1>1 DEF Hears
<1>3. m.waits \subseteq SM!EventsOf(t) /\ m.fired \subseteq SM!EventsOf(t)
  BY <1>2, WaitedIs DEF Hears, SM!EventsOf
<1>4. [i \in DOMAIN m.ready |-> m.ready[i] \ SM!EventsOf(u)] = <<>>
  BY <1>2
<1>5. SM!AfterPoll(m, u) \in Managers
  BY AfterPollKeepsType
<1> QED BY <1>2, <1>3, <1>4, <1>5, ManagersAre DEF SM!AfterPoll, SM!ClearWaits, Quiet

---------------------------------------------------------------------------
(* What the broker waits for, and what is under way *)

LEMMA CarefulWorkload ==
    ASSUME IInv, workload.careful
    PROVE  /\ ~ workload.deleted /\ workload.prefetch = 1
           /\ workload.methods \subseteq DOMAIN Request
           /\ workload.refusals \subseteq workload.methods
           /\ workload.settlements \subseteq Settlement
BY BrokerHas DEF IsWorkload

LEMMA HeldIs ==
    ASSUME IInv
    PROVE  /\ app.held \subseteq Message /\ app.fresh \in Message \cup {None}
           /\ None \notin Message
           /\ \A msg \in Message : /\ msg.delivery \in Delivery
                                   /\ msg.delivery.id \in Nat \X Nat
                                   /\ msg.delivery.for \in Calls
                                   /\ msg.delivery.get \in BOOLEAN
<1>1. AppTyped(app)
  BY InvIs
<1>2. \A msg \in Message : msg.delivery \in Delivery
  BY DEF Message
<1>3. \A d \in Delivery : d.id \in Nat \X Nat /\ d.for \in Calls /\ d.get \in BOOLEAN
  BY DEF Delivery
<1> QED BY <1>1, <1>2, <1>3, AppIs, MessageIs

\* What has begun in the records k has begun in n.
Onward(k, n) == \A call \in Calls : Begun(k, call) => Begun(n, call)

LEMMA PutIsOnward ==
    ASSUME NEW k \in [Task -> Record], NEW t \in Task, NEW r \in Record,
           \/ r.left = k[t].left /\ (Active(k[t]) => Active(r))
           \/ k[t].left > 0 /\ r.left = k[t].left - 1
    PROVE  Onward(k, [k EXCEPT ![t] = r])
<1> DEFINE n == [k EXCEPT ![t] = r]
<1> SUFFICES ASSUME NEW call \in Calls, Begun(k, call)
             PROVE  Begun(n, call)
  BY DEF Onward
<1>1. call[1] \in Task /\ call[2] \in Nat /\ k[t].left \in Nat /\ r.left \in Nat
  BY CallIs DEF Record
<1>2. CASE call[1] # t
  BY <1>1, <1>2 DEF Begun
<1>3. CASE call[1] = t
  <2>1. n[call[1]] = r
    BY <1>3
  <2> HIDE DEF n
  <2> QED BY <1>1, <1>3, <2>1 DEF Begun
<1> QED BY <1>2, <1>3

\* The settlements in the frames out and next are the same.
SettlesAlike(out, next) ==
    /\ \A i \in DOMAIN out : i \in DOMAIN next /\ next[i] = out[i]
    /\ \A i \in DOMAIN next : next[i].type \in SettleTypes => i \in DOMAIN out

LEMMA SettlesStay ==
    ASSUME IInv, NEW frame \in OutFrame, frame.type \notin SettleTypes, Write(<<frame>>)
    PROVE  SettlesAlike(outbox, outbox')
<1>1. outbox \in Seq(OutFrame)
  BY InvIs
<1>2. CASE outbox' = outbox
  BY <1>2 DEF SettlesAlike
<1>3. CASE outbox' = outbox \o <<frame>>
  <2>1. /\ Len(outbox') = Len(outbox) + 1 /\ Len(outbox) \in Nat
        /\ DOMAIN outbox = 1..Len(outbox) /\ DOMAIN outbox' = 1..Len(outbox')
        /\ \A i \in 1..Len(outbox) : outbox'[i] = outbox[i]
        /\ outbox'[Len(outbox) + 1] = frame
    BY <1>1, <1>3
  <2> QED BY <2>1 DEF SettlesAlike
<1> QED BY <1>2, <1>3 DEF Write

LEMMA LedgerKept ==
    ASSUME IInv, Ledger, broker' = broker, app'.held = app.held, app'.settled = app.settled,
           SettlesAlike(outbox, outbox'), Onward(task, task')
    PROVE  Ledger' /\ Underway' = Underway /\ (Filled => Filled')
<1>1. \A n : Settling(n)' <=> Settling(n)
  BY DEF Settling, SettlesAlike
<1>2. \A n : Kept(n)' <=> Kept(n)
  BY DEF Kept
<1>3. Underway' = Underway
  BY <1>1, <1>2 DEF Underway
<1>4. Filled' <=> Filled
  BY DEF Filled
<1>5. /\ broker.consumers \in SUBSET Calls
      /\ \A n \in DOMAIN broker.unacked : broker.unacked[n].for \in Calls
      /\ \A msg \in app.held : msg.delivery.for \in Calls
  BY BrokerNow, HeldIs DEF Delivery
<1>6. BrokerCounts'
  BY <1>5 DEF Ledger, BrokerCounts, Onward
<1>7. HeldIsUnacked'
  BY <1>1, <1>5 DEF Ledger, HeldIsUnacked, Onward
<1>8. SettlesAreMeant'
  BY DEF Ledger, SettlesAreMeant, SettlesAlike
<1>9. OneUnderway'
  BY <1>3, <1>4 DEF Ledger, OneUnderway
<1> QED BY <1>3, <1>4, <1>6, <1>7, <1>8, <1>9 DEF Ledger

\* The message that is under way comes to the application.
LEMMA LedgerHanded ==
    ASSUME IInv, Ledger, broker' = broker, outbox' = outbox, app'.settled = app.settled,
           NEW msg \in Message, IsUnderway(msg.delivery), app'.held = app.held \cup {msg},
           Onward(task, task')
    PROVE  Ledger' /\ Underway' = {} /\ Filled' /\ broker.phase = "open"
<1> DEFINE d == msg.delivery
<1>1. /\ d.id[1] = broker.channel /\ d.id[2] \in Underway /\ broker.unacked[d.id[2]] = d
      /\ d.id[2] \in DOMAIN broker.unacked /\ ~ Kept(d.id[2]) /\ ~ Settling(d.id[2])
      /\ broker.phase = "open" /\ broker.channel \in Nat
      /\ d.id \in Nat \X Nat /\ d.id = <<broker.channel, d.id[2]>> /\ d.get \in BOOLEAN
      /\ Begun(task, d.for)
  BY BrokerNow, HeldIs DEF IsUnderway, Underway, Ledger, BrokerCounts
<1>2. /\ broker.consumers \in SUBSET Calls
      /\ \A n \in DOMAIN broker.unacked : broker.unacked[n].for \in Calls
      /\ \A m \in app.held : m.delivery.for \in Calls
      /\ d.for \in Calls
  BY BrokerNow, HeldIs DEF Delivery
<1>3. \A n : Settling(n)' <=> Settling(n)
  BY DEF Settling
<1>4. \A n : Kept(n)' <=> Kept(n) \/ d.id = <<broker.channel, n>>
  BY DEF Kept
<1>5. Underway' = {}
  BY <1>1, <1>3, <1>4 DEF Underway, Ledger, OneUnderway
<1>6. Filled'
  <2>1. Filled => Filled'
    BY DEF Filled
  <2>2. d.for \in broker.consumers => Filled'
    BY DEF Filled, Ledger, BrokerCounts
  <2> QED BY <1>1, <2>1, <2>2 DEF Ledger, OneUnderway
<1>7. BrokerCounts'
  BY <1>2 DEF Ledger, BrokerCounts, Onward
<1>8. HeldIsUnacked'
  <2>1. \A m \in app.held : m.delivery.id # d.id
    BY <1>1 DEF Kept
  <2>2. \A m, o \in app'.held : m.delivery.id = o.delivery.id => m = o
    BY <2>1 DEF Ledger, HeldIsUnacked
  <2>3. \A m \in app.held :
           /\ m.delivery.id[1] <= broker.channel /\ Begun(task', m.delivery.for)
           /\ m.delivery.for \in broker.consumers => m.delivery.id[1] = broker.channel
           /\ m.delivery.id[1] = broker.channel /\ broker.phase = "open"
                 => /\ m.delivery.id[2] \in DOMAIN broker.unacked
                    /\ broker.unacked[m.delivery.id[2]] = m.delivery
                    /\ ~ Settling(m.delivery.id[2])'
    BY <1>2, <1>3 DEF Ledger, HeldIsUnacked, Onward
  <2>4. d.id[1] <= broker.channel /\ Begun(task', d.for)
    BY <1>1, <1>2 DEF Onward
  <2> QED BY <1>1, <1>3, <2>2, <2>3, <2>4 DEF HeldIsUnacked
<1>9. SettlesAreMeant'
  BY DEF Ledger, SettlesAreMeant
<1>10. OneUnderway'
  BY <1>5 DEF OneUnderway
<1> QED BY <1>1, <1>5, <1>6, <1>7, <1>8, <1>9, <1>10 DEF Ledger

\* The message that has come last is settled.
LEMMA LedgerSettled ==
    ASSUME IInv, Ledger, FreshIsLast, NEW msg \in app.held, msg = app.fresh,
           broker' = broker, task' = task,
           NEW frame \in OutFrame, frame.type \in SettleTypes, frame.tag = msg.delivery.id[2],
           ~ frame.multiple, outbox' = outbox \o <<frame>>,
           app'.held = app.held \ {msg}, app'.settled = app.settled \cup {msg.delivery.id}
    PROVE  Ledger' /\ Underway' = {}
<1> DEFINE d == msg.delivery
           n == d.id[2]
<1>1. /\ d.id[1] = broker.channel /\ broker.phase = "open" /\ Underway = {}
      /\ d.id \in Nat \X Nat /\ d.id = <<broker.channel, n>>
      /\ n \in DOMAIN broker.unacked /\ broker.unacked[n] = d /\ ~ Settling(n)
  BY HeldIs DEF FreshIsLast, Ledger, HeldIsUnacked
<1>2. /\ Len(outbox') = Len(outbox) + 1 /\ Len(outbox) \in Nat
      /\ DOMAIN outbox = 1..Len(outbox) /\ DOMAIN outbox' = 1..Len(outbox')
      /\ \A i \in 1..Len(outbox) : outbox'[i] = outbox[i]
      /\ outbox'[Len(outbox) + 1] = frame
  BY InvIs
<1>3. \A i \in DOMAIN outbox' : \/ i \in DOMAIN outbox /\ outbox'[i] = outbox[i]
                                \/ i \notin DOMAIN outbox /\ outbox'[i] = frame
  BY <1>2
<1>4. \A i \in DOMAIN outbox : i \in DOMAIN outbox' /\ outbox'[i] = outbox[i]
  BY <1>2
<1>5. Len(outbox') \in DOMAIN outbox' /\ outbox'[Len(outbox')] = frame
  BY <1>2
<1>6. \A o : Settling(o)' <=> Settling(o) \/ o = n
  BY <1>3, <1>4, <1>5 DEF Settling
<1>7. \A o : o # n => (Kept(o) => Kept(o)')
  BY <1>1 DEF Kept
<1>8. Underway' = {}
  BY <1>1, <1>6, <1>7 DEF Underway
<1>9. BrokerCounts'
  BY DEF Ledger, BrokerCounts
<1>10. HeldIsUnacked'
  <2>1. \A m \in app'.held : m \in app.held /\ m.delivery.id # d.id
    BY DEF Ledger, HeldIsUnacked
  <2>2. \A m \in app'.held : m.delivery.id[1] = broker.channel => m.delivery.id[2] # n
    BY <1>1, <2>1, HeldIs
  <2> QED BY <1>6, <2>1, <2>2 DEF Ledger, HeldIsUnacked
<1>11. SettlesAreMeant'
  <2>1. broker'.settled \subseteq app'.settled
    BY DEF Ledger, SettlesAreMeant
  <2>2. ASSUME NEW i \in DOMAIN outbox', outbox'[i].type \in SettleTypes
        PROVE  /\ ~ outbox'[i].multiple /\ outbox'[i].tag \in DOMAIN broker'.unacked
               /\ <<broker'.channel, outbox'[i].tag>> \in app'.settled
    BY <1>1, <1>3, <2>2 DEF Ledger, SettlesAreMeant
  <2>3. ASSUME NEW i \in DOMAIN outbox', NEW j \in DOMAIN outbox',
               outbox'[i].type \in SettleTypes, outbox'[j].type \in SettleTypes,
               outbox'[i].tag = outbox'[j].tag
        PROVE  i = j
    <3>1. CASE i \in DOMAIN outbox /\ j \in DOMAIN outbox
      BY <1>3, <2>3, <3>1 DEF Ledger, SettlesAreMeant
    <3>2. \A x \in DOMAIN outbox : outbox[x].type \in SettleTypes => outbox[x].tag # n
      BY <1>1 DEF Settling
    <3>3. CASE i \notin DOMAIN outbox /\ j \notin DOMAIN outbox
      BY <1>2, <3>3
    <3> QED BY <1>3, <2>3, <3>1, <3>2, <3>3
  <2> QED BY <2>1, <2>2, <2>3 DEF SettlesAreMeant
<1>12. OneUnderway'
  BY <1>8 DEF OneUnderway
<1> QED BY <1>8, <1>9, <1>10, <1>11, <1>12 DEF Ledger

---------------------------------------------------------------------------
(* What the broker does to it *)

\* A settlement is read.
LEMMA LedgerServed ==
    ASSUME IInv, Ledger, outbox # <<>>, outbox' = Tail(outbox), ClientUnchanged,
           Head(outbox).type \in SettleTypes, BrokerSettles(Head(outbox))
    PROVE  /\ Ledger' /\ Underway' = Underway /\ (Filled => Filled') /\ inbox' = inbox
           /\ broker'.phase = broker.phase /\ broker'.channel = broker.channel
           /\ broker'.consumers = broker.consumers
           /\ \A n \in DOMAIN broker'.unacked :
                 n \in DOMAIN broker.unacked /\ broker'.unacked[n] = broker.unacked[n]
           /\ \A n \in Underway :
                 n \in DOMAIN broker'.unacked /\ broker'.unacked[n] = broker.unacked[n]
<1> DEFINE frame == Head(outbox)
           n == frame.tag
           rest == DOMAIN broker.unacked \ {n}
<1>1. /\ outbox[1] = frame /\ 1 \in DOMAIN outbox
      /\ \A i \in DOMAIN outbox' : i + 1 \in DOMAIN outbox /\ outbox'[i] = outbox[i + 1]
                                   /\ i \in Nat /\ i > 0
      /\ \A i \in DOMAIN outbox : i # 1 => i - 1 \in DOMAIN outbox' /\ outbox'[i - 1] = outbox[i]
  BY InvIs
<1>2. /\ ~ frame.multiple /\ n \in DOMAIN broker.unacked
      /\ <<broker.channel, n>> \in app.settled
      /\ broker.unacked[n].id = <<broker.channel, n>>
      /\ broker.phase = "open"
  BY <1>1 DEF Ledger, SettlesAreMeant, BrokerCounts
<1> DEFINE tags == {o \in DOMAIN broker.unacked : o = n \/ (frame.multiple /\ o < n)}
<1>3. tags = {n} /\ frame.type \in DOMAIN SettledState
  BY <1>2 DEF SettleTypes
<1>4. /\ broker' = [broker EXCEPT
            !.unacked = Without(@, tags),
            !.settled = @ \cup {broker.unacked[o].id : o \in tags},
            !.ready = IF frame.type # "ack" /\ frame.requeue
                      THEN @ \cup MessagesOf(tags) ELSE @]
      /\ inbox' = inbox
  BY <1>2 DEF BrokerSettles
<1> HIDE DEF tags
<1>5. /\ broker'.phase = broker.phase /\ broker'.channel = broker.channel
      /\ broker'.consumers = broker.consumers /\ broker'.sent = broker.sent
      /\ broker'.unacked = Without(broker.unacked, tags)
      /\ broker'.settled = broker.settled \cup {broker.unacked[o].id : o \in tags}
  BY <1>4, BrokerNow DEF BrokerOf
<1>6. /\ DOMAIN broker'.unacked = rest
      /\ \A o \in rest : broker'.unacked[o] = broker.unacked[o]
  BY <1>3, <1>5 DEF Without, Restrict
<1>7. \A i \in DOMAIN outbox : i # 1 /\ outbox[i].type \in SettleTypes => outbox[i].tag # n
  BY <1>1 DEF Ledger, SettlesAreMeant
<1>8. \A o : Settling(o)' <=> Settling(o) /\ o # n
  <2>1. ASSUME NEW o, Settling(o), o # n
        PROVE  Settling(o)'
    <3>1. PICK i \in DOMAIN outbox : outbox[i].type \in SettleTypes /\ outbox[i].tag = o
      BY <2>1 DEF Settling
    <3>2. i # 1
      BY <1>1, <2>1, <3>1
    <3> QED BY <1>1, <3>1, <3>2 DEF Settling
  <2>2. ASSUME NEW o, Settling(o)'
        PROVE  Settling(o) /\ o # n
    <3>1. PICK i \in DOMAIN outbox' : outbox'[i].type \in SettleTypes /\ outbox'[i].tag = o
      BY <2>2 DEF Settling
    <3>2. i + 1 \in DOMAIN outbox /\ outbox'[i] = outbox[i + 1] /\ i + 1 # 1
      BY <1>1
    <3> QED BY <1>7, <3>1, <3>2 DEF Settling
  <2> QED BY <2>1, <2>2
<1>9. Settling(n)
  BY <1>1 DEF Settling
<1>10. app' = app /\ task' = task
  BY DEF ClientUnchanged
<1>11. \A o : Kept(o)' <=> Kept(o)
  BY <1>5, <1>10 DEF Kept
<1>12. Underway' = Underway
  BY <1>6, <1>8, <1>9, <1>11 DEF Underway
<1>13. Filled' <=> Filled
  BY <1>5, <1>10 DEF Filled
<1>14. BrokerCounts'
  BY <1>5, <1>6, <1>10, <1>2 DEF Ledger, BrokerCounts
<1>15. HeldIsUnacked'
  <2>1. ASSUME NEW m \in app.held, m.delivery.id[1] = broker.channel
        PROVE  m.delivery.id[2] # n
    BY <1>2, <1>9, <2>1 DEF Ledger, HeldIsUnacked
  <2> QED BY <1>2, <1>5, <1>6, <1>8, <1>10, <2>1 DEF Ledger, HeldIsUnacked
<1>16. SettlesAreMeant'
  <2>1. broker'.settled \subseteq app'.settled
    BY <1>2, <1>3, <1>5, <1>10 DEF Ledger, SettlesAreMeant
  <2>2. ASSUME NEW i \in DOMAIN outbox', outbox'[i].type \in SettleTypes
        PROVE  /\ ~ outbox'[i].multiple /\ outbox'[i].tag \in DOMAIN broker'.unacked
               /\ <<broker'.channel, outbox'[i].tag>> \in app'.settled
    <3>1. i + 1 \in DOMAIN outbox /\ outbox'[i] = outbox[i + 1] /\ i + 1 # 1
      BY <1>1
    <3> QED BY <1>5, <1>6, <1>7, <1>10, <2>2, <3>1 DEF Ledger, SettlesAreMeant
  <2>3. ASSUME NEW i \in DOMAIN outbox', NEW j \in DOMAIN outbox',
               outbox'[i].type \in SettleTypes, outbox'[j].type \in SettleTypes,
               outbox'[i].tag = outbox'[j].tag
        PROVE  i = j
    <3>1. i + 1 = j + 1
      BY <1>1, <2>3 DEF Ledger, SettlesAreMeant
    <3> QED BY <1>1, <3>1
  <2> QED BY <2>1, <2>2, <2>3 DEF SettlesAreMeant
<1>17. OneUnderway'
  BY <1>5, <1>6, <1>12, <1>13, <1>8, <1>9 DEF Ledger, OneUnderway, Underway
<1>18. \A o \in Underway :
          o \in DOMAIN broker'.unacked /\ broker'.unacked[o] = broker.unacked[o]
  BY <1>6, <1>9 DEF Underway
<1> QED BY <1>4, <1>5, <1>6, <1>12, <1>13, <1>14, <1>15, <1>16, <1>17, <1>18 DEF Ledger

\* A message is sent.
LEMMA LedgerSent ==
    ASSUME IInv, Ledger, ClientUnchanged, SettlesAlike(outbox', outbox), Underway = {},
           \A i \in DOMAIN outbox : outbox[i].type \in SettleTypes => i \in DOMAIN outbox',
           broker.phase = "open",
           NEW d, d.id = <<broker.channel, broker.sent + 1>>, d.for \in Calls, d.get \in BOOLEAN,
           broker'.phase = broker.phase, broker'.channel = broker.channel,
           broker'.consumers = broker.consumers, broker'.settled = broker.settled,
           broker'.sent = broker.sent + 1,
           broker'.unacked = With(broker.unacked, broker.sent + 1, d),
           IF d.get THEN Filled ELSE d.for \in broker.consumers,
           \A n \in DOMAIN broker.unacked : broker.unacked[n].for # d.for,
           Begun(task, d.for)
    PROVE  /\ Ledger' /\ Underway' = {broker.sent + 1} /\ (Filled => Filled')
           /\ broker'.unacked[broker.sent + 1] = d /\ IsUnderway(d)'
<1> DEFINE s == broker.sent + 1
<1>1. /\ broker.sent \in Nat /\ s \notin DOMAIN broker.unacked
      /\ \A n \in DOMAIN broker.unacked : n \in 1..broker.sent
  BY BrokerNow DEF Ledger, BrokerCounts
<1>2. /\ DOMAIN broker'.unacked = DOMAIN broker.unacked \cup {s}
      /\ broker'.unacked[s] = d
      /\ \A n \in DOMAIN broker.unacked : broker'.unacked[n] = broker.unacked[n]
  BY <1>1 DEF With
<1>3. \A i \in DOMAIN outbox : outbox[i].type \in SettleTypes
                                  => i \in DOMAIN outbox' /\ outbox'[i] = outbox[i]
  BY DEF SettlesAlike
<1>4. \A i \in DOMAIN outbox' : i \in DOMAIN outbox /\ outbox'[i] = outbox[i]
  BY DEF SettlesAlike
<1>5. \A n : Settling(n)' <=> Settling(n)
  BY <1>3, <1>4 DEF Settling
<1>6. app' = app /\ task' = task
  BY DEF ClientUnchanged
<1>7. \A n : Kept(n)' <=> Kept(n)
  BY <1>6 DEF Kept
<1>8. ~ Kept(s)
  <2> SUFFICES ASSUME NEW m \in app.held, m.delivery.id = <<broker.channel, s>>
               PROVE  FALSE
    BY DEF Kept
  <2>1. m.delivery.id[2] \in DOMAIN broker.unacked /\ m.delivery.id[2] = s
    BY DEF Ledger, HeldIsUnacked
  <2> QED BY <1>1, <2>1
<1>9. ~ Settling(s)
  BY <1>1 DEF Settling, Ledger, SettlesAreMeant
<1>10. Underway' = {s}
  BY <1>2, <1>5, <1>7, <1>8, <1>9 DEF Underway
<1>11. Filled' <=> Filled
  BY <1>6 DEF Filled
<1>12. BrokerCounts'
  <2>1. \A n \in DOMAIN broker'.unacked :
           /\ n \in 1..broker'.sent /\ broker'.unacked[n].id = <<broker'.channel, n>>
           /\ Begun(task', broker'.unacked[n].for)
    BY <1>1, <1>2, <1>6 DEF Ledger, BrokerCounts
  <2>2. \A n, o \in DOMAIN broker'.unacked :
           broker'.unacked[n].for = broker'.unacked[o].for
              /\ broker'.unacked[n].for \in broker'.consumers => n = o
    BY <1>2 DEF Ledger, BrokerCounts
  <2> QED BY <1>6, <2>1, <2>2 DEF Ledger, BrokerCounts
<1>13. HeldIsUnacked'
  BY <1>2, <1>5, <1>6 DEF Ledger, HeldIsUnacked
<1>14. SettlesAreMeant'
  BY <1>2, <1>4, <1>6 DEF Ledger, SettlesAreMeant
<1>15. OneUnderway'
  BY <1>2, <1>10, <1>11 DEF OneUnderway
<1>16. IsUnderway(d)'
  BY <1>2, <1>10 DEF IsUnderway
<1> QED BY <1>2, <1>10, <1>11, <1>12, <1>13, <1>14, <1>15, <1>16 DEF Ledger

\* A consumer begins, or ends.
LEMMA LedgerConsumes ==
    ASSUME IInv, Ledger, ClientUnchanged, outbox' = <<>>, Underway = {},
           broker.phase = "open",
           \A i \in DOMAIN outbox : outbox[i].type \notin SettleTypes,
           NEW tags, broker' = [broker EXCEPT !.consumers = tags],
           \/ tags \subseteq broker.consumers
           \/ \E call \in Calls : tags = {call} /\ NewTo(call) /\ Begun(task, call)
    PROVE  Ledger' /\ Underway' = {} /\ (tags \subseteq broker.consumers /\ Filled => Filled')
<1>1. /\ broker'.phase = broker.phase /\ broker'.channel = broker.channel
      /\ broker'.consumers = tags /\ broker'.settled = broker.settled
      /\ broker'.sent = broker.sent /\ broker'.unacked = broker.unacked
  BY BrokerNow DEF BrokerOf
<1>2. app' = app /\ task' = task
  BY DEF ClientUnchanged
<1>3. \A n : ~ Settling(n) /\ ~ Settling(n)'
  BY DEF Settling
<1>4. Underway' = {}
  BY <1>1, <1>2, <1>3 DEF Underway, Kept
<1>5. BrokerCounts'
  BY <1>1, <1>2 DEF Ledger, BrokerCounts, NewTo
<1>6. HeldIsUnacked'
  BY <1>1, <1>2, <1>3 DEF Ledger, HeldIsUnacked, NewTo
<1>7. SettlesAreMeant'
  BY <1>1, <1>2 DEF Ledger, SettlesAreMeant
<1>8. OneUnderway'
  BY <1>4 DEF OneUnderway
<1>9. tags \subseteq broker.consumers /\ Filled => Filled'
  BY <1>1, <1>2 DEF Filled
<1> QED BY <1>4, <1>5, <1>6, <1>7, <1>8, <1>9 DEF Ledger

\* The channel is closed, or opened again.
LEMMA LedgerCleared ==
    ASSUME IInv, Ledger, ClientUnchanged, broker'.settled = broker.settled,
           broker'.consumers = {}, DOMAIN broker'.unacked = {},
           \A i \in DOMAIN outbox' : outbox'[i].type \notin SettleTypes,
           \/ broker'.phase # "open" /\ broker'.channel = broker.channel
           \/ broker'.channel = broker.channel + 1
    PROVE  Ledger' /\ Underway' = {} /\ Filled'
<1>1. app' = app /\ task' = task
  BY DEF ClientUnchanged
<1>2. Underway' = {}
  BY DEF Underway
<1>3. BrokerCounts'
  BY DEF BrokerCounts
<1>4. HeldIsUnacked'
  <2>1. broker.channel \in Nat /\ \A msg \in app.held : msg.delivery.id[1] \in Nat
    BY BrokerNow, HeldIs
  <2> QED BY <1>1, <2>1 DEF Ledger, HeldIsUnacked
<1>5. SettlesAreMeant'
  BY <1>1 DEF Ledger, SettlesAreMeant
<1>6. OneUnderway'
  BY <1>2 DEF OneUnderway
<1>7. Filled'
  BY DEF Filled
<1> QED BY <1>2, <1>3, <1>4, <1>5, <1>6, <1>7 DEF Ledger

---------------------------------------------------------------------------
(* The calls of the tasks *)

LEMMA GoesTo ==
    ASSUME IInv, NEW t \in Task, NEW m, NEW tag, NEW pc, Goes(t, m, tag, pc)
    PROVE  /\ task'[t].pc = pc /\ task'[t].call = m /\ task'[t].tag = tag
           /\ task'[t].left = task[t].left /\ task'[t].result = task[t].result
           /\ \A u \in Task : u # t => task'[u] = task[u]
           /\ \A u \in Task : Call(u)' = Call(u)
           /\ pc # "idle" => Onward(task, task')
<1>1. task \in [Task -> Record]
  BY InvIs
<1> DEFINE r == [task[t] EXCEPT !.pc = pc, !.call = m, !.tag = tag]
<1>2. /\ r.pc = pc /\ r.call = m /\ r.tag = tag /\ r.left = task[t].left
      /\ r.result = task[t].result
  BY <1>1 DEF Record
<1>3. task' = [task EXCEPT ![t] = r]
  BY <1>1 DEF Goes
<1> HIDE DEF r
<1>4. /\ task'[t].pc = pc /\ task'[t].call = m /\ task'[t].tag = tag
      /\ task'[t].left = task[t].left /\ task'[t].result = task[t].result
      /\ \A u \in Task : u # t => task'[u] = task[u]
  BY <1>1, <1>2, <1>3
<1>5. \A u \in Task : task'[u].left = task[u].left
  BY <1>4
<1>6. \A u \in Task : Call(u)' = Call(u)
  BY <1>5 DEF Call
<1>7. ASSUME pc # "idle"
      PROVE  Onward(task, task')
  <2>1. \A u \in Task : Active(task[u]) => Active(task'[u])
    BY <1>4, <1>7 DEF Active
  <2>2. \A call \in Calls : call[1] \in Task
    BY <1>1, CallIs
  <2> QED BY <1>5, <2>1, <2>2 DEF Onward, Begun
<1> QED BY <1>4, <1>6, <1>7

LEMMA EndsAs ==
    ASSUME IInv, NEW t \in Task, Active(task[t]), NEW m, NEW result, End(t, m, result)
    PROVE  /\ task'[t].pc = "idle" /\ task'[t].call = m /\ task'[t].result = result
           /\ task'[t].left = task[t].left - 1
           /\ \A u \in Task : u # t => task'[u] = task[u]
           /\ \A u \in Task : u # t => Call(u)' = Call(u)
           /\ Onward(task, task')
<1>1. task \in [Task -> Record] /\ task[t].left \in Nat /\ task[t].left > 0
  BY InvIs, CallIs DEF RecordOK
<1>2. task' = [task EXCEPT ![t] = [pc |-> "idle", call |-> m, result |-> result,
                                   tag |-> None, left |-> task[t].left - 1]]
  BY <1>1 DEF End
<1>3. /\ task'[t].pc = "idle" /\ task'[t].call = m /\ task'[t].result = result
      /\ task'[t].left = task[t].left - 1
      /\ \A u \in Task : u # t => task'[u] = task[u]
  BY <1>1, <1>2
<1>4. \A u \in Task : u # t => Call(u)' = Call(u)
  BY <1>3 DEF Call
<1>5. Onward(task, task')
  <2>1. \A call \in Calls : call[1] \in Task /\ call[2] \in Nat
    BY <1>1, CallIs
  <2> SUFFICES ASSUME NEW call \in Calls, Begun(task, call)
               PROVE  Begun(task', call)
    BY DEF Onward
  <2>2. CASE call[1] = t
    BY <1>1, <1>3, <2>1, <2>2 DEF Begun
  <2>3. CASE call[1] # t
    BY <1>3, <2>1, <2>3 DEF Begun
  <2> QED BY <2>2, <2>3
<1> QED BY <1>3, <1>4, <1>5

\* A call that is not made has begun nothing.
LEMMA NotBegun ==
    ASSUME IInv, NEW t \in Task, task[t].pc = "idle"
    PROVE  /\ Call(t) \in Calls /\ ~ Begun(task, Call(t)) /\ Call(t) \notin DOMAIN futures.done
           /\ \A i \in DOMAIN futures.pending : futures.pending[i].call # Call(t)
           /\ futures.get # Call(t)
<1>1. task \in [Task -> Record] /\ CallsOwn(task, futures)
  BY InvIs
<1>2. Call(t) \in Calls /\ task[t].left \in Nat
  BY <1>1, CallIs DEF Call
<1>3. ~ Begun(task, Call(t))
  BY <1>2 DEF Begun, Call, Active
<1> QED BY <1>1, <1>2, <1>3 DEF CallsOwn, FuturesOwn, IsPending

\* Who has a message can be sent no other, but that of a get.
LEMMA FilledIsServed ==
    ASSUME IInv, Ledger, Filled, NEW d, IsUnderway(d)
    PROVE  d.get
<1> SUFFICES ASSUME ~ d.get
             PROVE  FALSE
  OBVIOUS
<1>1. /\ d.id[2] \in DOMAIN broker.unacked /\ broker.unacked[d.id[2]] = d
      /\ d.id[2] \in Underway /\ ~ Kept(d.id[2])
  BY DEF IsUnderway, Underway
<1>2. d.for \in broker.consumers /\ broker.phase = "open"
  BY <1>1 DEF Ledger, OneUnderway, BrokerCounts
<1>3. PICK msg \in app.held : msg.delivery.for = d.for
  BY <1>2 DEF Filled
<1> DEFINE n == msg.delivery.id[2]
<1>4. /\ msg.delivery.id[1] = broker.channel
      /\ n \in DOMAIN broker.unacked /\ broker.unacked[n] = msg.delivery
  BY <1>2, <1>3 DEF Ledger, HeldIsUnacked
<1>5. n = d.id[2]
  BY <1>1, <1>2, <1>3, <1>4 DEF Ledger, BrokerCounts
<1>6. msg.delivery.id = <<broker.channel, n>>
  BY <1>4, HeldIs
<1> QED BY <1>1, <1>5, <1>6 DEF Kept

LEMMA FilledIsEmpty ==
    ASSUME IInv, Ledger, Filled, Stage, \A t \in Task : ~ Gets(t)
    PROVE  Empty
<1>1. ASSUME NEW d, IsUnderway(d), ~ d.get \/ ForItsGet(d)
      PROVE  FALSE
  BY <1>1, FilledIsServed DEF ForItsGet
<1>2. ~ Coming /\ ~ Taking /\ ~ Stuck
  BY <1>1 DEF Coming, Taking, Stuck
<1>3. ~ Mailed
  BY <1>1 DEF Mailed
<1>4. ~ Got
  BY DEF Got
<1> QED BY <1>2, <1>3, <1>4 DEF Stage

\* When no task is in a call, nobody waits, and no call has the lock.
LEMMA RestingIs ==
    ASSUME IInv, Working, \A t \in Task : task[t].pc \in {"idle", "iterating"}
    PROVE  Serving /\ NoneWaits /\ lock = <<>> /\ \A t \in Task : ~ Gets(t)
<1>1. lock = <<>>
  BY InvIs, LockFitsMember DEF InLock
<1>2. /\ Serving /\ NoneWaits
  BY DEF Working, Serving, Asks, Replied, Refused, Requests, ClosedOn, Reopens, Raises, HasHeard
<1> QED BY <1>1, <1>2 DEF Gets

---------------------------------------------------------------------------
(* A call is made: Begin and Leave *)

LEMMA RpcSends ==
    ASSUME IInv, session.transport = "open", ~ session.failed, manager.exception = None,
           NoneWaits, manager.state \in Calm, lock = <<>>,
           NEW t \in Task, NEW m \in DOMAIN Request, NEW tag, Rpc(t, m, tag)
    PROVE  /\ manager'.state = Sent(m) /\ manager'.exception = None
           /\ Listens(manager', t, m)
           /\ Goes(t, m, tag, "waiting")
           /\ futures' = Prepared(t, m) /\ outbox' = outbox \o <<CallFrame(t, m, tag)>>
           /\ app'.held = app.held /\ app'.settled = app.settled /\ app'.fresh = None
           /\ app'.mailbox = app.mailbox /\ app'.handed = app.handed
<1> DEFINE a == [app EXCEPT !.fresh = None]
<1>1. Send(t, m, tag, <<t>>, Prepared(t, m), a)
  BY DEF Rpc
<1> HIDE DEF a
<1>2. manager \in Managers /\ Quiet(manager)
  BY InvIs DEF NoneWaits
<1>3. ~ IsClosed
  BY DEF IsClosed, Calm, ClosedClientStates
<1>4. /\ ~ SM!Refuses(manager, Sent(m), None)
      /\ LET n == SM!Register(Enter(manager, Sent(m)), t, Range(WaitsOn(m))) IN
         n.state = Sent(m) /\ n.exception = None /\ Listens(n, t, m)
  BY <1>2, CallEnters
<1>5. SendWaits(t, m, tag, <<t>>, Prepared(t, m), a)
  BY <1>1, <1>3, <1>4 DEF Send, SendSkipped, SendRefused
<1>6. /\ manager' = SM!Register(Enter(manager, Sent(m)), t, Range(WaitsOn(m)))
      /\ Goes(t, m, tag, "waiting") /\ futures' = Prepared(t, m) /\ app' = a
      /\ outbox' = outbox \o <<CallFrame(t, m, tag)>>
  BY <1>5 DEF SendWaits, Write
<1>7. /\ a.held = app.held /\ a.settled = app.settled /\ a.fresh = None
      /\ a.mailbox = app.mailbox /\ a.handed = app.handed
  BY InvIs, AppIs DEF AppOf, a
<1> QED BY <1>4, <1>6, <1>7

LEMMA PreparedHas ==
    ASSUME IInv, NEW t \in Task, NEW m
    PROVE  /\ Prepared(t, m).done = futures.done
           /\ Prepared(t, m).get = IF m = "basic_get" THEN Call(t) ELSE futures.get
           /\ Prepared(t, m).pending =
                 IF Consumes(m) THEN Append(futures.pending, [call |-> Call(t), method |-> m])
                 ELSE futures.pending
<1>1. FuturesTyped(futures)
  BY ConsumersAre
<1>2. /\ futures = [pending |-> futures.pending, get |-> futures.get, done |-> futures.done]
  BY <1>1, FutureIs
<1>3. CASE Consumes(m)
  BY <1>2, <1>3 DEF Prepared, Consumes
<1>4. CASE m = "basic_get"
  BY <1>2, <1>4 DEF Prepared, Consumes
<1>5. CASE ~ Consumes(m) /\ m # "basic_get"
  BY <1>5 DEF Prepared
<1> QED BY <1>3, <1>4, <1>5 DEF Consumes

LEMMA LastOf ==
    ASSUME NEW S, NEW s \in Seq(S), NEW x
    PROVE  /\ s \o <<x>> # <<>> /\ Len(s \o <<x>>) = Len(s) + 1
           /\ (s \o <<x>>)[Len(s) + 1] = x
           /\ \A i \in DOMAIN (s \o <<x>>) : i # Len(s) + 1
                 => i \in DOMAIN s /\ (s \o <<x>>)[i] = s[i]
           /\ \A i \in DOMAIN s : i \in DOMAIN (s \o <<x>>) /\ (s \o <<x>>)[i] = s[i]
           /\ Len(s) + 1 \in DOMAIN (s \o <<x>>) /\ Len(s) + 1 \notin DOMAIN s
           /\ Append(s, x) = s \o <<x>>
<1>1. <<x>> \in Seq({x}) /\ s \in Seq(S \cup {x}) /\ <<x>> \in Seq(S \cup {x})
  OBVIOUS
<1>2. /\ s \o <<x>> \in Seq(S \cup {x}) /\ Len(s \o <<x>>) = Len(s) + 1 /\ Len(s) \in Nat
      /\ (s \o <<x>>)[Len(s) + 1] = x
      /\ \A i \in 1..Len(s) : (s \o <<x>>)[i] = s[i]
  BY <1>1
<1>3. DOMAIN (s \o <<x>>) = 1..(Len(s) + 1) /\ DOMAIN s = 1..Len(s)
  BY <1>2
<1>4. Append(s, x) = s \o <<x>>
  <2> DEFINE a == Append(s, x)
             b == s \o <<x>>
  <2>1. /\ a \in Seq(S \cup {x}) /\ Len(a) = Len(s) + 1 /\ a[Len(s) + 1] = x
        /\ \A i \in 1..Len(s) : a[i] = s[i]
    BY <1>1
  <2>2. b \in Seq(S \cup {x}) /\ Len(b) = Len(a) /\ \A i \in 1..Len(a) : a[i] = b[i]
    BY <1>2, <2>1
  <2> HIDE DEF a, b
  <2>3. a = b
    BY <2>1, <2>2, SameSequence
  <2> QED BY <2>3 DEF a, b
<1> QED BY <1>2, <1>3, <1>4

\* A careful task asks.
LEMMA RpcAsks ==
    ASSUME IInv, Working, session.transport = "open", session' = session,
           workload' = workload, FramesUnchanged,
           \A u \in Task : task[u].pc \in {"idle", "iterating"},
           NEW t \in Task, task[t].left > 0, NEW m \in DOMAIN Request, NEW tag,
           Rpc(t, m, tag), task[t].pc = "iterating" => m = "basic_cancel",
           IF Consumes(m) THEN DOMAIN consumers = {} ELSE WindowsAreFull,
           m = "basic_cancel" =>
              /\ tag \in DOMAIN consumers
              /\ \A u \in Task : u # t /\ task[u].pc = "iterating" => task[u].tag # tag,
           m # "basic_cancel" => tag = None
    PROVE  Working' /\ OneAtATime' /\ manager'.exception = None
<1>1. Serving /\ NoneWaits /\ lock = <<>> /\ \A u \in Task : ~ Gets(u)
  BY RestingIs
<1>2. /\ Ledger /\ FreshIsLast /\ TagsAreRegistered /\ ~ session.failed
      /\ manager.exception = None /\ Stage /\ ChannelIsOpen /\ KnownToClient
      /\ Settles(outbox) /\ NonePends
  BY <1>1 DEF Working, Books, Serving
<1>3. Filled
  <2>1. CASE Consumes(m)
    BY <1>2, <2>1 DEF Filled, KnownToClient
  <2>2. CASE ~ Consumes(m)
    BY <1>2, <2>2 DEF Filled, KnownToClient, WindowsAreFull
  <2> QED BY <2>1, <2>2
<1>4. Empty
  BY <1>1, <1>2, <1>3, FilledIsEmpty
<1>5. /\ manager'.state = Sent(m) /\ manager'.exception = None
      /\ Listens(manager', t, m)
      /\ Goes(t, m, tag, "waiting")
      /\ futures' = Prepared(t, m) /\ outbox' = outbox \o <<CallFrame(t, m, tag)>>
      /\ app'.held = app.held /\ app'.settled = app.settled /\ app'.fresh = None
      /\ app'.mailbox = app.mailbox
  <2>1. manager.state \in Calm
    BY <1>4 DEF Empty
  <2> QED BY <1>1, <1>2, <2>1, RpcSends
<1>6. /\ task'[t].pc = "waiting" /\ task'[t].call = m /\ task'[t].tag = tag
      /\ task'[t].result = task[t].result
      /\ \A u \in Task : u # t => task'[u] = task[u]
      /\ \A u \in Task : Call(u)' = Call(u)
      /\ Onward(task, task')
  BY <1>5, GoesTo
<1>7. /\ futures'.done = futures.done
      /\ futures'.get = IF m = "basic_get" THEN Call(t) ELSE futures.get
      /\ futures'.pending =
            IF Consumes(m) THEN futures.pending \o <<[call |-> Call(t), method |-> m]>>
            ELSE futures.pending
      /\ futures.pending \in Seq(Awaiting)
  <2>1. futures.pending \in Seq(Awaiting)
    BY ConsumersAre, FutureIs
  <2> DEFINE by == [call |-> Call(t), method |-> m]
  <2>2. Append(futures.pending, by) = futures.pending \o <<by>>
    <3> HIDE DEF by
    <3> QED BY <2>1, LastOf
  <2> QED BY <1>5, <2>1, <2>2, PreparedHas
<1>8. /\ broker' = broker /\ inbox' = inbox /\ consumers' = consumers /\ message' = message
  BY DEF FramesUnchanged
<1>9. outbox \in Seq(OutFrame)
  BY InvIs
<1>10. SettlesAlike(outbox, outbox')
  <2>1. CallFrame(t, m, tag).type \notin SettleTypes
    BY DEF CallFrame, SettleTypes, SettledState, Request
  <2> QED BY <1>5, <1>9, <2>1, LastOf DEF SettlesAlike
<1>11. Ledger' /\ Underway' = {} /\ Filled'
  BY <1>2, <1>3, <1>4, <1>5, <1>6, <1>8, <1>10, LedgerKept DEF Empty
<1>12. FreshIsLast'
  BY <1>5 DEF FreshIsLast
<1>13. ASSUME task[t].pc = "idle"
       PROVE  /\ NewTo(Call(t))' /\ Call(t) \notin DOMAIN futures'.done
  <2>1. /\ Call(t) \notin DOMAIN futures.done /\ ~ Begun(task, Call(t))
    BY <1>13, NotBegun
  <2>2. NewTo(Call(t))
    BY <1>2, <2>1 DEF NewTo, Ledger, BrokerCounts, HeldIsUnacked
  <2> QED BY <1>5, <1>6, <1>7, <1>8, <2>1, <2>2 DEF NewTo
<1>14. \A i \in DOMAIN futures.pending : futures.pending[i].call # Call(t)
  <2>1. CASE task[t].pc = "idle"
    BY <2>1, NotBegun
  <2>2. CASE task[t].pc = "iterating"
    <3>1. Call(t) \in DOMAIN futures.done
      BY <1>2, <2>2 DEF TagsAreRegistered
    <3> QED BY <3>1, NoneBehindADone DEF Range
  <2> QED BY <2>1, <2>2
<1>15. /\ \A i \in DOMAIN futures'.pending :
             \/ i \in DOMAIN futures.pending /\ futures'.pending[i] = futures.pending[i]
             \/ Consumes(m) /\ futures'.pending[i] = [call |-> Call(t), method |-> m]
       /\ Consumes(m) => /\ Len(futures'.pending) = Len(futures.pending) + 1
                         /\ \E i \in DOMAIN futures'.pending :
                               futures'.pending[i].call = Call(t)
  <2> DEFINE by == [call |-> Call(t), method |-> m]
             p == futures.pending
  <2>1. by.call = Call(t)
    OBVIOUS
  <2>2. Consumes(m) => futures'.pending = p \o <<by>>
    BY <1>7
  <2> HIDE DEF by
  <2>3. /\ Len(p \o <<by>>) = Len(p) + 1 /\ (p \o <<by>>)[Len(p) + 1] = by
        /\ Len(p) + 1 \in DOMAIN (p \o <<by>>)
        /\ \A i \in DOMAIN (p \o <<by>>) : \/ i \in DOMAIN p /\ (p \o <<by>>)[i] = p[i]
                                           \/ (p \o <<by>>)[i] = by
    BY <1>7, LastOf
  <2>4. CASE Consumes(m)
    BY <2>1, <2>2, <2>3, <2>4 DEF by
  <2>5. CASE ~ Consumes(m)
    BY <1>7, <2>5
  <2> QED BY <2>4, <2>5
<1>16. TagsAreRegistered'
  <2> SUFFICES ASSUME NEW u \in Task
               PROVE  /\ task'[u].pc = "iterating" =>
                            Registered(consumers', Call(u)', task'[u].tag, "consume")
                            /\ Call(u)' \in DOMAIN futures'.done
                      /\ Busy(task'[u]) /\ Consumes(task'[u].call)
                            /\ Call(u)' \in DOMAIN futures'.done
                            => Registered(consumers', Call(u)', futures'.done[Call(u)'].tag,
                                         task'[u].call)
                      /\ \A i \in DOMAIN futures'.pending :
                            futures'.pending[i].call = Call(u)' =>
                               /\ Consumes(task'[u].call)
                               /\ futures'.pending[i].method = task'[u].call
    BY DEF TagsAreRegistered
  <2>1. CASE u # t
    <3>1. Call(u) # Call(t)
      BY <2>1 DEF Call
    <3>2. task'[u] = task[u] /\ Call(u)' = Call(u)
      BY <1>6, <2>1
    <3>3. Busy(task'[u]) = FALSE
      BY <3>2 DEF Busy
    <3> QED BY <1>2, <1>7, <1>8, <1>15, <3>1, <3>2, <3>3 DEF TagsAreRegistered
  <2>2. CASE u = t
    <3>1. Consumes(m) => task[t].pc = "idle"
      BY DEF Consumes
    <3> QED BY <1>6, <1>13, <1>14, <1>15, <2>2, <3>1
  <2> QED BY <2>1, <2>2
<1>17. Ready(t)'
  <2>1. Consumes(m) \/ m = "basic_get" => task[t].pc = "idle"
    BY DEF Consumes
  <2>2. Call(t)' = Call(t)
    BY <1>6
  <2>3. Consumes(m) => m # "basic_get" /\ m # "basic_cancel" /\ DOMAIN consumers' = {}
    BY <1>8 DEF Consumes
  <2>4. m = "basic_cancel" =>
           \A u \in Task : task'[u].pc = "iterating" => task'[u].tag # tag
    BY <1>6
  <2> QED BY <1>6, <1>7, <1>8, <1>13, <2>1, <2>2, <2>3, <2>4 DEF Ready
<1>18. OnePends(t)'
  <2>1. NonePends => (ConsumesAreGranted' => futures.pending = <<>>)
    BY DEF NonePends, ConsumesAreGranted
  <2>2. CASE Consumes(m)
    BY <1>2, <1>6, <1>7, <1>15, <2>1, <2>2 DEF OnePends
  <2>3. CASE ~ Consumes(m)
    BY <1>2, <1>6, <1>7, <2>1, <2>3 DEF OnePends, NonePends
  <2> QED BY <2>2, <2>3
<1>19. Requests(t)'
  <2>1. Unheard(t)' /\ manager'.state = Sent(task'[t].call)
    BY <1>5, <1>6 DEF Unheard
  <2>2. MailIsEmpty'
    BY <1>4, <1>5 DEF Empty, MailIsEmpty
  <2> QED BY <1>2, <1>5, <1>6, <1>17, <1>18, <2>1, <2>2 DEF Requests, ChannelIsOpen
<1>20. Asks(t)'
  <2>1. task'[t].call \in {"basic_consume", "consume", "basic_get"} => NewTo(Call(t))'
    BY <1>6, <1>13
  <2>2. [type |-> task'[t].call, by |-> Call(t)', tag |-> task'[t].tag] = CallFrame(t, m, tag)
    BY <1>6 DEF CallFrame
  <2>3. /\ outbox' # <<>> /\ outbox'[Len(outbox')] = CallFrame(t, m, tag)
        /\ \A i \in DOMAIN outbox' : i # Len(outbox') => outbox'[i].type \in SettleTypes
    BY <1>2, <1>5, <1>9, LastOf DEF Settles
  <2>4. broker'.phase = "open" /\ KnownToClient' /\ inbox' = <<>>
    BY <1>2, <1>4, <1>8 DEF ChannelIsOpen, KnownToClient, Empty
  <2> QED BY <1>6, <1>11, <1>19, <2>1, <2>2, <2>3, <2>4 DEF Asks, CallFrame
<1>21. \A u \in Task : task'[u].result \notin {STE, "AttributeError"}
  BY <1>6 DEF Working
<1>22. Working'
  BY <1>2, <1>5, <1>11, <1>12, <1>16, <1>20, <1>21 DEF Working, Books
<1>23. OneAtATime'
  BY <1>6 DEF OneAtATime, Busy
<1> QED BY <1>5, <1>22, <1>23

---------------------------------------------------------------------------
(* The steps of the application *)

LEMMA CallIsRequest ==
    ASSUME IInv, NEW t \in Task, Active(task[t])
    PROVE  task[t].call \in DOMAIN Request
BY InvIs DEF RecordOK

LEMMA WorkingIsOpen ==
    ASSUME IInv, Working
    PROVE  /\ manager.state \notin ClosedClientStates /\ ~ IsClosed
           /\ manager.exception = None /\ ~ session.failed
<1>1. ASSUME Stage
      PROVE  manager.state \notin ClosedClientStates
  BY <1>1 DEF Stage, Empty, Coming, Taking, TakingStates, Stuck, Mailed, Got, Calm,
     ClosedClientStates
<1>2. ASSUME NEW t \in Task, Requests(t)
      PROVE  manager.state \notin ClosedClientStates
  BY <1>2, CallIsRequest, WaitedIs DEF Requests, Active
<1>3. manager.state \notin ClosedClientStates
  BY <1>1, <1>2 DEF Working, Serving, Asks, Replied, Refused, ClosedOn, Reopens, Raises,
     ClosedClientStates
<1> QED BY <1>3 DEF IsClosed, Working

LEMMA BeginCareful ==
    ASSUME IInv, workload.careful, Working, session.transport = "open",
           NEW t \in Task, Begin(t), FramesUnchanged
    PROVE  Working' /\ OneAtATime' /\ manager'.exception = None
<1>1. PICK m \in workload.methods :
         /\ MayCall(m)
         /\ IF m = "basic_cancel" THEN \E tag \in Cancellable : Rpc(t, m, tag)
            ELSE Rpc(t, m, None)
  BY DEF Begin
<1>2. m \in DOMAIN Request /\ task[t].pc = "idle" /\ task[t].left > 0 /\ session' = session
  BY CarefulWorkload DEF Begin
<1>3. /\ \A u \in Task : task[u].pc \in {"idle", "iterating"}
      /\ IF Consumes(m) THEN DOMAIN consumers = {} ELSE WindowsAreFull
      /\ workload' = workload
  BY <1>1 DEF MayCall, FramesUnchanged
<1>4. CASE m = "basic_cancel"
  <2>1. PICK tag \in Cancellable : Rpc(t, m, tag)
    BY <1>1, <1>4
  <2>2. tag \in DOMAIN consumers /\ consumers[tag].method = "basic_consume"
    BY DEF Cancellable
  <2>3. \A u \in Task : task[u].pc = "iterating" => task[u].tag # tag
    <3>1. \A u \in Task : task[u].pc = "iterating"
             => Registered(consumers, Call(u), task[u].tag, "consume")
      BY DEF Working, Books, TagsAreRegistered
    <3>2. ASSUME NEW u \in Task, task[u].pc = "iterating", task[u].tag = tag
          PROVE  FALSE
      <4>1. consumers[tag] = [call |-> Call(u), method |-> "consume"]
        BY <3>1, <3>2 DEF Registered
      <4>2. consumers[tag].method = "consume"
        BY <4>1
      <4> QED BY <2>2, <4>2
    <3> QED BY <3>2
  <2>4. m = "basic_cancel" =>
           /\ tag \in DOMAIN consumers
           /\ \A u \in Task : u # t /\ task[u].pc = "iterating" => task[u].tag # tag
    BY <2>2, <2>3
  <2>5. m # "basic_cancel" => tag = None
    BY <1>4
  <2>6. task[t].pc = "iterating" => m = "basic_cancel"
    BY <1>4
  <2> QED BY <1>2, <1>3, <2>1, <2>4, <2>5, <2>6, RpcAsks
<1>5. CASE m # "basic_cancel"
  <2>1. Rpc(t, m, None)
    BY <1>1, <1>5
  <2> QED BY <1>2, <1>3, <1>5, <2>1, RpcAsks
<1> QED BY <1>4, <1>5

LEMMA LeaveCareful ==
    ASSUME IInv, workload.careful, Working, session.transport = "open",
           NEW t \in Task, Leave(t), FramesUnchanged
    PROVE  Working' /\ OneAtATime' /\ manager'.exception = None
<1>1. ~ IsClosed /\ manager.exception = None
  BY WorkingIsOpen
<1>2. /\ task[t].pc = "iterating" /\ MayCall("basic_cancel") /\ session' = session
      /\ Rpc(t, "basic_cancel", task[t].tag)
  BY <1>1 DEF Leave
<1>3. /\ \A u \in Task : task[u].pc \in {"idle", "iterating"}
      /\ WindowsAreFull /\ workload' = workload /\ ~ Consumes("basic_cancel")
      /\ "basic_cancel" \in DOMAIN Request
  BY <1>2 DEF MayCall, FramesUnchanged, Consumes, Request
<1>4. task[t].left > 0
  BY <1>2, InvIs DEF RecordOK, Active
<1>5. /\ task[t].tag \in DOMAIN consumers
      /\ \A u \in Task : u # t /\ task[u].pc = "iterating" => task[u].tag # task[t].tag
  <2>1. \A u \in Task : task[u].pc = "iterating"
           => Registered(consumers, Call(u), task[u].tag, "consume")
    BY DEF Working, Books, TagsAreRegistered
  <2>2. \A u \in Task : Call(u) = Call(t) => u = t
    BY DEF Call
  <2>3. ASSUME NEW u \in Task, u # t, task[u].pc = "iterating", task[u].tag = task[t].tag
        PROVE  FALSE
    <3>1. [call |-> Call(u), method |-> "consume"] = [call |-> Call(t), method |-> "consume"]
      BY <1>2, <2>1, <2>3 DEF Registered
    <3>2. Call(u) = Call(t)
      BY <3>1
    <3> QED BY <2>2, <2>3, <3>2
  <2>4. task[t].tag \in DOMAIN consumers
    BY <1>2, <2>1 DEF Registered
  <2> QED BY <2>3, <2>4
<1> DEFINE m == "basic_cancel"
<1>6. /\ IF Consumes(m) THEN DOMAIN consumers = {} ELSE WindowsAreFull
      /\ m \in DOMAIN Request /\ Rpc(t, m, task[t].tag)
      /\ m # "basic_cancel" => task[t].tag = None
      /\ task[t].pc = "iterating" => m = "basic_cancel"
      /\ m = "basic_cancel" =>
            /\ task[t].tag \in DOMAIN consumers
            /\ \A u \in Task : u # t /\ task[u].pc = "iterating" => task[u].tag # task[t].tag
  BY <1>2, <1>3, <1>5
<1> HIDE DEF m
<1> QED BY <1>2, <1>3, <1>4, <1>6, RpcAsks

\* A message that comes to the application, the last that was under way.
LEMMA HandServes ==
    ASSUME IInv, Books, broker' = broker, outbox' = outbox, app'.settled = app.settled,
           NEW msg \in Message, IsUnderway(msg.delivery), app'.held = app.held \cup {msg},
           app'.fresh = msg, MailIsEmpty', NoneGot', inbox' = <<>>,
           manager'.state = "MESSAGE_ASSEMBLED", Onward(task, task')
    PROVE  Ledger' /\ FreshIsLast' /\ Empty' /\ Filled' /\ Stage'
<1>1. Ledger' /\ Underway' = {} /\ Filled' /\ broker.phase = "open"
  BY LedgerHanded DEF Books
<1>2. FreshIsLast'
  BY <1>1 DEF FreshIsLast, IsUnderway
<1>3. Empty'
  BY <1>1 DEF Empty, Calm
<1> QED BY <1>1, <1>2, <1>3 DEF Stage

LEMMA TakeNextCareful ==
    ASSUME IInv, Working, OneAtATime, session.transport = "open",
           NEW t \in Task, TakeNext(t), FramesUnchanged
    PROVE  Working' /\ OneAtATime' /\ manager'.exception = None
<1> DEFINE q == MailOf(Call(t))
           msg == Head(q)
<1>1. /\ q # <<>> /\ task[t].pc = "iterating"
      /\ app' = [Hand(app, Call(t), msg) EXCEPT !.mailbox = With(@, Call(t), Tail(q))]
      /\ manager' = manager /\ task' = task /\ futures' = futures /\ session' = session
      /\ outbox' = outbox /\ broker' = broker /\ inbox' = inbox /\ consumers' = consumers
      /\ message' = message /\ workload' = workload /\ last' = last
  BY DEF TakeNext, FramesUnchanged
<1>2. Call(t) \in DOMAIN app.mailbox /\ q = app.mailbox[Call(t)] /\ ~ MailIsEmpty
  BY <1>1 DEF MailOf, MailIsEmpty
<1>3. Serving /\ Mailed
  <2>1. Serving
    BY <1>2 DEF Working, Asks, Replied, Refused, Requests, ClosedOn, Reopens, Raises, Closes
  <2>2. Mailed
    BY <1>2, <2>1 DEF Serving, Stage, Empty, Coming, Taking, Stuck, Got
  <2> QED BY <2>1, <2>2
<1>4. q \in Seq(Message) /\ Call(t) \in Calls /\ msg \in Message /\ Tail(q) \in Seq(Message)
  <2>1. q \in Seq(Message)
    BY <1>2, InvIs, AppIs
  <2>2. Call(t) \in Calls
    BY InvIs, CallIs DEF Call
  <2> HIDE DEF q
  <2> QED BY <1>1, <2>1, <2>2
<1>5. /\ Len(q) = 1 /\ IsUnderway(q[1].delivery) /\ ~ q[1].delivery.get
      /\ \A call \in DOMAIN app.mailbox \ {Call(t)} : app.mailbox[call] = <<>>
  <2>1. PICK call \in DOMAIN app.mailbox :
          /\ Len(app.mailbox[call]) = 1 /\ ~ app.mailbox[call][1].delivery.get
          /\ IsUnderway(app.mailbox[call][1].delivery)
          /\ \A other \in DOMAIN app.mailbox \ {call} : app.mailbox[other] = <<>>
    BY <1>3 DEF Mailed
  <2>2. call = Call(t)
    BY <1>1, <1>2, <2>1
  <2> QED BY <1>2, <2>1, <2>2
<1>6. msg = q[1] /\ Tail(q) = <<>>
  <2> HIDE DEF q
  <2>1. Len(Tail(q)) = 0 /\ Tail(q) \in Seq(Message) /\ Head(q) = q[1]
    BY <1>1, <1>4, <1>5
  <2>2. \A s \in Seq(Message) : Len(s) = 0 => s = <<>>
    OBVIOUS
  <2> QED BY <2>1, <2>2
<1>7. /\ app'.held = app.held \cup {msg} /\ app'.fresh = msg /\ app'.settled = app.settled
      /\ app'.mailbox = With(app.mailbox, Call(t), Tail(q))
  <2> HIDE DEF q, msg
  <2>1. app = AppOf(app.held, app.fresh, app.handed, app.settled, app.mailbox)
    BY InvIs, AppIs
  <2> QED BY <1>1, <2>1 DEF Hand, AppOf
<1>8. MailIsEmpty'
  BY <1>5, <1>6, <1>7 DEF MailIsEmpty, With
<1>9. NoneGot' /\ inbox' = <<>> /\ manager'.state = "MESSAGE_ASSEMBLED"
  BY <1>1, <1>3 DEF Mailed, NoneGot, Gets, Call
<1>10. Ledger' /\ FreshIsLast' /\ Empty' /\ Filled' /\ Stage'
  <2>1. Onward(task, task')
    BY <1>1 DEF Onward
  <2>2. IsUnderway(msg.delivery) /\ Books
    BY <1>5, <1>6 DEF Working
  <2> HIDE DEF msg
  <2> QED BY <1>1, <1>4, <1>7, <1>8, <1>9, <2>1, <2>2, HandServes
<1>11. TagsAreRegistered'
  BY <1>1 DEF Working, Books, TagsAreRegistered, Call
<1>12. Serving'
  <2>1. NoneWaits' <=> NoneWaits
    BY <1>1 DEF NoneWaits
  <2>2. \A u \in Task : AtRest(u)' <=> AtRest(u)
    BY <1>1 DEF AtRest
  <2>3. \A u \in Task : HasHeard(u) => HasHeard(u)'
    <3> SUFFICES ASSUME NEW u \in Task, HasHeard(u)
                 PROVE  HasHeard(u)'
      OBVIOUS
    <3>1. PICK s \in Answers(task[u].call) : Heard(u, s)
      BY DEF HasHeard
    <3>2. Heard(u, s)'
      BY <1>1, <3>1 DEF Heard
    <3>3. Consumes(task[u].call)
      <4> HIDE DEF q
      <4>1. Ledger /\ IsUnderway(q[1].delivery) /\ ~ q[1].delivery.get
        BY <1>5 DEF Working, Books
      <4>2. ~ Filled
        BY <4>1, FilledIsServed
      <4> QED BY <4>2 DEF HasHeard
    <3> QED BY <1>1, <1>10, <3>1, <3>2, <3>3 DEF HasHeard
  <2>4. ChannelIsOpen' /\ KnownToClient' /\ NonePends' /\ Settles(outbox)'
    BY <1>1, <1>3 DEF Serving, ChannelIsOpen, KnownToClient, NonePends, ConsumesAreGranted,
       Settles
  <2> QED BY <1>3, <1>10, <2>1, <2>2, <2>3, <2>4 DEF Serving
<1>13. OneAtATime' /\ \A u \in Task : task'[u].result \notin {STE, "AttributeError"}
  BY <1>1 DEF OneAtATime, Working
<1> QED BY <1>1, <1>10, <1>11, <1>12, <1>13 DEF Working, Books

---------------------------------------------------------------------------
(* Where the busy task is *)

LEMMA BusyIs ==
    ASSUME IInv, Working, OneAtATime, NEW t \in Task, Busy(task[t])
    PROVE  /\ task[t].pc \in {"waiting", "future", "opening", "raising"}
           /\ task[t].pc = "future" => Serving /\ NoneWaits
           /\ task[t].pc = "waiting" => \/ Serving /\ HasHeard(t)
                                        \/ Asks(t) \/ Replied(t) \/ Refused(t) \/ ClosedOn(t)
           /\ task[t].pc = "opening" => Reopens(t)
           /\ task[t].pc = "raising" => Raises(t)
           /\ \A u \in Task : u # t => task[u].pc \in {"idle", "iterating"}
<1>1. \A u \in Task : Busy(task[u]) => u = t
  BY DEF OneAtATime
<1>2. CASE Serving /\ NoneWaits /\ \A u \in Task : AtRest(u)
  BY <1>1, <1>2 DEF AtRest, Busy
<1>3. CASE Serving /\ \E u \in Task : HasHeard(u)
  BY <1>1, <1>3 DEF HasHeard, Busy
<1>4. CASE \E u \in Task : Asks(u) \/ Replied(u) \/ Refused(u)
  BY <1>1, <1>4 DEF Asks, Replied, Refused, Requests, Busy
<1>5. CASE \E u \in Task : ClosedOn(u) \/ Reopens(u) \/ Raises(u)
  BY <1>1, <1>5 DEF ClosedOn, Reopens, Raises, Busy
<1> QED BY <1>2, <1>3, <1>4, <1>5 DEF Working, Serving

\* The message that may be settled is there when nothing else is.
LEMMA FreshIs ==
    ASSUME IInv, Working, app.fresh # None
    PROVE  Serving /\ Empty /\ Filled /\ manager.state = "MESSAGE_ASSEMBLED"
<1>1. /\ Underway = {} /\ Filled /\ manager.state = "MESSAGE_ASSEMBLED"
  BY DEF Working, Books, FreshIsLast
<1>2. Serving
  BY DEF Working, Asks, Replied, Refused, Requests, ClosedOn, Reopens, Raises, Closes
<1>3. ASSUME NEW d, IsUnderway(d)
      PROVE  FALSE
  BY <1>1, <1>3 DEF IsUnderway
<1>4. Empty
  BY <1>2, <1>3 DEF Serving, Stage, Coming, Taking, Stuck, Mailed, Got
<1> QED BY <1>1, <1>2, <1>4

\* An event stays set, or to be set, while its task waits.
LEMMA HeardStays ==
    ASSUME NEW t \in Task, HasHeard(t), task'[t] = task[t],
           manager'.waits = manager.waits, manager'.ready = manager.ready,
           manager'.fired = manager.fired,
           Consumes(task[t].call) \/ (Filled' /\ app'.fresh = None),
           task[t].call = "queue_declare" => last' = "DeclareOk" /\ Empty'
    PROVE  HasHeard(t)'
<1>1. PICK s \in Answers(task[t].call) : Heard(t, s)
  BY DEF HasHeard
<1>2. Heard(t, s)'
  BY <1>1 DEF Heard, Hears
<1> QED BY <1>1, <1>2 DEF HasHeard

LEMMA SettleCareful ==
    ASSUME IInv, workload.careful, Working, OneAtATime, session.transport = "open",
           Settle, FramesUnchanged
    PROVE  Working' /\ OneAtATime' /\ manager'.exception = None
<1>1. PICK msg \in app.held, how \in workload.settlements, handled \in BOOLEAN :
         /\ msg = app.fresh /\ ~ how.multiple
         /\ Write(<<[type |-> how.type, tag |-> msg.delivery.id[2],
                     multiple |-> how.multiple, requeue |-> how.requeue]>>)
         /\ manager' = Enter(manager, SettledState[how.type])
         /\ app' = [app EXCEPT !.held = @ \ {msg}, !.fresh = None,
                               !.settled = @ \cup {msg.delivery.id}]
         /\ Fails(~ handled /\ SM!Refuses(manager, SettledState[how.type], None))
  BY DEF Settle
<1>2. /\ task' = task /\ futures' = futures /\ lock' = lock /\ broker' = broker
      /\ inbox' = inbox /\ consumers' = consumers /\ message' = message
      /\ workload' = workload /\ last' = last
  BY DEF Settle, FramesUnchanged
<1>3. how.type \in SettleTypes /\ how.requeue \in BOOLEAN /\ how \in Settlement
  BY CarefulWorkload DEF Settlement, SettleTypes
<1>4. msg \in Message /\ msg # None /\ msg.delivery.id[2] \in Nat
  BY <1>1, HeldIs
<1>5. Serving /\ Empty /\ Filled /\ manager.state = "MESSAGE_ASSEMBLED"
  BY <1>1, <1>4, FreshIs
<1> DEFINE frame == [type |-> how.type, tag |-> msg.delivery.id[2],
                     multiple |-> how.multiple, requeue |-> how.requeue]
<1>6. /\ frame \in OutFrame /\ frame.type = how.type /\ ~ frame.multiple
      /\ frame.tag = msg.delivery.id[2]
  BY <1>1, <1>3, <1>4 DEF OutFrame, Settlement, SettleTypes
<1>7. /\ app'.held = app.held \ {msg} /\ app'.fresh = None
      /\ app'.settled = app.settled \cup {msg.delivery.id} /\ app'.mailbox = app.mailbox
  <2>1. app = AppOf(app.held, app.fresh, app.handed, app.settled, app.mailbox)
    BY InvIs, AppIs
  <2> QED BY <1>1, <2>1 DEF AppOf
<1>8. outbox' = outbox \o <<frame>>
  BY <1>1 DEF Write
<1> HIDE DEF frame
<1>9. Ledger' /\ Underway' = {}
  BY <1>1, <1>2, <1>3, <1>6, <1>7, <1>8, LedgerSettled DEF Working, Books
<1>10. /\ ~ SM!Refuses(manager, SettledState[how.type], None)
       /\ manager'.state = SettledState[how.type] /\ manager'.exception = None
       /\ manager'.waits = manager.waits /\ manager'.ready = manager.ready
       /\ manager'.fired = manager.fired
  <2>1. SettledState[how.type] \in Parts /\ manager \in Managers /\ manager.exception = None
    BY <1>3, InvIs DEF SettleTypes, SettledState, Parts, Working
  <2>2. SettledState[how.type] \in ClientTransitions[manager.state]
    BY <1>3, <1>5, CarefulTransitions DEF SettleTypes
  <2>3. \/ Quiet(manager)
        \/ \E u \in Task, c \in DOMAIN Request : \E x \in Polled(c) : Hears(manager, u, c, x)
    <3>1. ASSUME NEW u \in Task, HasHeard(u)
          PROVE  \E c \in DOMAIN Request : \E x \in Polled(c) : Hears(manager, u, c, x)
      <4>1. PICK s \in Answers(task[u].call) : Heard(u, s)
        BY <3>1 DEF HasHeard
      <4>2. task[u].call \in DOMAIN Request
        BY <3>1, CallIsRequest DEF HasHeard, Active
      <4> QED BY <4>1, <4>2 DEF Heard, Polled
    <3> QED BY <1>5, <3>1 DEF Serving, NoneWaits
  <2> QED BY <1>1, <2>1, <2>2, <2>3, PartEnters
<1>11. session' = session
  <2>1. session = [session EXCEPT !.failed = @ \/ FALSE]
    BY InvIs DEF Sessions
  <2> QED BY <1>1, <1>10, <2>1 DEF Fails
<1>12. Empty'
  <2>1. manager'.state \in Calm
    BY <1>3, <1>10 DEF SettleTypes, SettledState, Calm
  <2> QED BY <1>2, <1>5, <1>7, <1>9, <2>1 DEF Empty, MailIsEmpty, NoneGot, Gets, Call
<1>13. Books'
  BY <1>2, <1>7, <1>9 DEF Working, Books, FreshIsLast, TagsAreRegistered, Call
<1>14. Serving'
  <2>1. ASSUME NEW u \in Task, HasHeard(u)
        PROVE  HasHeard(u)'
    <3>1. Consumes(task[u].call)
      BY <1>1, <1>4, <2>1 DEF HasHeard
    <3> QED BY <1>2, <1>10, <2>1, <3>1, HeardStays DEF Consumes
  <2>2. NoneWaits => NoneWaits'
    BY <1>10 DEF NoneWaits, Quiet
  <2>3. Settles(outbox)'
    <3>1. outbox \in Seq(OutFrame) /\ Settles(outbox)
      BY <1>5, InvIs DEF Serving
    <3> QED BY <1>3, <1>6, <1>8, <3>1, LastOf DEF Settles
  <2>4. ChannelIsOpen' /\ KnownToClient' /\ NonePends' /\ Stage'
    BY <1>2, <1>5, <1>11, <1>12 DEF Serving, ChannelIsOpen, KnownToClient, NonePends,
       ConsumesAreGranted, Stage
  <2>5. \A u \in Task : AtRest(u) => AtRest(u)'
    BY <1>2 DEF AtRest
  <2> QED BY <1>5, <2>1, <2>2, <2>3, <2>4, <2>5 DEF Serving
<1>15. OneAtATime' /\ \A u \in Task : task'[u].result \notin {STE, "AttributeError"}
  BY <1>2 DEF OneAtATime, Working
<1> QED BY <1>10, <1>11, <1>13, <1>14, <1>15 DEF Working

\* What is under way stays where it is.
LEMMA MailedStays ==
    ASSUME Mailed, manager'.state = manager.state, inbox' = inbox,
           app'.mailbox = app.mailbox, NoneGot', \A d : IsUnderway(d) => IsUnderway(d)'
    PROVE  Mailed'
<1>1. PICK call \in DOMAIN app.mailbox :
         /\ Len(app.mailbox[call]) = 1
         /\ ~ app.mailbox[call][1].delivery.get /\ IsUnderway(app.mailbox[call][1].delivery)
         /\ \A other \in DOMAIN app.mailbox \ {call} : app.mailbox[other] = <<>>
  BY DEF Mailed
<1>2. PICK d : d = app.mailbox[call][1].delivery
  OBVIOUS
<1>3. IsUnderway(d)'
  BY <1>1, <1>2
<1>4. IsUnderway(app.mailbox[call][1].delivery)'
  BY <1>2, <1>3 DEF IsUnderway
<1>5. inbox' = <<>> /\ manager'.state = "MESSAGE_ASSEMBLED"
  BY DEF Mailed
<1> QED BY <1>1, <1>4, <1>5 DEF Mailed

LEMMA CollectedStays ==
    ASSUME manager'.state = manager.state, inbox' = inbox, message' = message,
           workload' = workload, MailIsEmpty => MailIsEmpty', NoneGot => NoneGot',
           IsUnderway(message.delivery) => IsUnderway(message.delivery)',
           message # None /\ ForItsGet(message.delivery) => ForItsGet(message.delivery)'
    PROVE  (Taking => Taking') /\ (Stuck => Stuck')
<1>1. (Collecting' <=> Collecting) /\ TakingStates(message') = TakingStates(message)
  BY DEF Collecting
<1>2. Collecting => message # None
  BY DEF Collecting
<1>3. Taking => Taking'
  BY <1>1, <1>2 DEF Taking
<1>4. Stuck => Stuck'
  BY <1>1 DEF Stuck
<1> QED BY <1>3, <1>4

LEMMA StageStays ==
    ASSUME manager'.state = manager.state, inbox' = inbox, message' = message,
           workload' = workload, app'.mailbox = app.mailbox, futures'.done = futures.done,
           futures'.get = futures.get, broker' = broker, Underway' = Underway,
           \A t \in Task : (Gets(t)' <=> Gets(t)) /\ (Gets(t) => Call(t)' = Call(t))
    PROVE  (Empty => Empty') /\ (Stage => Stage')
<1>1. (MailIsEmpty' <=> MailIsEmpty) /\ (NoneGot' <=> NoneGot)
  BY DEF MailIsEmpty, NoneGot
<1>2. Empty => Empty'
  BY <1>1 DEF Empty
<1>3. Coming => Coming'
  BY <1>1 DEF Coming, IsUnderway, BeginsFirst
<1>4. \A d : IsUnderway(d) => IsUnderway(d)'
  BY DEF IsUnderway
<1>5. message # None /\ ForItsGet(message.delivery) => ForItsGet(message.delivery)'
  BY DEF ForItsGet
<1>6. IsUnderway(message.delivery) => IsUnderway(message.delivery)'
  BY DEF IsUnderway
<1>7. (Taking => Taking') /\ (Stuck => Stuck')
  BY <1>1, <1>5, <1>6, CollectedStays
<1>8. Mailed => Mailed'
  <2> SUFFICES ASSUME Mailed
               PROVE  Mailed'
    OBVIOUS
  <2>1. NoneGot'
    BY <1>1 DEF Mailed
  <2> QED BY <1>4, <2>1, MailedStays
<1>9. Got => Got'
  BY <1>1 DEF Got, IsUnderway
<1> QED BY <1>2, <1>3, <1>7, <1>8, <1>9 DEF Stage

LEMMA RunReadyCareful ==
    ASSUME IInv, Working, OneAtATime, session.transport = "open",
           RunReady, FramesUnchanged
    PROVE  Working' /\ OneAtATime' /\ manager'.exception = None
<1>1. /\ manager.ready # <<>> /\ manager' = SM!RunCallbacks(manager)
      /\ task' = task /\ futures' = futures /\ session' = session /\ app' = app
      /\ outbox' = outbox /\ broker' = broker /\ inbox' = inbox /\ consumers' = consumers
      /\ message' = message /\ workload' = workload /\ last' = last
  BY DEF RunReady, FramesUnchanged
<1>2. manager'.state = manager.state /\ manager'.exception = manager.exception
  BY <1>1 DEF SM!RunCallbacks
<1>3. ASSUME NEW t \in Task, NEW s, Heard(t, s)
      PROVE  Heard(t, s)'
  <2>1. Hears(manager', t, task[t].call, s)
    BY <1>1, <1>3, InvIs, HeardRuns DEF Heard
  <2> QED BY <1>1, <2>1 DEF Heard
<1>4. Underway' = Underway /\ (Filled => Filled') /\ Ledger' /\ Books'
  <2>1. Onward(task, task') /\ SettlesAlike(outbox, outbox')
    BY <1>1 DEF Onward, SettlesAlike
  <2>2. Underway' = Underway /\ (Filled => Filled') /\ Ledger'
    BY <1>1, <2>1, LedgerKept DEF Working, Books
  <2>3. FreshIsLast'
    BY <1>1, <1>2, <2>2 DEF Working, Books, FreshIsLast
  <2>4. TagsAreRegistered'
    BY <1>1 DEF Working, Books, TagsAreRegistered, Call
  <2> QED BY <2>2, <2>3, <2>4 DEF Books
<1>6. (Empty => Empty') /\ (Stage => Stage')
  <2>1. \A t \in Task : (Gets(t)' <=> Gets(t)) /\ Call(t)' = Call(t)
    BY <1>1 DEF Gets, Call
  <2> QED BY <1>1, <1>2, <1>4, <2>1, StageStays
<1>7. ~ NoneWaits /\ \A t \in Task : ~ Unheard(t)
  BY <1>1 DEF NoneWaits, Quiet, Unheard, Listens
<1>8. CASE Serving
  <2>1. PICK t \in Task : HasHeard(t)
    BY <1>7, <1>8 DEF Serving
  <2>2. HasHeard(t)'
    BY <1>1, <1>3, <1>4, <1>6, <2>1 DEF HasHeard
  <2>3. Serving'
    BY <1>1, <1>6, <1>8, <2>2 DEF Serving, ChannelIsOpen, KnownToClient, NonePends,
       ConsumesAreGranted
  <2> QED BY <1>1, <1>2, <1>4, <2>3 DEF Working, OneAtATime
<1>9. CASE \E t \in Task : ClosedOn(t)
  <2>1. PICK t \in Task : ClosedOn(t)
    BY <1>9
  <2>2. Heard(t, "CHANNEL_CLOSE_RECEIVED")'
    BY <1>3, <2>1 DEF ClosedOn
  <2>3. ClosedOn(t)'
    BY <1>1, <1>2, <2>1, <2>2 DEF ClosedOn, Closes, MailIsEmpty, NonePends, ConsumesAreGranted
  <2> QED BY <1>1, <1>2, <1>4, <2>3 DEF Working, OneAtATime
<1> QED BY <1>7, <1>8, <1>9 DEF Working, Asks, Replied, Refused, Requests, Reopens, Raises

---------------------------------------------------------------------------
(* A call ends *)

LEMMA OneStays ==
    ASSUME OneAtATime, NEW t \in Task, Busy(task[t]), task'[t].pc # "queued",
           \A u \in Task : u # t => task'[u] = task[u]
    PROVE  OneAtATime' /\ \A u \in Task : u # t => task'[u].pc \in {"idle", "iterating"}
<1>1. \A u \in Task : u # t => task[u].pc \in {"idle", "iterating"}
  BY DEF OneAtATime, Busy
<1>2. \A u \in Task : Busy(task'[u]) => u = t
  BY <1>1 DEF Busy
<1>3. \A u \in Task : task'[u].pc # "queued"
  BY <1>1
<1> QED BY <1>1, <1>2, <1>3 DEF OneAtATime

LEMMA TagsStay ==
    ASSUME IInv, TagsAreRegistered, NEW t \in Task, Busy(task[t]), NEW tag, NEW pc,
           Goes(t, task[t].call, tag, pc), pc # "idle",
           pc = "iterating" => /\ task[t].call = "consume" /\ Call(t) \in DOMAIN futures.done
                               /\ tag = futures.done[Call(t)].tag,
           consumers' = consumers, futures'.done = futures.done,
           futures'.pending = futures.pending
    PROVE  TagsAreRegistered'
<1>1. /\ task'[t].pc = pc /\ task'[t].call = task[t].call /\ task'[t].tag = tag
      /\ \A u \in Task : u # t => task'[u] = task[u]
      /\ \A u \in Task : Call(u)' = Call(u)
  BY GoesTo
<1>2. ASSUME NEW u \in Task, task'[u].pc = "iterating"
      PROVE  Registered(consumers', Call(u)', task'[u].tag, "consume")
             /\ Call(u)' \in DOMAIN futures'.done
  <2>1. CASE u = t
    BY <1>1, <1>2, <2>1 DEF TagsAreRegistered, Consumes
  <2>2. CASE u # t
    BY <1>1, <1>2, <2>2 DEF TagsAreRegistered
  <2> QED BY <2>1, <2>2
<1>3. ASSUME NEW u \in Task, Busy(task'[u]), Consumes(task'[u].call),
             Call(u)' \in DOMAIN futures'.done
      PROVE  Registered(consumers', Call(u)', futures'.done[Call(u)'].tag, task'[u].call)
  <2>1. CASE u = t
    BY <1>1, <1>3, <2>1 DEF TagsAreRegistered
  <2>2. CASE u # t
    BY <1>1, <1>3, <2>2 DEF TagsAreRegistered
  <2> QED BY <2>1, <2>2
<1>4. ASSUME NEW u \in Task, NEW i \in DOMAIN futures'.pending,
             futures'.pending[i].call = Call(u)'
      PROVE  Consumes(task'[u].call) /\ futures'.pending[i].method = task'[u].call
  BY <1>1, <1>4 DEF TagsAreRegistered
<1> QED BY <1>2, <1>3, <1>4 DEF TagsAreRegistered

LEMMA TagsEnd ==
    ASSUME IInv, TagsAreRegistered, NEW t \in Task, Active(task[t]), NEW m, NEW result,
           End(t, m, result), consumers' = consumers, futures'.done = futures.done,
           futures'.pending = futures.pending
    PROVE  TagsAreRegistered'
<1>1. /\ task'[t].pc = "idle" /\ task'[t].left = task[t].left - 1
      /\ \A u \in Task : u # t => task'[u] = task[u] /\ Call(u)' = Call(u)
  BY EndsAs
<1>2. ~ IsPending(futures, Call(t)')
  <2>1. task[t].left \in Nat /\ task[t].left > 0
    BY InvIs, CallIs DEF RecordOK
  <2>2. Call(t)' = <<t, task[t].left - 1>> /\ Call(t)' \in Calls
    BY <1>1, <2>1 DEF Call, Calls
  <2>3. ~ Begun(task, Call(t)')
    BY <2>1, <2>2 DEF Begun
  <2> QED BY <2>2, <2>3, InvIs DEF CallsOwn, FuturesOwn
<1>3. \A u \in Task : Busy(task'[u]) \/ task'[u].pc = "iterating" => u # t
  BY <1>1 DEF Busy
<1> QED BY <1>1, <1>2, <1>3 DEF TagsAreRegistered, IsPending

\* A call whose message, if it has one, is not under way any more ends.
LEMMA EndServes ==
    ASSUME IInv, Books, OneAtATime, Stage, ChannelIsOpen', KnownToClient, NonePends,
           Settles(outbox), NEW t \in Task, Busy(task[t]), NEW m, NEW result,
           End(t, m, result), manager'.state = manager.state, Quiet(manager'),
           task[t].call # "basic_get" \/ (Call(t) \in DOMAIN futures.done /\ NoneGot),
           futures'.done = futures.done, futures'.pending = futures.pending,
           task[t].call # "basic_get" => futures'.get = futures.get, app' = app,
           outbox' = outbox, FramesUnchanged
    PROVE  Books' /\ Serving' /\ OneAtATime'
<1>1. /\ broker' = broker /\ inbox' = inbox /\ consumers' = consumers /\ message' = message
      /\ workload' = workload
  BY DEF FramesUnchanged
<1>2. /\ task'[t].pc = "idle" /\ \A u \in Task : u # t => task'[u] = task[u]
      /\ \A u \in Task : u # t => Call(u)' = Call(u)
      /\ Onward(task, task')
  BY EndsAs DEF Busy, Active
<1>3. OneAtATime' /\ \A u \in Task : task'[u].pc \in {"idle", "iterating"}
  BY <1>2, OneStays
<1>4. Ledger' /\ Underway' = Underway /\ (Filled => Filled')
  <2>1. SettlesAlike(outbox, outbox')
    BY DEF SettlesAlike
  <2> QED BY <1>1, <1>2, <2>1, LedgerKept DEF Books
<1>5. TagsAreRegistered'
  BY <1>1, TagsEnd DEF Books, Busy, Active
<1>6. FreshIsLast'
  BY <1>1, <1>4 DEF Books, FreshIsLast
<1>7. /\ \A u \in Task : ~ Gets(u)'
      /\ \A u \in Task : Gets(u) => u = t /\ task[t].call = "basic_get"
  BY <1>3 DEF Gets, OneAtATime, Busy
<1>8. ASSUME NEW d, ForItsGet(d)
      PROVE  ~ d.get
  <2> SUFFICES ASSUME d.get
               PROVE  FALSE
    OBVIOUS
  <2>1. PICK u \in Task : Gets(u) /\ Call(u) = d.for /\ d.for \notin DOMAIN futures.done
    BY <1>8 DEF ForItsGet
  <2> QED BY <1>7, <2>1
<1>9. MailIsEmpty' = MailIsEmpty /\ NoneGot'
  BY <1>7 DEF MailIsEmpty, NoneGot
<1>10. Stage'
  <2>1. CASE Empty
    BY <1>1, <1>4, <1>9, <2>1 DEF Stage, Empty
  <2>2. CASE Coming
    BY <1>1, <1>4, <1>9, <2>2 DEF Stage, Coming, BeginsFirst, IsUnderway
  <2>3. CASE Taking \/ Stuck
    <3>1. ForItsGet(message.delivery) => ForItsGet(message.delivery)'
      <4> SUFFICES ASSUME ForItsGet(message.delivery)
                   PROVE  ForItsGet(message.delivery)'
        OBVIOUS
      <4>1. ~ message.delivery.get
        BY <1>8
      <4> QED BY <1>1, <4>1 DEF ForItsGet
    <3>2. IsUnderway(message.delivery) => IsUnderway(message.delivery)'
      BY <1>1, <1>4 DEF IsUnderway
    <3> QED BY <1>1, <1>9, <2>3, <3>1, <3>2, CollectedStays DEF Stage
  <2>5. CASE Mailed
    <3>1. \A d : IsUnderway(d) => IsUnderway(d)'
      BY <1>1, <1>4 DEF IsUnderway
    <3> QED BY <1>1, <1>9, <2>5, <3>1, MailedStays DEF Stage
  <2>6. CASE Got
    <3>1. PICK u \in Task : /\ Gets(u) /\ Call(u) \in DOMAIN futures.done
                            /\ futures.done[Call(u)].message # None
      BY <2>6 DEF Got
    <3> QED BY <1>7, <3>1 DEF NoneGot
  <2> QED BY <2>1, <2>2, <2>3, <2>5, <2>6 DEF Stage
<1>11. Serving'
  BY <1>1, <1>3, <1>10 DEF Serving, KnownToClient, NonePends, ConsumesAreGranted, Settles,
     NoneWaits, AtRest
<1> QED BY <1>3, <1>4, <1>5, <1>6, <1>11 DEF Books

\* The call awaits its future, or takes its result.
LEMMA AwaitServes ==
    ASSUME IInv, Books, OneAtATime, Stage, ChannelIsOpen, KnownToClient, NonePends,
           Settles(outbox), NEW t \in Task, task[t].pc \in {"waiting", "future"},
           NEW m, m = task[t].call,
           Await(t, m, futures, app), session' = session,
           manager'.state = manager.state, Quiet(manager'),
           outbox' = outbox, FramesUnchanged
    PROVE  /\ Books' /\ Serving' /\ OneAtATime'
           /\ task'[t].result \in {task[t].result, "answered"}
           /\ \A u \in Task : u # t => task'[u] = task[u]
<1>1. /\ broker' = broker /\ inbox' = inbox /\ consumers' = consumers /\ message' = message
      /\ workload' = workload
  BY DEF FramesUnchanged
<1>2. Busy(task[t]) /\ Active(task[t]) /\ Call(t) \in Calls
  BY InvIs, CallIs DEF Busy, Active, Call
<1>3. \A u \in Task : Gets(u) => Gets(t) /\ u = t
  BY <1>2 DEF Gets, OneAtATime, Busy
<1>4. ChannelIsOpen'
  BY <1>1 DEF ChannelIsOpen
<1>5. CASE Call(t) \notin DOMAIN futures.done
  <2>1. Goes(t, m, None, "future") /\ futures' = futures /\ app' = app
    BY <1>5 DEF Await
  <2>2. /\ task'[t].pc = "future" /\ task'[t].call = m /\ task'[t].result = task[t].result
        /\ \A u \in Task : u # t => task'[u] = task[u]
        /\ \A u \in Task : Call(u)' = Call(u)
        /\ Onward(task, task')
    BY <2>1, GoesTo
  <2>3. OneAtATime' /\ \A u \in Task : AtRest(u)'
    BY <1>2, <2>2, OneStays DEF AtRest
  <2>4. Ledger' /\ Underway' = Underway /\ (Filled => Filled')
    <3>1. SettlesAlike(outbox, outbox')
      BY DEF SettlesAlike
    <3> QED BY <1>1, <2>1, <2>2, <3>1, LedgerKept DEF Books
  <2>5. TagsAreRegistered'
    BY <1>1, <1>2, <2>1, TagsStay DEF Books
  <2>6. FreshIsLast'
    BY <1>1, <2>1, <2>4 DEF Books, FreshIsLast
  <2>7. Stage'
    <3>1. \A u \in Task : (Gets(u)' <=> Gets(u)) /\ Call(u)' = Call(u)
      BY <2>2 DEF Gets
    <3> QED BY <1>1, <2>1, <2>4, <3>1, StageStays
  <2>8. Serving'
    BY <1>1, <1>4, <2>1, <2>3, <2>7 DEF Serving, KnownToClient, NonePends, ConsumesAreGranted,
       Settles, NoneWaits
  <2> QED BY <2>2, <2>3, <2>4, <2>5, <2>6, <2>8 DEF Books
<1>6. CASE Call(t) \in DOMAIN futures.done /\ m = "consume"
  <2> DEFINE tag == futures.done[Call(t)].tag
  <2>1. Goes(t, m, tag, "iterating") /\ futures' = futures /\ app' = app
    BY <1>6 DEF Await
  <2>2. /\ task'[t].pc = "iterating" /\ task'[t].call = m /\ task'[t].result = task[t].result
        /\ \A u \in Task : u # t => task'[u] = task[u]
        /\ \A u \in Task : Call(u)' = Call(u)
        /\ Onward(task, task')
    BY <2>1, GoesTo
  <2>3. OneAtATime' /\ \A u \in Task : AtRest(u)'
    BY <1>2, <2>2, OneStays DEF AtRest
  <2>4. Ledger' /\ Underway' = Underway /\ (Filled => Filled')
    <3>1. SettlesAlike(outbox, outbox')
      BY DEF SettlesAlike
    <3> QED BY <1>1, <2>1, <2>2, <3>1, LedgerKept DEF Books
  <2>5. TagsAreRegistered'
    BY <1>1, <1>2, <1>6, <2>1, TagsStay DEF Books
  <2>6. FreshIsLast'
    BY <1>1, <2>1, <2>4 DEF Books, FreshIsLast
  <2>7. Stage'
    <3>1. \A u \in Task : (Gets(u)' <=> Gets(u)) /\ Call(u)' = Call(u)
      BY <1>6, <2>2 DEF Gets
    <3> QED BY <1>1, <2>1, <2>4, <3>1, StageStays
  <2>8. Serving'
    BY <1>1, <1>4, <2>1, <2>3, <2>7 DEF Serving, KnownToClient, NonePends, ConsumesAreGranted,
       Settles, NoneWaits
  <2> QED BY <2>2, <2>3, <2>4, <2>5, <2>6, <2>8 DEF Books
<1> DEFINE value == futures.done[Call(t)]
<1>7. ASSUME Call(t) \in DOMAIN futures.done, m # "consume",
             ~ (m = "basic_get" /\ value.message # None)
      PROVE  /\ Books' /\ Serving' /\ OneAtATime'
             /\ task'[t].result = "answered"
             /\ \A u \in Task : u # t => task'[u] = task[u]
  <2>1. /\ End(t, m, "answered") /\ app' = app
        /\ futures' = IF m = "basic_get" THEN [futures EXCEPT !.get = None] ELSE futures
    BY <1>7 DEF Await
  <2>2. /\ futures'.done = futures.done /\ futures'.pending = futures.pending
        /\ m # "basic_get" => futures'.get = futures.get
    BY <2>1, ConsumersAre DEF FuturesTyped
  <2>3. m = "basic_get" => NoneGot
    BY <1>3, <1>7 DEF NoneGot
  <2>4. Books' /\ Serving' /\ OneAtATime'
    BY <1>2, <1>4, <1>7, <2>1, <2>2, <2>3, EndServes
  <2> QED BY <1>2, <2>1, <2>4, EndsAs
<1>8. CASE Call(t) \in DOMAIN futures.done /\ m = "basic_get" /\ value.message # None
  <2> DEFINE msg == value.message
  <2>1. /\ End(t, m, "answered") /\ app' = Hand(app, Call(t), msg)
        /\ futures' = [futures EXCEPT !.get = None]
    BY <1>8 DEF Await
  <2>2. /\ futures'.done = futures.done /\ futures'.pending = futures.pending
    BY <2>1, ConsumersAre DEF FuturesTyped
  <2>3. msg \in Message
    <3>1. value \in GetResults
      BY <1>2, <1>8, InvIs DEF CallsOwn, FuturesOwn, Call
    <3> QED BY <1>8, <3>1 DEF GetResults
  <2>4. /\ task'[t].pc = "idle" /\ task'[t].result = "answered"
        /\ \A u \in Task : u # t => task'[u] = task[u]
        /\ Onward(task, task')
    BY <1>2, <2>1, EndsAs
  <2>5. OneAtATime' /\ \A u \in Task : task'[u].pc \in {"idle", "iterating"}
    BY <1>2, <2>4, OneStays
  <2>6. Got
    <3>1. ~ NoneGot
      BY <1>8 DEF NoneGot, Gets
    <3> QED BY <3>1 DEF Stage, Empty, Coming, Taking, Stuck, Mailed
  <2>7. IsUnderway(msg.delivery)
    <3>1. PICK u \in Task : Gets(u) /\ IsUnderway(futures.done[Call(u)].message.delivery)
      BY <2>6 DEF Got
    <3> QED BY <1>3, <3>1
  <2>8. /\ app'.held = app.held \cup {msg} /\ app'.fresh = msg /\ app'.settled = app.settled
        /\ app'.mailbox = app.mailbox
    <3> HIDE DEF msg
    <3>1. app = AppOf(app.held, app.fresh, app.handed, app.settled, app.mailbox)
      BY InvIs, AppIs
    <3> QED BY <2>1, <3>1 DEF Hand, AppOf
  <2>9. MailIsEmpty' /\ NoneGot' /\ inbox' = <<>> /\ manager'.state = "MESSAGE_ASSEMBLED"
    BY <1>1, <2>5, <2>6, <2>8 DEF Got, MailIsEmpty, NoneGot, Gets
  <2>10. Ledger' /\ FreshIsLast' /\ Empty' /\ Filled' /\ Stage'
    <3> HIDE DEF msg
    <3> QED BY <1>1, <2>3, <2>4, <2>7, <2>8, <2>9, HandServes
  <2>11. TagsAreRegistered'
    BY <1>1, <1>2, <2>1, <2>2, TagsEnd DEF Books
  <2>12. Serving'
    BY <1>1, <1>4, <2>2, <2>5, <2>10 DEF Serving, KnownToClient, NonePends,
       ConsumesAreGranted, Settles, NoneWaits, AtRest
  <2> QED BY <2>4, <2>5, <2>10, <2>11, <2>12 DEF Books
<1> QED BY <1>5, <1>6, <1>7, <1>8

LEMMA FutureIsDoneCareful ==
    ASSUME IInv, Working, OneAtATime, session.transport = "open",
           NEW t \in Task, FutureIsDone(t), FramesUnchanged
    PROVE  Working' /\ OneAtATime' /\ manager'.exception = None
<1>1. /\ task[t].pc = "future" /\ Await(t, task[t].call, futures, app)
      /\ manager' = manager /\ session' = session /\ outbox' = outbox
  BY DEF FutureIsDone
<1>2. Serving /\ NoneWaits
  BY <1>1, BusyIs DEF Busy
<1>3. Books' /\ Serving' /\ OneAtATime' /\ task'[t].result \in {task[t].result, "answered"}
      /\ \A u \in Task : u # t => task'[u] = task[u]
  <2>1. Books /\ Stage /\ ChannelIsOpen /\ KnownToClient /\ NonePends /\ Settles(outbox)
    BY <1>2 DEF Working, Serving
  <2>2. Quiet(manager')
    BY <1>1, <1>2 DEF NoneWaits
  <2> QED BY <1>1, <2>1, <2>2, AwaitServes
<1>4. ASSUME NEW u \in Task
      PROVE  task'[u].result \notin {STE, "AttributeError"}
  BY <1>3 DEF Working, STE
<1> QED BY <1>1, <1>3, <1>4 DEF Working

LEMMA PollAnsweredCareful ==
    ASSUME IInv, Working, OneAtATime, session.transport = "open",
           NEW t \in Task, PollAnswered(t), FramesUnchanged
    PROVE  Working' /\ OneAtATime' /\ manager'.exception = None
<1> DEFINE m == task[t].call
<1>1. PICK state \in Range(WaitsOn(m)) :
         /\ PollIs(t, state)
         /\ state = "CHANNEL_CLOSE_RECEIVED" => session.lastError = None
  BY DEF PollAnswered
<1>2. /\ task[t].pc = "waiting" /\ manager' = SM!AfterPoll(manager, t)
      /\ Return(t, m, "answered", futures, app) /\ session' = session /\ outbox' = outbox
  BY DEF PollAnswered, Waits
<1>3. m \in DOMAIN Request /\ Busy(task[t]) /\ Active(task[t])
  BY <1>2, CallIsRequest DEF Active, Busy
<1>4. manager.fired # {}
  BY <1>1 DEF PollIs, SM!PollReturns, SM!IsSet
<1>5. ~ Requests(t)
  BY <1>4 DEF Requests, Unheard, Listens
<1>6. ASSUME NEW s \in Polled(m), Heard(t, s)
      PROVE  /\ Quiet(manager') /\ manager'.state = manager.state
             /\ manager'.exception = None /\ state = s
  <2>1. Hears(manager, t, m, s) /\ SM!PollReturns(manager, t, WaitsOn(m), state)
    BY <1>1, <1>6 DEF Heard, PollIs
  <2> HIDE DEF m
  <2> QED BY <1>2, <1>3, <2>1, InvIs, HeardEnds
<1>7. ~ ClosedOn(t)
  <2> SUFFICES ASSUME ClosedOn(t)
               PROVE  FALSE
    OBVIOUS
  <2>1. state = "CHANNEL_CLOSE_RECEIVED"
    BY <1>6 DEF ClosedOn, Polled
  <2> QED BY <1>1, <2>1, ConsumersAssumption DEF ClosedOn, Closes
<1>8. Serving /\ HasHeard(t)
  BY <1>2, <1>3, <1>5, <1>7, BusyIs DEF Asks, Replied, Refused
<1>9. Quiet(manager') /\ manager'.state = manager.state /\ manager'.exception = None
  <2>1. PICK s \in Answers(m) : Heard(t, s)
    BY <1>8 DEF HasHeard
  <2> QED BY <1>6, <2>1 DEF Polled
<1>10. Books /\ Stage /\ ChannelIsOpen /\ KnownToClient /\ NonePends /\ Settles(outbox)
  BY <1>8 DEF Working, Serving
<1>11. CASE Consumes(m) \/ m = "basic_get"
  <2>1. Await(t, m, futures, app)
    BY <1>2, <1>11 DEF Return
  <2>2. Books' /\ Serving' /\ OneAtATime' /\ task'[t].result \in {task[t].result, "answered"}
        /\ \A u \in Task : u # t => task'[u] = task[u]
    <3> HIDE DEF m
    <3>1. m = task[t].call
      BY DEF m
    <3> QED BY <1>2, <1>9, <1>10, <2>1, <3>1, AwaitServes
  <2>3. ASSUME NEW u \in Task
        PROVE  task'[u].result \notin {STE, "AttributeError"}
    BY <2>2 DEF Working, STE
  <2> QED BY <1>2, <1>9, <2>2, <2>3 DEF Working
<1>12. CASE ~ (Consumes(m) \/ m = "basic_get")
  <2>1. m = "queue_declare" => last = "DeclareOk"
    BY <1>8 DEF HasHeard
  <2>2. End(t, m, "answered") /\ futures' = futures /\ app' = app
    BY <1>2, <1>12, <2>1 DEF Return
  <2>3. ChannelIsOpen'
    BY <1>2, <1>10 DEF ChannelIsOpen, FramesUnchanged
  <2>4. Books' /\ Serving' /\ OneAtATime'
    BY <1>2, <1>3, <1>9, <1>10, <1>12, <2>2, <2>3, EndServes
  <2>5. task'[t].result = "answered" /\ \A u \in Task : u # t => task'[u] = task[u]
    BY <1>3, <2>2, EndsAs
  <2>6. ASSUME NEW u \in Task
        PROVE  task'[u].result \notin {STE, "AttributeError"}
    BY <2>5 DEF Working, STE
  <2> QED BY <1>2, <1>9, <2>4, <2>6 DEF Working
<1> QED BY <1>11, <1>12

LEMMA RaiseLastErrorCareful ==
    ASSUME IInv, Working, OneAtATime, session.transport = "open",
           NEW t \in Task, RaiseLastError(t), FramesUnchanged
    PROVE  Working' /\ OneAtATime' /\ manager'.exception = None
<1> DEFINE result == IF session.lastError = None THEN "UnknownError" ELSE session.lastError
<1>1. /\ task[t].pc = "raising" /\ End(t, task[t].call, result)
      /\ session' = [session EXCEPT !.lastError = None]
      /\ manager' = manager /\ futures' = futures /\ app' = app /\ outbox' = outbox
  BY DEF RaiseLastError
<1>2. Raises(t) /\ Busy(task[t]) /\ Active(task[t])
  BY <1>1, BusyIs DEF Busy, Active
<1>3. /\ session'.lastError = None /\ session'.channelOpen = session.channelOpen
      /\ session'.failed = session.failed /\ result \in {"UnknownError", "NotFound"}
  BY <1>1, InvIs DEF Sessions
<1>4. broker' = broker /\ inbox' = inbox /\ consumers' = consumers /\ message' = message
      /\ workload' = workload
  BY DEF FramesUnchanged
<1>5. /\ task'[t].pc = "idle" /\ task'[t].result = result
      /\ \A u \in Task : u # t => task'[u] = task[u]
      /\ Onward(task, task')
  BY <1>1, <1>2, EndsAs
<1>6. OneAtATime' /\ \A u \in Task : task'[u].pc \in {"idle", "iterating"}
  BY <1>2, <1>5, OneStays
<1>7. Ledger' /\ Underway' = {}
  <2>1. SettlesAlike(outbox, outbox')
    BY <1>1 DEF SettlesAlike
  <2>2. Ledger' /\ Underway' = Underway
    BY <1>1, <1>4, <1>5, <2>1, LedgerKept DEF Working, Books
  <2> QED BY <1>2, <2>2 DEF Raises, Underway
<1>8. Books'
  <2>1. TagsAreRegistered'
    <3> HIDE DEF result
    <3> QED BY <1>1, <1>2, <1>4, TagsEnd DEF Working, Books
  <2> QED BY <1>1, <1>2, <1>7, <2>1 DEF Books, FreshIsLast, Raises
<1>9. Serving'
  <2>1. Empty'
    BY <1>1, <1>2, <1>4, <1>6, <1>7 DEF Raises, Empty, Calm, MailIsEmpty, NoneGot, Gets
  <2>2. ChannelIsOpen' /\ KnownToClient' /\ NonePends' /\ Settles(outbox)'
    BY <1>1, <1>2, <1>3, <1>4 DEF Raises, ChannelIsOpen, KnownToClient, NonePends,
       ConsumesAreGranted, Settles
  <2>3. NoneWaits' /\ \A u \in Task : AtRest(u)'
    BY <1>1, <1>2, <1>6 DEF Raises, NoneWaits, AtRest
  <2> QED BY <2>1, <2>2, <2>3 DEF Serving, Stage
<1>10. ASSUME NEW u \in Task
       PROVE  task'[u].result \notin {STE, "AttributeError"}
  BY <1>3, <1>5 DEF Working, STE
<1> QED BY <1>1, <1>3, <1>6, <1>8, <1>9, <1>10 DEF Working

LEMMA PollChannelClosedCareful ==
    ASSUME IInv, Working, OneAtATime, session.transport = "open",
           NEW t \in Task, PollChannelClosed(t), FramesUnchanged
    PROVE  Working' /\ OneAtATime' /\ manager'.exception = None
<1> DEFINE m == SM!AfterPoll(manager, t)
           n == Enter(m, "OPENING_CHANNEL")
           o == Enter(n, "CHANNEL_OPEN_SENT")
           pc == IF session.channelOpen THEN "raising" ELSE "opening"
<1>1. /\ task[t].pc = "waiting" /\ PollIs(t, "CHANNEL_CLOSE_RECEIVED")
      /\ session.lastError # None
      /\ futures' = futures /\ session' = session /\ app' = app
      /\ ~ SM!Refuses(m, "OPENING_CHANNEL", None) =>
            /\ manager' = o
            /\ Write(<<[type |-> "Channel.Open"]>>)
            /\ Goes(t, task[t].call, None, pc)
  BY DEF PollChannelClosed, Waits
<1>2. task[t].call \in DOMAIN Request /\ Busy(task[t]) /\ Active(task[t])
  BY <1>1, CallIsRequest DEF Active, Busy
<1>3. ~ Requests(t)
  BY <1>1 DEF PollIs, SM!PollReturns, SM!IsSet, Requests, Unheard, Listens
<1>4. ClosedOn(t)
  BY <1>1, <1>2, <1>3, BusyIs DEF Serving, ChannelIsOpen, Asks, Replied, Refused
<1>5. /\ Quiet(m) /\ m.state = "CHANNEL_CLOSEOK_SENT" /\ m.exception = None /\ m \in Managers
  <2>1. Hears(manager, t, task[t].call, "CHANNEL_CLOSE_RECEIVED")
    BY <1>4 DEF ClosedOn, Heard
  <2>2. SM!PollReturns(manager, t, WaitsOn(task[t].call), "CHANNEL_CLOSE_RECEIVED")
    BY <1>1 DEF PollIs
  <2>3. "CHANNEL_CLOSE_RECEIVED" \in Polled(task[t].call)
    BY DEF Polled
  <2>4. manager.state = "CHANNEL_CLOSEOK_SENT" /\ manager \in Managers
    BY <1>4, InvIs DEF ClosedOn
  <2> QED BY <1>2, <2>1, <2>2, <2>3, <2>4, HeardEnds
<1> HIDE DEF m
<1>6. /\ ~ SM!Refuses(m, "OPENING_CHANNEL", None)
      /\ n.state = "OPENING_CHANNEL" /\ n.exception = None /\ n \in Managers /\ Quiet(n)
  <2>1. "OPENING_CHANNEL" \in ClientState
    BY StatesAre
  <2>2. "OPENING_CHANNEL" \in ClientTransitions[m.state]
    BY <1>5, CarefulTransitions
  <2>3. \A e \in m.waits : e[1] # "OPENING_CHANNEL"
    BY <1>5 DEF Quiet
  <2> QED BY <1>5, <2>1, <2>2, <2>3, EnterIs DEF Quiet
<1> HIDE DEF n
<1>7. o.state = "CHANNEL_OPEN_SENT" /\ o.exception = None /\ Quiet(o)
  <2>1. "CHANNEL_OPEN_SENT" \in ClientState
    BY StatesAre
  <2>2. "CHANNEL_OPEN_SENT" \in ClientTransitions[n.state]
    BY <1>6, CarefulTransitions
  <2>3. \A e \in n.waits : e[1] # "CHANNEL_OPEN_SENT"
    BY <1>6 DEF Quiet
  <2> QED BY <1>6, <2>1, <2>2, <2>3, EnterIs DEF Quiet
<1> HIDE DEF o
<1>8. manager' = o /\ outbox' = outbox \o <<OpenFrame>> /\ Goes(t, task[t].call, None, "opening")
  BY <1>1, <1>4, <1>6 DEF Write, OpenFrame, ClosedOn, Closes
<1>9. /\ task'[t].pc = "opening" /\ task'[t].call = task[t].call
      /\ \A u \in Task : task'[u].result = task[u].result
      /\ \A u \in Task : u # t => task'[u] = task[u]
      /\ \A u \in Task : Call(u)' = Call(u)
      /\ Onward(task, task')
  BY <1>8, GoesTo
<1>10. broker' = broker /\ inbox' = inbox /\ consumers' = consumers /\ workload' = workload
  BY DEF FramesUnchanged
<1>11. OneAtATime'
  BY <1>2, <1>9, OneStays
<1>12. Ledger'
  <2>1. OpenFrame \in OutFrame /\ OpenFrame.type \notin SettleTypes
    BY DEF OpenFrame, OutFrame, SettleTypes, SettledState
  <2>2. Write(<<OpenFrame>>)
    BY <1>8 DEF Write
  <2>3. SettlesAlike(outbox, outbox')
    BY <2>1, <2>2, SettlesStay
  <2> QED BY <1>1, <1>9, <1>10, <2>3, LedgerKept DEF Working, Books
<1>13. TagsAreRegistered'
  BY <1>1, <1>2, <1>8, <1>10, TagsStay DEF Working, Books
<1>14. Books'
  BY <1>1, <1>4, <1>12, <1>13 DEF Books, FreshIsLast, ClosedOn, Closes
<1>15. Reopens(t)'
  <2>1. Closes'
    BY <1>1, <1>4, <1>10 DEF ClosedOn, Closes, MailIsEmpty, NonePends, ConsumesAreGranted
  <2>2. outbox = <<CloseOkFrame>> => outbox' = <<CloseOkFrame, OpenFrame>>
    BY <1>8, PairsAre
  <2>3. outbox = <<>> => outbox' = <<OpenFrame>>
    BY <1>8
  <2>4. NoneWaits' /\ manager'.state = "CHANNEL_OPEN_SENT"
    BY <1>7, <1>8 DEF NoneWaits
  <2> QED BY <1>4, <1>9, <1>10, <2>1, <2>2, <2>3, <2>4 DEF ClosedOn, Reopens
<1>16. manager'.exception = None /\ session' = session
  BY <1>1, <1>7, <1>8
<1> QED BY <1>9, <1>11, <1>14, <1>15, <1>16 DEF Working

\* The careful application, while the socket holds.
LEMMA ProceedsCareful ==
    ASSUME IInv, Working, OneAtATime, session.transport = "open",
           NEW t \in Task, Proceeds(t)
    PROVE  Working' /\ OneAtATime' /\ manager'.exception = None
<1>1. ~ Acquire(t)
  BY DEF Acquire, OneAtATime
<1>2. ~ PollRaises(t)
  BY DEF PollRaises, SM!PollRaises, Working
<1>3. FramesUnchanged
  BY DEF Proceeds
<1> QED BY <1>1, <1>2, <1>3, FutureIsDoneCareful, PollAnsweredCareful,
        PollChannelClosedCareful, RaiseLastErrorCareful DEF Proceeds

LEMMA ApplicationCareful ==
    ASSUME IInv, workload.careful, Working, OneAtATime, session.transport = "open",
           Application
    PROVE  Working' /\ OneAtATime' /\ manager'.exception = None
<1>1. FramesUnchanged
  BY DEF Application
<1> QED BY <1>1, SettleCareful, BeginCareful, TakeNextCareful, LeaveCareful DEF Application

\* A client that is broken stays so.
LEMMA BrokenStays ==
    ASSUME IInv, workload.careful, Broken, OneAtATime, NeverCancelled,
           session.transport = "open",
           \/ Application \/ (RunReady /\ FramesUnchanged) \/ \E t \in Task : Proceeds(t)
    PROVE  Broken' /\ OneAtATime' /\ manager'.exception # "RuntimeError"
<1> USE DEF Broken
<1>1. PICK t \in Task : \/ task[t].pc = "waiting" /\ manager.exception # None
                        \/ task[t].pc = "reconnecting"
  OBVIOUS
<1>2. Busy(task[t]) /\ \A u \in Task : Busy(task[u]) => u = t
  BY <1>1 DEF Busy, OneAtATime
<1>3. /\ broker' = broker /\ inbox' = inbox /\ workload' = workload /\ consumers' = consumers
  BY DEF Application, Proceeds, FramesUnchanged
<1>4. ~ Settle
  BY CarefulWorkload, HeldIs DEF Settle
<1>5. ASSUME NEW u \in Task
      PROVE  ~ Begin(u) /\ ~ TakeNext(u)
  BY <1>1 DEF Begin, MayCall, TakeNext, MailOf, MailIsEmpty
<1>6. ASSUME NEW u \in Task, Leave(u)
      PROVE  Broken' /\ OneAtATime' /\ manager'.exception # "RuntimeError"
  <2>1. IsClosed
    BY DEF IsClosed
  <2>2. /\ task[u].pc = "iterating" /\ session' = session /\ manager' = manager
        /\ app' = app /\ outbox' = outbox
        /\ \E result : End(u, "consume", result)
    BY <1>6, <2>1 DEF Leave
  <2>3. u # t /\ Active(task[u])
    BY <1>1, <2>2 DEF Active
  <2>4. task'[u].pc = "idle" /\ \A v \in Task : v # u => task'[v] = task[v]
    BY <2>2, <2>3, EndsAs
  <2>5. OneAtATime'
    BY <2>4 DEF OneAtATime, Busy
  <2> QED BY <1>1, <1>3, <2>2, <2>3, <2>4, <2>5 DEF MailIsEmpty, NeverCancelled
<1>7. CASE RunReady
  <2>1. /\ manager'.exception = manager.exception /\ task' = task /\ session' = session
        /\ app' = app /\ outbox' = outbox
    BY <1>7 DEF RunReady, SM!RunCallbacks
  <2> QED BY <1>1, <1>3, <2>1 DEF MailIsEmpty, OneAtATime, NeverCancelled
<1>8. ASSUME NEW u \in Task, Proceeds(u)
      PROVE  Broken' /\ OneAtATime' /\ manager'.exception # "RuntimeError"
  <2>1. PollRaises(u) /\ u = t
    <3>1. u = t
      BY <1>2, <1>8 DEF Proceeds, Acquire, FutureIsDone, PollAnswered, PollChannelClosed,
         PollRaises, RaiseLastError, Waits, Busy
    <3> QED BY <1>1, <1>8, <3>1 DEF Proceeds, Acquire, FutureIsDone, PollAnswered,
            PollChannelClosed, RaiseLastError, Waits, PollIs, SM!PollReturns
  <2>2. /\ manager' = SM!AfterPoll(manager, t) /\ session' = session
        /\ app' = app /\ outbox' = outbox /\ Goes(t, task[t].call, None, "reconnecting")
    BY <2>1 DEF PollRaises, NeverCancelled
  <2>3. /\ task'[t].pc = "reconnecting"
        /\ \A v \in Task : v # t => task'[v] = task[v]
    BY <2>2, GoesTo
  <2>4. OneAtATime'
    BY <1>2, <2>3, OneStays
  <2>5. manager'.exception # "RuntimeError"
    <3>1. manager \in Managers
      BY InvIs
    <3>2. SM!AfterPoll(manager, t).exception = None
      BY <3>1, ManagersAre DEF SM!AfterPoll, SM!ClearWaits
    <3>3. None # "RuntimeError"
      BY ConsumersAssumption DEF Error
    <3> QED BY <2>2, <3>2, <3>3
  <2> QED BY <1>3, <2>2, <2>3, <2>4, <2>5 DEF MailIsEmpty
<1> QED BY <1>4, <1>5, <1>6, <1>7, <1>8 DEF Application

---------------------------------------------------------------------------
(* The frames that come to a careful client *)

\* The next frame of a message that is collected.
LEMMA TakingHead ==
    ASSUME IInv, ~ session.failed, session.transport = "open", Taking, inbox # <<>>
    PROVE  /\ Head(inbox) = inbox[1] /\ message \in Message /\ IsOwn(message)
           /\ Follows(workload, LastTaken(message), Head(inbox))
           /\ Partial(workload, LastTaken(message))
           /\ Head(inbox).type = IF message.header = None THEN "Header" ELSE "Body"
           /\ Head(inbox).of = message.delivery
           /\ Head(inbox) \in InFrame
<1>1. /\ IsOwn(message) /\ InOrder(workload, message, inbox, TRUE)
      /\ message \in Message \cup {None} /\ inbox \in Seq(InFrame)
      /\ Partial(workload, LastTaken(message))
  BY InvIs DEF IInv, ContentOK, ClientTyped, Taking, Collecting
<1>2. 1 \in DOMAIN inbox /\ Head(inbox) = inbox[1] /\ Head(inbox) \in InFrame
  BY <1>1
<1>3. Follows(workload, LastTaken(message), Head(inbox))
  BY <1>1, <1>2 DEF InOrder, Before
<1>4. Head(inbox) = Successor(LastTaken(message))
  BY <1>1, <1>3 DEF Follows
<1>5. message \in Message /\ None \notin Delivery
  BY <1>1, LastTakenIs, ConsumersAssumption
<1>6. CASE message.header = None
  <2>1. LastTaken(message) = [type |-> "Deliver", delivery |-> message.delivery]
    BY <1>5, <1>6, ConsumersAssumption DEF LastTaken
  <2>2. Begins(LastTaken(message)) /\ LastTaken(message).delivery = message.delivery
    BY <2>1 DEF Begins
  <2> QED BY <1>1, <1>2, <1>3, <1>4, <1>5, <1>6, <2>2, SuccessorIs
<1>7. CASE message.header # None
  <2>1. ~ Begins(LastTaken(message))
    BY <1>1, <1>7, LastTakenIs
  <2>2. Head(inbox) = PartOf(message.delivery, Len(message.bodies) + 1)
    BY <1>1, <1>4, <2>1, LastTakenIs
  <2> QED BY <1>1, <1>2, <1>3, <1>5, <1>7, <2>2 DEF PartOf
<1> QED BY <1>6, <1>7

LEMMA AnswerIs ==
    ASSUME NEW t \in Task, NEW frame, task[t].call \in DOMAIN Request, IsAnswer(t, frame)
    PROVE  /\ frame.type \in {"ConsumeOk", "CancelOk", "GetEmpty", "DeclareOk", "GetOk"}
           /\ frame.type = "ConsumeOk" =>
                 Consumes(task[t].call) /\ frame = [type |-> "ConsumeOk", tag |-> Call(t)]
           /\ frame.type = "CancelOk" =>
                 /\ task[t].call = "basic_cancel"
                 /\ frame = [type |-> "CancelOk", tag |-> task[t].tag]
           /\ frame.type = "GetEmpty" => task[t].call = "basic_get"
           /\ frame.type = "DeclareOk" => task[t].call = "queue_declare"
           /\ frame.type = "GetOk" =>
                 /\ task[t].call = "basic_get"
                 /\ frame.delivery.get /\ frame.delivery.for = Call(t)
                 /\ IsUnderway(frame.delivery)
<1>1. CASE Consumes(task[t].call)
  <2>1. frame = [type |-> "ConsumeOk", tag |-> Call(t)]
    BY <1>1 DEF IsAnswer, Consumes
  <2>2. frame.type = "ConsumeOk"
    BY <2>1
  <2> HIDE DEF Consumes
  <2> QED BY <1>1, <2>1, <2>2
<1>2. CASE task[t].call = "basic_cancel"
  BY <1>2 DEF IsAnswer, Consumes
<1>3. CASE task[t].call = "basic_get"
  BY <1>3 DEF IsAnswer, Consumes
<1>4. CASE task[t].call = "queue_declare"
  BY <1>4 DEF IsAnswer, Consumes
<1> QED BY <1>1, <1>2, <1>3, <1>4 DEF Request, Consumes

LEMMA HeadIs ==
    ASSUME IInv, Working, session.transport = "open", inbox # <<>>
    PROVE  LET type == Head(inbox).type IN
           /\ Head(inbox) = inbox[1] /\ Head(inbox) \in InFrame
           /\ type \in {"Deliver", "Header", "Body", "ConsumeOk", "CancelOk", "GetEmpty",
                        "DeclareOk", "GetOk", "Channel.Close", "Channel.OpenOk"}
           /\ type = "Deliver" => Serving /\ Coming
           /\ type \in {"Header", "Body"} => Serving /\ Taking
           /\ type \in {"ConsumeOk", "CancelOk", "GetEmpty", "DeclareOk", "GetOk"}
                 => \E t \in Task : Replied(t)
           /\ type = "Channel.Close" => \E t \in Task : Refused(t)
           /\ type = "Channel.OpenOk" => \E t \in Task : Reopens(t)
<1>1. Head(inbox) = inbox[1] /\ Head(inbox) \in InFrame
  BY InvIs
<1> DEFINE type == Head(inbox).type
<1>2. CASE Serving
  <2>1. Coming \/ Taking
    BY <1>2 DEF Serving, Stage, Empty, Stuck, Mailed, Got
  <2>2. Coming => type = "Deliver"
    BY <1>1 DEF Coming
  <2>3. Taking => type \in {"Header", "Body"}
    BY TakingHead DEF Working
  <2> QED BY <1>1, <1>2, <2>1, <2>2, <2>3
<1>3. ASSUME NEW t \in Task, Replied(t)
      PROVE  type \in {"ConsumeOk", "CancelOk", "GetEmpty", "DeclareOk", "GetOk"}
  <2>1. task[t].call \in DOMAIN Request
    BY <1>3, CallIsRequest DEF Replied, Requests, Active
  <2>2. IsAnswer(t, Head(inbox))
    BY <1>1, <1>3 DEF Replied
  <2> QED BY <2>1, <2>2, AnswerIs
<1>4. ASSUME NEW t \in Task, Refused(t)
      PROVE  type = "Channel.Close"
  BY <1>1, <1>4 DEF Refused
<1>5. ASSUME NEW t \in Task, Reopens(t)
      PROVE  type = "Channel.OpenOk"
  BY <1>1, <1>5 DEF Reopens
<1>6. \A t \in Task : ~ Asks(t) /\ ~ ClosedOn(t) /\ ~ Raises(t)
  BY DEF Asks, ClosedOn, Raises
<1> HIDE DEF type
<1>7. \/ Serving \/ \E t \in Task : Replied(t) \/ Refused(t) \/ Reopens(t)
  BY <1>6 DEF Working
<1> QED BY <1>1, <1>2, <1>3, <1>4, <1>5, <1>7 DEF type

LEMMA AnswerHeard ==
    ASSUME IInv, Working, NEW t \in Task, Requests(t), NEW s \in Answers(task[t].call),
           manager' = Enter(manager, s), task' = task
    PROVE  /\ ~ SM!Refuses(manager, s, None) /\ manager'.state = s
           /\ manager'.exception = None /\ Heard(t, s)'
<1> DEFINE c == task[t].call
<1>1. c \in DOMAIN Request /\ manager \in Managers /\ manager.exception = None
  BY CallIsRequest, InvIs DEF Requests, Active, Working
<1>2. Listens(manager, t, c) /\ manager.state = Sent(c)
  BY DEF Requests, Unheard
<1>3. s \in ClientTransitions[Sent(c)] /\ s \in Polled(c)
  BY <1>1, CarefulTransitions DEF Polled
<1> HIDE DEF c
<1>4. /\ ~ SM!Refuses(manager, s, None) /\ manager'.state = s
      /\ manager'.exception = None /\ Hears(manager', t, c, s)
  BY <1>1, <1>2, <1>3, AnswerEnters
<1>5. Heard(t, s)'
  BY <1>4 DEF Heard, c
<1> QED BY <1>4, <1>5

\* The broker's books, and the client's, while a frame is taken.
LEMMA TakenKeeps ==
    ASSUME IInv, Working, app' = app, outbox' = outbox, broker' = broker, task' = task
    PROVE  /\ Ledger' /\ Underway' = Underway /\ (Filled => Filled')
           /\ (app.fresh = None => FreshIsLast')
           /\ (MailIsEmpty => MailIsEmpty')
           /\ \A t \in Task : (Gets(t)' <=> Gets(t)) /\ Call(t)' = Call(t)
           /\ \A t \in Task : task'[t].result \notin {STE, "AttributeError"}
<1>1. SettlesAlike(outbox, outbox') /\ Onward(task, task')
  BY DEF SettlesAlike, Onward
<1>2. Ledger' /\ Underway' = Underway /\ (Filled => Filled')
  BY <1>1, LedgerKept DEF Working, Books
<1> QED BY <1>2 DEF FreshIsLast, MailIsEmpty, Gets, Call, Working

LEMMA AnswerServes ==
    ASSUME IInv, Working, NEW t \in Task, Replied(t), OneAtATime, session' = session,
           NEW s \in Answers(task[t].call), Heard(t, s)', manager'.exception = None,
           task' = task, app' = app, outbox' = outbox, broker' = broker,
           TagsAreRegistered', KnownToClient', NonePends', Stage',
           task[t].call = "queue_declare" => last' = "DeclareOk" /\ Empty'
    PROVE  Working' /\ OneAtATime'
<1>1. /\ Ledger' /\ (Filled => Filled') /\ FreshIsLast' /\ OneAtATime'
      /\ \A u \in Task : task'[u].result \notin {STE, "AttributeError"}
  BY TakenKeeps DEF Replied, Requests, OneAtATime
<1>2. HasHeard(t)'
  <2>1. Consumes(task[t].call) \/ Filled
    BY DEF Replied
  <2> QED BY <1>1, <2>1 DEF HasHeard, Replied, Requests
<1>3. Serving'
  <2>1. ChannelIsOpen' /\ Settles(outbox)'
    BY DEF Replied, Requests, ChannelIsOpen, Settles
  <2> QED BY <1>2, <2>1 DEF Serving
<1> QED BY <1>1, <1>3 DEF Working, Books

\* The answer is the last frame.
LEMMA AnswerIsLast ==
    ASSUME IInv, Working, NEW t \in Task, Replied(t), Len(inbox) = 1, Underway = {},
           inbox' = Tail(inbox), task' = task, app' = app, outbox' = outbox,
           broker' = broker, manager'.state \in Calm, NoneGot'
    PROVE  Empty'
<1>1. inbox' = <<>>
  <2>1. inbox \in Seq(InFrame)
    BY InvIs
  <2>2. Tail(inbox) \in Seq(InFrame) /\ Len(Tail(inbox)) = 0
    BY <2>1
  <2>3. \A r \in Seq(InFrame) : Len(r) = 0 => r = <<>>
    OBVIOUS
  <2> QED BY <2>2, <2>3
<1> QED BY <1>1, TakenKeeps DEF Empty, Replied, Requests

LEMMA ReceiveDeclareOkCareful ==
    ASSUME IInv, Working, OneAtATime, session.transport = "open",
           ReceiveDeclareOk, workload' = workload, broker' = broker
    PROVE  Working' /\ OneAtATime' /\ manager'.exception = None
<1> DEFINE s == "QUEUE_DECLAREOK_RECEIVED"
<1>1. /\ Takes("DeclareOk") /\ Receives(s) /\ task' = task /\ futures' = futures
      /\ consumers' = consumers /\ message' = message /\ app' = app /\ outbox' = outbox
  BY DEF ReceiveDeclareOk
<1>2. /\ inbox # <<>> /\ Head(inbox).type = "DeclareOk" /\ inbox' = Tail(inbox)
      /\ last' = "DeclareOk"
  BY <1>1 DEF Takes
<1>3. PICK t \in Task : Replied(t)
  BY <1>2, HeadIs
<1>4. task[t].call = "queue_declare" /\ Len(inbox) = 1 /\ Underway = {} /\ Requests(t)
  <2>1. task[t].call \in DOMAIN Request /\ IsAnswer(t, inbox[1]) /\ inbox[1].type = "DeclareOk"
    BY <1>2, <1>3, HeadIs, CallIsRequest DEF Replied, Requests, Active
  <2>2. task[t].call = "queue_declare"
    BY <2>1, AnswerIs
  <2> QED BY <1>3, <2>1, <2>2 DEF Replied, Consumes
<1>5. s \in Answers(task[t].call)
  BY <1>4 DEF Answers, Consumes
<1>6. /\ ~ SM!Refuses(manager, s, None) /\ manager'.state = s
      /\ manager'.exception = None /\ Heard(t, s)'
  <2>1. manager' = Enter(manager, s)
    BY <1>1 DEF Receives
  <2> HIDE DEF s
  <2> QED BY <1>1, <1>4, <1>5, <2>1, AnswerHeard
<1>7. session' = session
  BY <1>1, <1>6, InvIs DEF Receives, Fails, Sessions
<1>8. NoneGot' /\ NonePends' /\ KnownToClient' /\ TagsAreRegistered'
  <2>1. \A u \in Task : ~ Gets(u)
    BY <1>4 DEF Requests, Gets, OneAtATime, Busy
  <2>2. NoneGot'
    BY <1>1, <2>1, TakenKeeps DEF NoneGot
  <2>3. NonePends' /\ KnownToClient'
    BY <1>1, <1>3, <1>4 DEF NonePends, OnePends, Requests, Consumes, Replied, KnownToClient,
       ConsumesAreGranted
  <2> QED BY <1>1, <2>2, <2>3 DEF Working, Books, TagsAreRegistered, Call
<1>9. Empty'
  BY <1>1, <1>2, <1>3, <1>4, <1>6, <1>8, AnswerIsLast DEF Calm
<1> HIDE DEF s
<1>10. Working' /\ OneAtATime'
  BY <1>1, <1>2, <1>3, <1>5, <1>6, <1>7, <1>8, <1>9, AnswerServes DEF Stage
<1> QED BY <1>6, <1>10

LEMMA ReceiveGetEmptyCareful ==
    ASSUME IInv, Working, OneAtATime, session.transport = "open",
           ReceiveGetEmpty, workload' = workload, broker' = broker
    PROVE  Working' /\ OneAtATime' /\ manager'.exception = None
<1> DEFINE s == "BASIC_GETEMPTY_RECEIVED"
<1>1. /\ Takes("GetEmpty") /\ manager' = Enter(manager, s)
      /\ Fails(SM!Refuses(manager, s, None) \/ ~ GetIsAwaited)
      /\ ~ SM!Refuses(manager, s, None) /\ GetIsAwaited => futures' = GetResult(None)
      /\ task' = task
      /\ consumers' = consumers /\ message' = message /\ app' = app /\ outbox' = outbox
  BY DEF ReceiveGetEmpty
<1>2. /\ inbox # <<>> /\ Head(inbox).type = "GetEmpty" /\ inbox' = Tail(inbox)
  BY <1>1 DEF Takes
<1>3. PICK t \in Task : Replied(t)
  BY <1>2, HeadIs
<1>4. task[t].call = "basic_get" /\ Len(inbox) = 1 /\ Underway = {} /\ Requests(t)
  <2>1. task[t].call \in DOMAIN Request /\ IsAnswer(t, inbox[1]) /\ inbox[1].type = "GetEmpty"
    BY <1>2, <1>3, HeadIs, CallIsRequest DEF Replied, Requests, Active
  <2>2. task[t].call = "basic_get"
    BY <2>1, AnswerIs
  <2> QED BY <1>3, <2>1, <2>2 DEF Replied, Consumes
<1>5. s \in Answers(task[t].call)
  BY <1>4 DEF Answers, Consumes
<1>6. /\ ~ SM!Refuses(manager, s, None) /\ manager'.state = s
      /\ manager'.exception = None /\ Heard(t, s)'
  <2> HIDE DEF s
  <2> QED BY <1>1, <1>4, <1>5, AnswerHeard
<1>7. Call(t) \in Calls /\ futures.get = Call(t) /\ GetIsAwaited
  <2>1. Call(t) \in Calls
    BY InvIs, CallIs DEF Call
  <2> QED BY <1>4, <2>1, MessageIs DEF Requests, Ready, GetIsAwaited
<1>8. session' = session
  BY <1>1, <1>6, <1>7, InvIs DEF Fails, Sessions
<1>9. /\ futures'.done = With(futures.done, Call(t), [message |-> None])
      /\ futures'.pending = futures.pending
  BY <1>1, <1>6, <1>7, ConsumersAre DEF GetResult, FuturesTyped
<1>10. NoneGot' /\ NonePends' /\ KnownToClient'
  <2>1. \A u \in Task : Gets(u) => u = t
    BY <1>4 DEF Requests, Gets, OneAtATime, Busy
  <2>2. futures'.done[Call(t)] = [message |-> None]
    BY <1>9 DEF With
  <2>3. NoneGot'
    BY <1>1, <2>1, <2>2, TakenKeeps DEF NoneGot
  <2>4. NonePends' /\ KnownToClient'
    BY <1>1, <1>3, <1>4, <1>9 DEF NonePends, OnePends, Requests, Consumes, Replied,
       KnownToClient, ConsumesAreGranted
  <2> QED BY <2>3, <2>4
<1>11. TagsAreRegistered'
  <2>1. \A call : call \in DOMAIN futures.done =>
           /\ call \in DOMAIN futures'.done
           /\ call # Call(t) => futures'.done[call] = futures.done[call]
    BY <1>9 DEF With
  <2>2. \A call : call \in DOMAIN futures'.done /\ call # Call(t) => call \in DOMAIN futures.done
    BY <1>9 DEF With
  <2>3. \A u \in Task : Busy(task[u]) => u = t
    BY <1>4 DEF Requests, OneAtATime, Busy
  <2>4. ~ Consumes(task[t].call)
    BY <1>4 DEF Consumes
  <2> QED BY <1>1, <1>9, <2>1, <2>2, <2>3, <2>4 DEF Working, Books, TagsAreRegistered, Call
<1>12. Empty'
  BY <1>1, <1>2, <1>3, <1>4, <1>6, <1>10, AnswerIsLast DEF Calm
<1> HIDE DEF s
<1>13. Working' /\ OneAtATime'
  BY <1>1, <1>2, <1>3, <1>4, <1>5, <1>6, <1>8, <1>10, <1>11, <1>12, AnswerServes DEF Stage
<1> QED BY <1>6, <1>13

LEMMA ReceiveCancelOkCareful ==
    ASSUME IInv, Working, OneAtATime, session.transport = "open",
           ReceiveCancelOk, workload' = workload, broker' = broker
    PROVE  Working' /\ OneAtATime' /\ manager'.exception = None
<1> DEFINE s == "BASIC_CANCELOK_RECEIVED"
<1>1. /\ Takes("CancelOk")
      /\ Head(inbox).tag \in DOMAIN consumers => Receives(s)
      /\ consumers' = Without(consumers, {Head(inbox).tag})
      /\ task' = task /\ futures' = futures /\ message' = message
      /\ app' = app /\ outbox' = outbox
  BY DEF ReceiveCancelOk
<1>2. /\ inbox # <<>> /\ Head(inbox).type = "CancelOk" /\ inbox' = Tail(inbox)
  BY <1>1 DEF Takes
<1>3. PICK t \in Task : Replied(t)
  BY <1>2, HeadIs
<1> DEFINE tag == task[t].tag
<1>4. /\ task[t].call = "basic_cancel" /\ Len(inbox) = 1 /\ Underway = {} /\ Requests(t)
      /\ Head(inbox).tag = tag /\ tag \in DOMAIN consumers /\ tag \notin broker.consumers
      /\ \A u \in Task : task[u].pc = "iterating" => task[u].tag # tag
  <2>1. task[t].call \in DOMAIN Request /\ IsAnswer(t, inbox[1]) /\ inbox[1].type = "CancelOk"
    BY <1>2, <1>3, HeadIs, CallIsRequest DEF Replied, Requests, Active
  <2>2. task[t].call = "basic_cancel" /\ inbox[1] = [type |-> "CancelOk", tag |-> task[t].tag]
    BY <2>1, AnswerIs
  <2>3. Head(inbox).tag = tag
    BY <1>2, <2>2, HeadIs
  <2> QED BY <1>3, <2>1, <2>2, <2>3 DEF Replied, Consumes, Requests, Ready
<1>5. s \in Answers(task[t].call)
  BY <1>4 DEF Answers, Consumes
<1>6. /\ ~ SM!Refuses(manager, s, None) /\ manager'.state = s
      /\ manager'.exception = None /\ Heard(t, s)' /\ Receives(s)
  <2>1. manager' = Enter(manager, s) /\ Receives(s)
    BY <1>1, <1>4 DEF Receives
  <2> HIDE DEF s
  <2> QED BY <1>1, <1>4, <1>5, <2>1, AnswerHeard
<1>7. session' = session
  BY <1>6, InvIs DEF Receives, Fails, Sessions
<1>8. /\ DOMAIN consumers' = DOMAIN consumers \ {tag}
      /\ \A other \in DOMAIN consumers' : consumers'[other] = consumers[other]
  BY <1>1, <1>4 DEF Without, Restrict
<1> HIDE DEF tag
<1>9. NoneGot' /\ NonePends' /\ KnownToClient'
  <2>1. \A u \in Task : ~ Gets(u)
    BY <1>4 DEF Requests, Gets, OneAtATime, Busy
  <2>2. NoneGot'
    BY <1>1, <2>1, TakenKeeps DEF NoneGot
  <2>3. NonePends'
    BY <1>1, <1>3, <1>4 DEF NonePends, OnePends, Requests, Consumes, ConsumesAreGranted
  <2>4. KnownToClient'
    BY <1>3, <1>4, <1>8 DEF Replied, KnownToClient, Consumes
  <2> QED BY <2>2, <2>3, <2>4
<1>10. TagsAreRegistered'
  <2>1. \A u \in Task : Busy(task[u]) => u = t
    BY <1>4 DEF Requests, OneAtATime, Busy
  <2>2. ~ Consumes(task[t].call)
    BY <1>4 DEF Consumes
  <2>3. ASSUME NEW u \in Task, task[u].pc = "iterating"
        PROVE  Registered(consumers', Call(u), task[u].tag, "consume")
               /\ Call(u) \in DOMAIN futures.done
    BY <1>4, <1>8, <2>3 DEF Working, Books, TagsAreRegistered, Registered
  <2> QED BY <1>1, <2>1, <2>2, <2>3 DEF Working, Books, TagsAreRegistered, Call
<1>11. Empty'
  BY <1>1, <1>2, <1>3, <1>4, <1>6, <1>9, AnswerIsLast DEF Calm
<1> HIDE DEF s
<1>12. Working' /\ OneAtATime'
  BY <1>1, <1>2, <1>3, <1>4, <1>5, <1>6, <1>7, <1>9, <1>10, <1>11, AnswerServes DEF Stage
<1> QED BY <1>6, <1>12

LEMMA ReceiveConsumeOkCareful ==
    ASSUME IInv, Working, OneAtATime, session.transport = "open",
           ReceiveConsumeOk, workload' = workload, broker' = broker
    PROVE  Working' /\ OneAtATime' /\ manager'.exception = None
<1> DEFINE s == "BASIC_CONSUMEOK_RECEIVED"
           by == Head(futures.pending)
           tag == Head(inbox).tag
<1>1. /\ Takes("ConsumeOk") /\ Receives(s)
      /\ futures' = [futures EXCEPT !.pending = Tail(@),
                                    !.done = With(@, by.call, [tag |-> tag])]
      /\ consumers' = With(consumers, tag, by)
      /\ task' = task /\ message' = message
      /\ app' = app /\ outbox' = outbox
  BY DEF ReceiveConsumeOk
<1>2. /\ inbox # <<>> /\ Head(inbox).type = "ConsumeOk" /\ inbox' = Tail(inbox)
  BY <1>1 DEF Takes
<1>3. PICK t \in Task : Replied(t)
  BY <1>2, HeadIs
<1> DEFINE c == Call(t)
<1>4. Consumes(task[t].call) /\ Requests(t) /\ tag = c
  <2>1. task[t].call \in DOMAIN Request /\ IsAnswer(t, inbox[1]) /\ inbox[1].type = "ConsumeOk"
    BY <1>2, <1>3, HeadIs, CallIsRequest DEF Replied, Requests, Active
  <2>2. Consumes(task[t].call) /\ inbox[1] = [type |-> "ConsumeOk", tag |-> Call(t)]
    BY <2>1, AnswerIs
  <2>3. tag = Call(t)
    BY <1>2, <2>2, HeadIs
  <2> QED BY <1>3, <2>2, <2>3 DEF Replied
<1>5. s \in Answers(task[t].call)
  BY <1>4 DEF Answers, Consumes
<1>6. /\ ~ SM!Refuses(manager, s, None) /\ manager'.state = s
      /\ manager'.exception = None /\ Heard(t, s)'
  <2>1. manager' = Enter(manager, s)
    BY <1>1 DEF Receives
  <2> HIDE DEF s
  <2> QED BY <1>1, <1>4, <1>5, <2>1, AnswerHeard
<1>7. session' = session
  BY <1>1, <1>6, InvIs DEF Receives, Fails, Sessions
<1>8. /\ DOMAIN consumers = {} /\ c \notin DOMAIN futures.done
      /\ broker.consumers = {c}
      /\ ConsumesAreGranted => Len(futures.pending) = 1
      /\ futures.pending # <<>> /\ futures.pending \in Seq(Awaiting)
  <2>1. futures.pending \in Seq(Awaiting)
    BY ConsumersAre DEF FuturesTyped
  <2>2. PICK i \in DOMAIN futures.pending : futures.pending[i].call = c
    BY <1>4 DEF Requests, OnePends
  <2> QED BY <1>3, <1>4, <2>1, <2>2 DEF Replied, Requests, Ready, OnePends
<1>9. /\ futures'.done = With(futures.done, by.call, [tag |-> c])
      /\ futures'.pending = Tail(futures.pending) /\ Tail(futures.pending) \in Seq(Awaiting)
      /\ by = futures.pending[1] /\ 1 \in DOMAIN futures.pending
      /\ by = [call |-> by.call, method |-> by.method]
      /\ \A i \in DOMAIN Tail(futures.pending) :
            /\ i + 1 \in DOMAIN futures.pending
            /\ Tail(futures.pending)[i] = futures.pending[i + 1]
  <2>1. /\ by = futures.pending[1] /\ 1 \in DOMAIN futures.pending /\ by \in Awaiting
        /\ Tail(futures.pending) \in Seq(Awaiting)
        /\ \A i \in DOMAIN Tail(futures.pending) :
            /\ i + 1 \in DOMAIN futures.pending
            /\ Tail(futures.pending)[i] = futures.pending[i + 1]
    BY <1>8
  <2> HIDE DEF by
  <2> QED BY <1>1, <1>4, <2>1, ConsumersAre DEF FuturesTyped, Awaiting
<1>10. /\ DOMAIN consumers' = {c} /\ consumers'[c] = by
  BY <1>1, <1>4, <1>8 DEF With
<1> HIDE DEF c, tag
<1>11. \A u \in Task : (Busy(task[u]) => u = t) /\ task[u].pc # "iterating" /\ ~ Gets(u)
  <2>1. \A u \in Task : Busy(task[u]) => u = t
    BY <1>4 DEF Requests, OneAtATime, Busy
  <2>2. \A u \in Task : task[u].pc # "iterating"
    BY <1>8 DEF Working, Books, TagsAreRegistered, Registered
  <2> QED BY <1>4, <2>1, <2>2 DEF Gets, Consumes, Busy
<1>12. NoneGot' /\ NonePends' /\ KnownToClient'
  <2>1. NoneGot'
    BY <1>1, <1>11, TakenKeeps DEF NoneGot
  <2>2. ConsumesAreGranted => Tail(futures.pending) = <<>>
    <3>1. ConsumesAreGranted => Len(Tail(futures.pending)) = 0
      BY <1>8
    <3>2. \A r \in Seq(Awaiting) : Len(r) = 0 => r = <<>>
      OBVIOUS
    <3> QED BY <1>9, <3>1, <3>2
  <2> QED BY <1>8, <1>9, <1>10, <2>1, <2>2 DEF NonePends, KnownToClient, ConsumesAreGranted
<1>13. TagsAreRegistered'
  <2>1. \A u \in Task : \A i \in DOMAIN futures.pending : futures.pending[i].call = Call(u)
           => Consumes(task[u].call) /\ futures.pending[i].method = task[u].call
    BY DEF Working, Books, TagsAreRegistered
  <2>2. ASSUME c \in DOMAIN futures'.done
        PROVE  Registered(consumers', c, futures'.done[c].tag, task[t].call)
    <3>1. by.call = c /\ futures'.done[c] = [tag |-> c]
      BY <1>8, <1>9, <2>2 DEF With
    <3>2. by.method = task[t].call
      BY <1>9, <2>1, <3>1 DEF c
    <3>3. consumers'[c] = [call |-> c, method |-> task[t].call]
      BY <1>9, <1>10, <3>1, <3>2
    <3>4. futures'.done[c].tag = c
      BY <3>1
    <3> QED BY <1>10, <3>3, <3>4 DEF Registered
  <2>3. \A u \in Task : Call(u)' = Call(u) /\ task'[u] = task[u]
    BY <1>1 DEF Call
  <2> HIDE DEF by
  <2>4. \A u \in Task : \A i \in DOMAIN futures'.pending : futures'.pending[i].call = Call(u)
           => Consumes(task[u].call) /\ futures'.pending[i].method = task[u].call
    BY <1>9, <2>1
  <2> QED BY <1>11, <2>2, <2>3, <2>4 DEF TagsAreRegistered, c
<1>14. Stage'
  <2>1. Underway' = Underway /\ MailIsEmpty'
    BY <1>1, <1>4, TakenKeeps DEF Requests
  <2>2. CASE Len(inbox) = 1 /\ Underway = {}
    BY <1>1, <1>2, <1>3, <1>6, <1>12, <2>2, AnswerIsLast DEF Calm, Stage
  <2>3. CASE /\ Len(inbox) > 1 /\ BeginsFirst(inbox, 2)
             /\ inbox[2].type = "Deliver" /\ ~ inbox[2].delivery.get
             /\ IsUnderway(inbox[2].delivery)
    <3>1. /\ inbox' # <<>> /\ inbox'[1] = inbox[2]
          /\ \A i \in DOMAIN inbox' : /\ i >= 1 /\ i + 1 \in DOMAIN inbox /\ i \in Nat
                                      /\ inbox'[i] = inbox[i + 1]
      <4>1. inbox \in Seq(InFrame) /\ inbox' = Tail(inbox) /\ Len(inbox) > 1
        BY <1>2, <2>3, InvIs
      <4> QED BY <4>1
    <3>2. BeginsFirst(inbox', 1)
      <4> SUFFICES ASSUME NEW i \in DOMAIN inbox'
                   PROVE  inbox'[i].type \in Content /\ (Begins(inbox'[i]) => i = 1)
        BY DEF BeginsFirst
      <4>1. /\ inbox'[i] = inbox[i + 1] /\ i + 1 \in DOMAIN inbox /\ i \in Nat /\ i >= 1
        BY <3>1
      <4>2. i + 1 >= 2
        BY <4>1
      <4>3. inbox[i + 1].type \in Content /\ (Begins(inbox[i + 1]) => i + 1 = 2)
        BY <2>3, <4>1, <4>2 DEF BeginsFirst
      <4> QED BY <4>1, <4>3
    <3>3. IsUnderway(inbox[2].delivery) => /\ inbox'[1].delivery.id[1] = broker'.channel
                                           /\ inbox'[1].delivery.id[2] \in Underway'
                                           /\ broker'.unacked[inbox'[1].delivery.id[2]]
                                                 = inbox'[1].delivery
      BY <2>1, <3>1 DEF IsUnderway
    <3>4. Coming'
      BY <1>6, <1>12, <2>1, <2>3, <3>1, <3>2, <3>3 DEF Coming, IsUnderway, BeginsFirst, Calm
    <3> QED BY <3>4 DEF Stage
  <2> QED BY <1>3, <1>4, <2>2, <2>3 DEF Replied
<1>15. task[t].call # "queue_declare"
  BY <1>4 DEF Consumes
<1> HIDE DEF s, by
<1>16. Working' /\ OneAtATime'
  BY <1>1, <1>2, <1>3, <1>4, <1>5, <1>6, <1>7, <1>12, <1>13, <1>14, <1>15, AnswerServes
<1> QED BY <1>6, <1>16

---------------------------------------------------------------------------
(* The frames of a message *)

\* The rest of the frames, while they are all of one message.
LEMMA RestIsContent ==
    ASSUME inbox \in Seq(InFrame), inbox # <<>>, inbox' = Tail(inbox), BeginsFirst(inbox, 1)
    PROVE  BeginsFirst(inbox', 1) /\ \A i \in DOMAIN inbox' : ~ Begins(inbox'[i])
<1> SUFFICES ASSUME NEW i \in DOMAIN inbox'
             PROVE  inbox'[i].type \in Content /\ ~ Begins(inbox'[i])
  BY DEF BeginsFirst
<1>1. inbox'[i] = inbox[i + 1] /\ i + 1 \in DOMAIN inbox /\ i \in Nat /\ i >= 1
  OBVIOUS
<1>2. i + 1 >= 1 /\ i + 1 # 1
  BY <1>1
<1>3. inbox[i + 1].type \in Content /\ (Begins(inbox[i + 1]) => i + 1 = 1)
  BY <1>1, <1>2 DEF BeginsFirst
<1> QED BY <1>1, <1>2, <1>3

\* A message begins: that of a consumer.
LEMMA ReceiveDeliverCareful ==
    ASSUME IInv, Working, OneAtATime, session.transport = "open",
           ReceiveMessage("Deliver", "BASIC_DELIVER_RECEIVED"),
           workload' = workload, broker' = broker
    PROVE  Working' /\ OneAtATime' /\ manager'.exception = None
<1> DEFINE s == "BASIC_DELIVER_RECEIVED"
           d == Head(inbox).delivery
<1>1. /\ Takes("Deliver") /\ Receives(s) /\ task' = task /\ futures' = futures
      /\ consumers' = consumers /\ app' = app /\ outbox' = outbox
      /\ ~ SM!Refuses(manager, s, None) =>
            message' = [delivery |-> d, header |-> None, bodies |-> <<>>]
  BY DEF ReceiveMessage
<1>2. inbox # <<>> /\ Head(inbox).type = "Deliver" /\ inbox' = Tail(inbox)
  BY <1>1 DEF Takes
<1>3. /\ Serving /\ Coming /\ Head(inbox) = inbox[1] /\ Head(inbox) \in InFrame
      /\ IsUnderway(d) /\ ~ d.get /\ ~ Filled /\ Ledger
  <2>1. Serving /\ Coming /\ Head(inbox) = inbox[1] /\ Head(inbox) \in InFrame
    BY <1>2, HeadIs
  <2>2. IsUnderway(d) /\ ~ d.get /\ Ledger
    BY <2>1 DEF Coming, Working, Books
  <2> HIDE DEF d
  <2> QED BY <2>1, <2>2, FilledIsServed
<1>4. app.fresh = None
  BY <1>3, FreshIs
<1>5. \A t \in Task : HasHeard(t) => Consumes(task[t].call)
  BY <1>3 DEF HasHeard
<1>6. /\ ~ SM!Refuses(manager, s, None) /\ manager'.state = s
      /\ manager'.exception = None /\ manager'.waits = manager.waits
      /\ manager'.ready = manager.ready /\ manager'.fired = manager.fired
  <2>1. manager' = Enter(manager, s) /\ s \in Parts /\ manager \in Managers
        /\ manager.exception = None
    BY <1>1, InvIs DEF Receives, Parts, Working
  <2>2. s \in ClientTransitions[manager.state]
    BY <1>3, CarefulTransitions DEF Coming
  <2>3. \/ Quiet(manager)
        \/ \E u \in Task, c \in DOMAIN Request : \E x \in Polled(c) : Hears(manager, u, c, x)
    <3>1. ASSUME NEW u \in Task, HasHeard(u)
          PROVE  \E c \in DOMAIN Request : \E x \in Polled(c) : Hears(manager, u, c, x)
      <4>1. PICK x \in Answers(task[u].call) : Heard(u, x)
        BY <3>1 DEF HasHeard
      <4>2. task[u].call \in DOMAIN Request
        BY <3>1, CallIsRequest DEF HasHeard, Active
      <4> QED BY <4>1, <4>2 DEF Heard, Polled
    <3> QED BY <1>3, <3>1 DEF Serving, NoneWaits
  <2> HIDE DEF s
  <2> QED BY <2>1, <2>2, <2>3, PartEnters
<1>7. session' = session
  BY <1>1, <1>6, InvIs DEF Receives, Fails, Sessions
<1>8. /\ Ledger' /\ Underway' = Underway /\ (Filled => Filled') /\ FreshIsLast' /\ MailIsEmpty'
      /\ \A t \in Task : (Gets(t)' <=> Gets(t)) /\ Call(t)' = Call(t)
      /\ \A t \in Task : task'[t].result \notin {STE, "AttributeError"}
  BY <1>1, <1>3, <1>4, TakenKeeps DEF Coming
<1>9. Taking'
  <2>1. message'.delivery = d /\ message'.header = None /\ Collecting'
    <3>1. d \in Delivery /\ Begins(Head(inbox))
      BY <1>2, <1>3, FrameIs DEF Begins
    <3>2. message' = [delivery |-> d, header |-> None, bodies |-> <<>>]
      BY <1>1, <1>6
    <3>3. message' \in Message /\ Partial(workload, LastTaken(message'))
      BY <1>3, <3>1, <3>2, MessageBegins
    <3> QED BY <3>2, <3>3, MessageIs DEF Collecting
  <2>2. BeginsFirst(inbox', 1)
    BY <1>2, <1>3, InvIs, RestIsContent DEF Coming
  <2>3. IsUnderway(message.delivery)'
    BY <1>3, <1>8, <2>1 DEF IsUnderway
  <2>4. ForItsGet(message.delivery)'
    BY <1>3, <2>1 DEF ForItsGet
  <2>5. manager'.state \in TakingStates(message')
    BY <1>6, <2>1 DEF TakingStates
  <2>6. NoneGot'
    BY <1>1, <1>3, <1>8 DEF NoneGot, Coming
  <2> QED BY <1>8, <2>1, <2>2, <2>3, <2>4, <2>5, <2>6 DEF Taking
<1>10. Serving'
  <2>1. ASSUME NEW u \in Task, HasHeard(u)
        PROVE  HasHeard(u)'
    <3>1. Consumes(task[u].call)
      BY <1>5, <2>1
    <3> QED BY <1>1, <1>6, <2>1, <3>1, HeardStays DEF Consumes
  <2>2. NoneWaits => NoneWaits'
    BY <1>6 DEF NoneWaits, Quiet
  <2>3. \A u \in Task : AtRest(u) => AtRest(u)'
    BY <1>1 DEF AtRest
  <2>4. ChannelIsOpen' /\ KnownToClient' /\ NonePends' /\ Settles(outbox)'
    BY <1>1, <1>3, <1>7 DEF Serving, ChannelIsOpen, KnownToClient, NonePends,
       ConsumesAreGranted, Settles
  <2> QED BY <1>3, <1>9, <2>1, <2>2, <2>3, <2>4 DEF Serving, Stage
<1>11. TagsAreRegistered' /\ OneAtATime'
  BY <1>1 DEF Working, Books, TagsAreRegistered, Call, OneAtATime
<1> HIDE DEF s
<1> QED BY <1>6, <1>7, <1>8, <1>10, <1>11 DEF Working, Books

\* A message begins: that of a get.
LEMMA ReceiveGetOkCareful ==
    ASSUME IInv, Working, OneAtATime, session.transport = "open",
           ReceiveMessage("GetOk", "BASIC_GETOK_RECEIVED"),
           workload' = workload, broker' = broker
    PROVE  Working' /\ OneAtATime' /\ manager'.exception = None
<1> DEFINE s == "BASIC_GETOK_RECEIVED"
           d == Head(inbox).delivery
<1>1. /\ Takes("GetOk") /\ Receives(s) /\ task' = task /\ futures' = futures
      /\ consumers' = consumers /\ app' = app /\ outbox' = outbox
      /\ ~ SM!Refuses(manager, s, None) =>
            message' = [delivery |-> d, header |-> None, bodies |-> <<>>]
  BY DEF ReceiveMessage
<1>2. inbox # <<>> /\ Head(inbox).type = "GetOk" /\ inbox' = Tail(inbox)
  BY <1>1 DEF Takes
<1>3. PICK t \in Task : Replied(t)
  BY <1>2, HeadIs
<1>4. /\ Requests(t) /\ task[t].call = "basic_get" /\ Head(inbox) \in InFrame
      /\ d.get /\ d.for = Call(t) /\ IsUnderway(d) /\ BeginsFirst(inbox, 1)
      /\ futures.get = Call(t) /\ Call(t) \notin DOMAIN futures.done
  <2>1. /\ task[t].call \in DOMAIN Request /\ IsAnswer(t, Head(inbox))
        /\ Head(inbox) = inbox[1] /\ Head(inbox) \in InFrame
    BY <1>2, <1>3, HeadIs, CallIsRequest DEF Replied, Requests, Active
  <2>2. /\ task[t].call = "basic_get" /\ d.get /\ d.for = Call(t) /\ IsUnderway(d)
    BY <1>2, <2>1, AnswerIs
  <2> HIDE DEF d
  <2> QED BY <1>2, <1>3, <2>1, <2>2 DEF Replied, Consumes, Requests, Ready
<1>5. s \in Answers(task[t].call)
  BY <1>4 DEF Answers, Consumes
<1>6. /\ ~ SM!Refuses(manager, s, None) /\ manager'.state = s
      /\ manager'.exception = None /\ Heard(t, s)'
  <2>1. manager' = Enter(manager, s)
    BY <1>1 DEF Receives
  <2> HIDE DEF s, d
  <2> QED BY <1>1, <1>4, <1>5, <2>1, AnswerHeard
<1>7. session' = session
  BY <1>1, <1>6, InvIs DEF Receives, Fails, Sessions
<1>8. /\ Underway' = Underway /\ MailIsEmpty'
      /\ \A u \in Task : (Gets(u)' <=> Gets(u)) /\ Call(u)' = Call(u)
  BY <1>1, <1>4, TakenKeeps DEF Requests
<1>9. NoneGot' /\ NonePends' /\ KnownToClient' /\ TagsAreRegistered'
  <2>1. \A u \in Task : Gets(u) => u = t
    BY <1>4 DEF Requests, Gets, OneAtATime, Busy
  <2>2. NoneGot'
    BY <1>1, <1>4, <1>8, <2>1 DEF NoneGot
  <2>3. NonePends' /\ KnownToClient'
    BY <1>1, <1>3, <1>4 DEF NonePends, OnePends, Requests, Consumes, Replied, KnownToClient,
       ConsumesAreGranted
  <2> QED BY <1>1, <2>2, <2>3 DEF Working, Books, TagsAreRegistered, Call
<1>10. Taking'
  <2>1. message'.delivery = d /\ message'.header = None /\ Collecting'
    <3>1. d \in Delivery /\ Begins(Head(inbox))
      BY <1>2, <1>4, FrameIs DEF Begins
    <3>2. message' = [delivery |-> d, header |-> None, bodies |-> <<>>]
      BY <1>1, <1>6
    <3>3. message' \in Message /\ Partial(workload, LastTaken(message'))
      BY <1>4, <3>1, <3>2, MessageBegins
    <3> QED BY <3>2, <3>3, MessageIs DEF Collecting
  <2>2. BeginsFirst(inbox', 1)
    BY <1>2, <1>4, InvIs, RestIsContent
  <2>3. IsUnderway(message.delivery)'
    BY <1>4, <1>8, <2>1 DEF IsUnderway
  <2>4. ForItsGet(message.delivery)'
    <3>1. Gets(t) /\ Call(t)' = d.for /\ futures'.get = d.for /\ d.for \notin DOMAIN futures'.done
      BY <1>1, <1>4, <1>8 DEF Requests, Gets
    <3> HIDE DEF d
    <3> QED BY <1>8, <2>1, <3>1 DEF ForItsGet
  <2>5. manager'.state \in TakingStates(message')
    BY <1>6, <2>1 DEF TakingStates
  <2> QED BY <1>8, <1>9, <2>1, <2>2, <2>3, <2>4, <2>5 DEF Taking
<1> HIDE DEF s, d
<1>11. task[t].call # "queue_declare" /\ Stage'
  BY <1>4, <1>10 DEF Stage
<1>12. Working' /\ OneAtATime'
  BY <1>1, <1>3, <1>5, <1>6, <1>7, <1>9, <1>11, AnswerServes
<1> QED BY <1>6, <1>12

LEMMA ServingHears ==
    ASSUME IInv, Serving
    PROVE  \/ Quiet(manager)
           \/ \E t \in Task, c \in DOMAIN Request : \E x \in Polled(c) : Hears(manager, t, c, x)
<1>1. ASSUME NEW t \in Task, HasHeard(t)
      PROVE  \E c \in DOMAIN Request : \E x \in Polled(c) : Hears(manager, t, c, x)
  <2>1. PICK x \in Answers(task[t].call) : Heard(t, x)
    BY <1>1 DEF HasHeard
  <2>2. task[t].call \in DOMAIN Request
    BY <1>1, CallIsRequest DEF HasHeard, Active
  <2> QED BY <2>1, <2>2 DEF Heard, Polled
<1> QED BY <1>1 DEF Serving, NoneWaits

\* A part is taken.
LEMMA PartServes ==
    ASSUME IInv, Working, Serving, OneAtATime, session' = session, inbox # <<>>,
           manager'.waits = manager.waits, manager'.ready = manager.ready,
           manager'.fired = manager.fired, manager'.exception = None,
           task' = task, consumers' = consumers, futures'.pending = futures.pending,
           outbox' = outbox, broker' = broker, workload' = workload, Books', Stage',
           \A t \in Task : HasHeard(t)
              => Consumes(task[t].call) \/ (Filled' /\ app'.fresh = None)
    PROVE  Working' /\ OneAtATime'
<1>1. ASSUME NEW t \in Task, HasHeard(t)
      PROVE  HasHeard(t)'
  <2>1. task[t].call # "queue_declare"
    BY <1>1 DEF HasHeard, Empty
  <2> QED BY <1>1, <2>1, HeardStays
<1>2. NoneWaits => NoneWaits'
  BY DEF NoneWaits, Quiet
<1>3. \A t \in Task : AtRest(t) => AtRest(t)'
  BY DEF AtRest
<1>4. ChannelIsOpen' /\ KnownToClient' /\ NonePends' /\ Settles(outbox)'
  BY DEF Serving, ChannelIsOpen, KnownToClient, NonePends, ConsumesAreGranted, Settles
<1>5. Serving'
  BY <1>1, <1>2, <1>3, <1>4 DEF Serving
<1> QED BY <1>5 DEF Working, OneAtATime

\* What follows the last frame of a message is another message, or nothing.
LEMMA LastPart ==
    ASSUME IInv, ~ session.failed, session.transport = "open", inbox # <<>>,
           BeginsFirst(inbox, 1), ~ Partial(workload, inbox[1]), inbox' = Tail(inbox)
    PROVE  inbox' = <<>>
<1>1. inbox \in Seq(InFrame) /\ InOrder(workload, message, inbox, TRUE)
  BY InvIs DEF IInv, ContentOK
<1>2. ASSUME Len(inbox) # 1
      PROVE  FALSE
  <2>1. 2 \in DOMAIN inbox
    <3>1. Len(inbox) \in Nat /\ Len(inbox) # 0 /\ DOMAIN inbox = 1..Len(inbox)
      BY <1>1
    <3> QED BY <1>2, <3>1
  <2>2. Follows(workload, inbox[1], inbox[2])
    <3>1. Before(message, inbox, 2) = inbox[1]
      BY DEF Before
    <3> QED BY <1>1, <2>1, <3>1 DEF InOrder
  <2>3. inbox[2].type \notin {"Header", "Body"}
    BY <2>2 DEF Follows
  <2>4. inbox[2].type \in Content /\ ~ Begins(inbox[2])
    BY <2>1 DEF BeginsFirst
  <2> QED BY <2>3, <2>4 DEF Content, Begins
<1>3. Tail(inbox) \in Seq(InFrame) /\ Len(Tail(inbox)) = 0
  BY <1>1, <1>2
<1>4. \A r \in Seq(InFrame) : Len(r) = 0 => r = <<>>
  OBVIOUS
<1> QED BY <1>3, <1>4

LEMMA ReceiveHeaderCareful ==
    ASSUME IInv, Working, OneAtATime, session.transport = "open",
           ReceiveHeader, workload' = workload, broker' = broker
    PROVE  Working' /\ OneAtATime' /\ manager'.exception = None
<1> DEFINE s == "CONTENT_HEADER_RECEIVED"
           d == message.delivery
           g == Head(inbox)
<1>1. /\ Takes("Header") /\ Receives(s) /\ task' = task /\ futures' = futures
      /\ consumers' = consumers /\ app' = app /\ outbox' = outbox
      /\ ~ SM!Refuses(manager, s, None) => message' = [message EXCEPT !.header = g.of]
  BY DEF ReceiveHeader
<1>2. inbox # <<>> /\ g.type = "Header" /\ inbox' = Tail(inbox)
  BY <1>1 DEF Takes
<1>3. Serving /\ Taking /\ ~ session.failed
  BY <1>2, HeadIs DEF Working
<1>4. /\ g = inbox[1] /\ message \in Message /\ IsOwn(message)
      /\ Follows(workload, LastTaken(message), g)
      /\ message.header = None /\ g.of = d /\ g \in InFrame
      /\ IsUnderway(d) /\ ForItsGet(d) /\ MailIsEmpty /\ NoneGot /\ BeginsFirst(inbox, 1)
      /\ manager.state \in {"BASIC_DELIVER_RECEIVED", "BASIC_GETOK_RECEIVED"}
  BY <1>2, <1>3, TakingHead DEF Taking, TakingStates
<1>5. app.fresh = None
  <2>1. Underway # {}
    BY <1>4 DEF IsUnderway
  <2> QED BY <2>1 DEF Working, Books, FreshIsLast
<1>6. /\ ~ SM!Refuses(manager, s, None) /\ manager'.state = s
      /\ manager'.exception = None /\ manager'.waits = manager.waits
      /\ manager'.ready = manager.ready /\ manager'.fired = manager.fired
  <2>1. manager' = Enter(manager, s) /\ s \in Parts /\ manager \in Managers
        /\ manager.exception = None
    BY <1>1, InvIs DEF Receives, Parts, Working
  <2>2. s \in ClientTransitions[manager.state]
    BY <1>4, CarefulTransitions
  <2> HIDE DEF s
  <2> QED BY <1>3, <2>1, <2>2, ServingHears, PartEnters
<1>7. session' = session
  BY <1>1, <1>6, InvIs DEF Receives, Fails, Sessions
<1>8. /\ Ledger' /\ Underway' = Underway /\ (Filled => Filled') /\ FreshIsLast' /\ MailIsEmpty'
      /\ \A t \in Task : (Gets(t)' <=> Gets(t)) /\ Call(t)' = Call(t)
  BY <1>1, <1>4, <1>5, TakenKeeps
<1>9. /\ message' \in Message /\ LastTaken(message') = g /\ message'.delivery = d
      /\ message'.header = d /\ message'.bodies = <<>>
  <2>1. message' = [message EXCEPT !.header = g.of]
    BY <1>1, <1>6
  <2>2. message' \in Message /\ LastTaken(message') = g /\ message'.delivery = d
    BY <1>2, <1>4, <2>1, HeaderTaken
  <2>3. message = [delivery |-> message.delivery, header |-> message.header,
                   bodies |-> message.bodies]
    BY <1>4 DEF Message
  <2>4. message.bodies = <<>>
    BY <1>4, MessageIs DEF IsOwn
  <2> HIDE DEF g, d
  <2>5. message' = [delivery |-> message.delivery, header |-> d, bodies |-> <<>>]
    BY <1>4, <2>1, <2>3, <2>4
  <2> QED BY <2>2, <2>5
<1>10. /\ IsUnderway(message.delivery)' /\ ForItsGet(message.delivery)' /\ NoneGot'
       /\ message' # None /\ (Collecting' <=> Partial(workload, g))
  <2>1. IsUnderway(message.delivery)'
    BY <1>4, <1>8, <1>9 DEF IsUnderway
  <2>2. ForItsGet(message.delivery)'
    BY <1>1, <1>4, <1>8, <1>9 DEF ForItsGet
  <2>3. NoneGot'
    BY <1>1, <1>4, <1>8 DEF NoneGot
  <2>4. message' # None /\ (Collecting' <=> Partial(workload, g))
    BY <1>9, MessageIs DEF Collecting
  <2> QED BY <2>1, <2>2, <2>3, <2>4
<1>11. Stage'
  <2>1. CASE Partial(workload, g)
    <3>1. BeginsFirst(inbox', 1)
      BY <1>2, <1>4, InvIs, RestIsContent
    <3>2. manager'.state \in TakingStates(message')
      <4>1. d # None
        BY <1>4, MessageIs DEF Message
      <4> QED BY <1>6, <1>9, <4>1 DEF TakingStates
    <3>3. Taking'
      BY <1>8, <1>10, <2>1, <3>1, <3>2 DEF Taking
    <3> QED BY <3>3 DEF Stage
  <2>2. CASE ~ Partial(workload, g)
    <3>1. inbox' = <<>>
      BY <1>2, <1>3, <1>4, <2>2, LastPart
    <3>2. Stuck'
      BY <1>6, <1>8, <1>10, <2>2, <3>1 DEF Stuck
    <3> QED BY <3>2 DEF Stage
  <2> QED BY <2>1, <2>2
<1>12. Books'
  BY <1>1, <1>8 DEF Working, Books, TagsAreRegistered, Call
<1>13. \A t \in Task : HasHeard(t) => Consumes(task[t].call) \/ (Filled' /\ app'.fresh = None)
  BY <1>1, <1>5, <1>8 DEF HasHeard
<1> HIDE DEF s, g, d
<1>14. Working' /\ OneAtATime'
  BY <1>1, <1>2, <1>3, <1>6, <1>7, <1>11, <1>12, <1>13, PartServes
<1> QED BY <1>6, <1>14

\* The message is complete: it goes to the future of its get, or to its consumer.
LEMMA CompleteCareful ==
    ASSUME IInv, Working, Taking, Serving, OneAtATime, NEW msg \in Message,
           msg.delivery = message.delivery, Complete(msg),
           manager'.state = "MESSAGE_ASSEMBLED", inbox # <<>>, inbox' = <<>>,
           task' = task, consumers' = consumers, outbox' = outbox, broker' = broker,
           workload' = workload
    PROVE  /\ session' = session /\ futures'.pending = futures.pending /\ Books' /\ Stage'
           /\ \A t \in Task : HasHeard(t)
                 => Consumes(task[t].call) \/ (Filled' /\ app'.fresh = None)
<1> DEFINE d == msg.delivery
<1>1. /\ IsUnderway(d) /\ ForItsGet(d) /\ MailIsEmpty /\ NoneGot
      /\ d \in Delivery /\ d.for \in Calls
  BY HeldIs DEF Taking, Delivery
<1>2. app.fresh = None
  <2>1. Underway # {}
    BY <1>1 DEF IsUnderway
  <2> QED BY <2>1 DEF Working, Books, FreshIsLast
<1>3. Onward(task, task') /\ \A t \in Task : (Gets(t)' <=> Gets(t)) /\ Call(t)' = Call(t)
  BY DEF Onward, Gets, Call
<1>4. CASE d.get
  <2>1. PICK t \in Task : /\ Gets(t) /\ Call(t) = d.for /\ futures.get = d.for
                          /\ d.for \notin DOMAIN futures.done
    BY <1>1, <1>4 DEF ForItsGet
  <2>2. GetIsAwaited
    BY <1>1, <2>1, MessageIs DEF GetIsAwaited
  <2>3. futures' = GetResult(msg) /\ Fails(FALSE) /\ app' = app
    BY <1>4, <2>2 DEF Complete
  <2>4. session' = session
    BY <2>3, InvIs DEF Fails, Sessions
  <2>5. /\ futures'.done = With(futures.done, d.for, [message |-> msg])
        /\ futures'.pending = futures.pending
    BY <2>1, <2>3, ConsumersAre DEF GetResult, FuturesTyped
  <2> HIDE DEF d
  <2>6. futures'.done[d.for] = [message |-> msg] /\ d.for \in DOMAIN futures'.done
    BY <2>5 DEF With
  <2>7. /\ Ledger' /\ Underway' = Underway /\ (Filled => Filled') /\ FreshIsLast' /\ MailIsEmpty'
    BY <1>1, <1>2, <2>3, TakenKeeps
  <2>8. Got'
    <3>1. futures'.done[d.for].message = msg
      BY <2>6
    <3>2. IsUnderway(d)'
      BY <1>1, <2>7 DEF IsUnderway, d
    <3>3. Gets(t)' /\ Call(t)' = d.for
      BY <1>3, <2>1
    <3> QED BY <1>4, <2>6, <2>7, <3>1, <3>2, <3>3, MessageIs DEF Got, IsUnderway, d
  <2>9. TagsAreRegistered'
    <3>1. \A call : call \in DOMAIN futures.done =>
             /\ call \in DOMAIN futures'.done
             /\ call # d.for => futures'.done[call] = futures.done[call]
      BY <2>5 DEF With
    <3>2. \A call : call \in DOMAIN futures'.done /\ call # d.for => call \in DOMAIN futures.done
      BY <2>5 DEF With
    <3>3. \A u \in Task : Busy(task[u]) => u = t
      BY <2>1 DEF Gets, OneAtATime, Busy
    <3>4. ~ Consumes(task[t].call)
      BY <2>1 DEF Gets, Consumes
    <3> QED BY <1>3, <2>1, <2>5, <3>1, <3>2, <3>3, <3>4 DEF Working, Books, TagsAreRegistered
  <2>10. \A u \in Task : HasHeard(u) => Consumes(task[u].call) \/ (Filled' /\ app'.fresh = None)
    BY <1>2, <2>3, <2>7 DEF HasHeard
  <2> QED BY <2>4, <2>5, <2>7, <2>8, <2>9, <2>10 DEF Books, Stage
<1>5. CASE ~ d.get
  <2> DEFINE tag == d.for
             call == consumers[tag].call
  <2>1. tag \in DOMAIN consumers
    BY <1>1, <1>5 DEF Working, Books, Ledger, OneUnderway, IsUnderway, Serving, KnownToClient
  <2>2. /\ futures' = futures /\ Fails(FALSE)
        /\ app' = IF consumers[tag].method = "consume"
                  THEN [app EXCEPT !.mailbox = With(@, call, Append(MailOf(call), msg))]
                  ELSE Hand(app, call, msg)
    BY <1>5, <2>1 DEF Complete
  <2>3. session' = session
    BY <2>2, InvIs DEF Fails, Sessions
  <2>4. \A u \in Task : HasHeard(u) => Consumes(task[u].call)
    <3>1. Ledger
      BY DEF Working, Books
    <3>2. ~ Filled
      BY <1>1, <1>5, <3>1, FilledIsServed
    <3> QED BY <3>2 DEF HasHeard
  <2>5. TagsAreRegistered'
    BY <1>3, <2>2 DEF Working, Books, TagsAreRegistered
  <2>6. app = AppOf(app.held, app.fresh, app.handed, app.settled, app.mailbox)
    BY InvIs, AppIs
  <2>7. NoneGot'
    BY <1>1, <1>3, <2>2 DEF NoneGot
  <2>8. CASE consumers[tag].method = "consume"
    <3> HIDE DEF d, tag
    <3>1. MailOf(call) = <<>>
      BY <1>1 DEF MailOf, MailIsEmpty
    <3>2. Append(MailOf(call), msg) = <<msg>>
      BY <3>1, ShortSequences
    <3> HIDE DEF call
    <3>3. app' = [app EXCEPT !.mailbox = With(@, call, <<msg>>)]
      BY <2>2, <2>8, <3>2
    <3>4. /\ app'.held = app.held /\ app'.fresh = app.fresh /\ app'.settled = app.settled
          /\ app'.mailbox = With(app.mailbox, call, <<msg>>)
      BY <2>6, <3>3 DEF AppOf
    <3>5. /\ Ledger' /\ Underway' = Underway /\ (Filled => Filled')
      <4>1. SettlesAlike(outbox, outbox')
        BY DEF SettlesAlike
      <4> QED BY <1>3, <3>4, <4>1, LedgerKept DEF Working, Books
    <3>6. FreshIsLast'
      BY <1>2, <3>4 DEF FreshIsLast
    <3>7. /\ call \in DOMAIN app'.mailbox /\ app'.mailbox[call] = <<msg>>
          /\ \A other \in DOMAIN app'.mailbox \ {call} : app'.mailbox[other] = <<>>
      BY <1>1, <3>4 DEF With, MailIsEmpty
    <3>8. Mailed'
      <4>1. Len(<<msg>>) = 1 /\ <<msg>>[1] = msg
        OBVIOUS
      <4>2. IsUnderway(d)'
        BY <1>1, <3>5 DEF IsUnderway, d
      <4> QED BY <1>5, <2>7, <3>7, <4>1, <4>2 DEF Mailed, IsUnderway, d
    <3> QED BY <2>2, <2>3, <2>4, <2>5, <3>5, <3>6, <3>8 DEF Books, Stage
  <2>9. CASE consumers[tag].method # "consume"
    <3>1. app' = Hand(app, call, msg)
      BY <2>2, <2>9
    <3> HIDE DEF d, tag, call
    <3>2. /\ app'.held = app.held \cup {msg} /\ app'.fresh = msg
          /\ app'.settled = app.settled /\ app'.mailbox = app.mailbox
      BY <2>6, <3>1 DEF Hand, AppOf
    <3>3. MailIsEmpty'
      BY <1>1, <3>2 DEF MailIsEmpty
    <3>4. IsUnderway(msg.delivery)
      BY <1>1 DEF d
    <3>5. Ledger' /\ FreshIsLast' /\ Stage'
      BY <1>3, <2>7, <3>2, <3>3, <3>4, HandServes DEF Working
    <3> QED BY <2>2, <2>3, <2>4, <2>5, <3>5 DEF Books
  <2> QED BY <2>8, <2>9
<1> QED BY <1>4, <1>5

\* A message and its next body frame.
Grown(msg, g) == [delivery |-> msg.delivery, header |-> msg.header,
                  bodies |-> Append(msg.bodies, g)]

LEMMA NextBody ==
    ASSUME NEW w, NEW msg \in Message, IsOwn(msg), NEW g \in InFrame,
           g.type = "Body", Follows(w, LastTaken(msg), g)
    PROVE  /\ Grown(msg, g) \in Message /\ LastTaken(Grown(msg, g)) = g
           /\ Grown(msg, g).delivery = msg.delivery /\ Grown(msg, g).header = msg.delivery
           /\ Grown(msg, g).bodies = Append(msg.bodies, g)
           /\ g = PartOf(msg.delivery, Len(Append(msg.bodies, g)))
<1> DEFINE top == Len(msg.bodies) + 1
           all == Append(msg.bodies, g)
           next == Grown(msg, g)
<1>1. Partial(w, LastTaken(msg)) /\ g = Successor(LastTaken(msg))
  BY DEF Follows
<1>2. ~ Begins(LastTaken(msg))
  BY <1>1, SuccessorIs
<1>3. msg.header = msg.delivery /\ g = PartOf(msg.delivery, top)
  BY <1>1, <1>2, LastTakenIs
<1>4. msg.delivery \in Delivery /\ msg.bodies \in Seq(BodyFrame) /\ g \in BodyFrame
  BY <1>3, FrameIs DEF Message
<1>5. /\ all \in Seq(BodyFrame) /\ Len(all) = top /\ all # <<>> /\ all[top] = g
  BY <1>4
<1>6. next.delivery = msg.delivery /\ next.header = msg.delivery /\ next.bodies = all
  BY <1>3 DEF Grown
<1> HIDE DEF top, all
<1>7. next \in Message
  BY <1>3, <1>4, <1>5 DEF Message, Grown, all
<1> HIDE DEF next
<1>8. next # None /\ next.header # None
  BY <1>4, <1>6, <1>7, MessageIs
<1>9. LastTaken(next) = g
  BY <1>5, <1>6, <1>8 DEF LastTaken
<1> QED BY <1>3, <1>5, <1>6, <1>7, <1>9 DEF all, next

LEMMA ReceiveBodyCareful ==
    ASSUME IInv, Working, OneAtATime, session.transport = "open",
           ReceiveBody, workload' = workload, broker' = broker
    PROVE  Working' /\ OneAtATime' /\ manager'.exception = None
<1> DEFINE s == "CONTENT_BODY_RECEIVED"
           g == Head(inbox)
           msg == [message EXCEPT !.bodies = Append(@, g)]
           n == Enter(manager, s)
           o == Enter(n, "MESSAGE_ASSEMBLED")
<1>1. /\ Takes("Body") /\ task' = task /\ consumers' = consumers /\ outbox' = outbox
      /\ ~ SM!Refuses(manager, s, None) =>
            IF IsComplete(msg)
            THEN manager' = o /\ Complete(msg)
            ELSE Receives(s) /\ message' = msg /\ futures' = futures /\ app' = app
  BY DEF ReceiveBody
<1>2. inbox # <<>> /\ g.type = "Body" /\ inbox' = Tail(inbox)
  BY <1>1 DEF Takes
<1>3. Serving /\ Taking /\ ~ session.failed
  BY <1>2, HeadIs DEF Working
<1>4. /\ g = inbox[1] /\ message \in Message /\ IsOwn(message)
      /\ Follows(workload, LastTaken(message), g)
      /\ message.header # None /\ g \in InFrame
      /\ MailIsEmpty /\ NoneGot /\ BeginsFirst(inbox, 1)
      /\ manager.state \in {"CONTENT_HEADER_RECEIVED", s}
  BY <1>2, <1>3, TakingHead DEF Taking, TakingStates
<1>5. /\ ~ SM!Refuses(manager, s, None) /\ n \in Managers /\ n.state = s
      /\ n.exception = None /\ n.waits = manager.waits
      /\ n.ready = manager.ready /\ n.fired = manager.fired
  <2>1. s \in Parts /\ manager \in Managers /\ manager.exception = None
    BY InvIs DEF Parts, Working
  <2>2. manager.state = s \/ s \in ClientTransitions[manager.state]
    BY <1>4, CarefulTransitions
  <2> HIDE DEF s
  <2> QED BY <1>3, <2>1, <2>2, ServingHears, PartEnters
<1>6. /\ msg \in Message /\ LastTaken(msg) = g /\ msg.delivery = message.delivery
      /\ msg.header = message.delivery /\ g = PartOf(message.delivery, Len(msg.bodies))
      /\ msg.bodies = Append(message.bodies, g)
  <2>1. message \in Message /\ IsOwn(message)
    BY <1>4
  <2>2. g \in InFrame /\ g.type = "Body" /\ Follows(workload, LastTaken(message), g)
    BY <1>2, <1>4
  <2>3. msg = Grown(message, g)
    <3> DEFINE all == Append(message.bodies, g)
    <3>1. msg = [message EXCEPT !.bodies = all]
      OBVIOUS
    <3> HIDE DEF all, g, msg
    <3>2. msg = [delivery |-> message.delivery, header |-> message.header, bodies |-> all]
      BY <2>1, <3>1 DEF Message
    <3> QED BY <3>2 DEF Grown, all
  <2> HIDE DEF g, msg
  <2> QED BY <2>1, <2>2, <2>3, NextBody
<1> HIDE DEF msg
<1>7. CASE IsComplete(msg)
  <2>1. manager' = o /\ Complete(msg)
    BY <1>1, <1>5, <1>7
  <2>2. /\ o.state = "MESSAGE_ASSEMBLED"
        /\ o.exception = None /\ o.waits = manager.waits
        /\ o.ready = manager.ready /\ o.fired = manager.fired
    <3>1. "MESSAGE_ASSEMBLED" \in ClientTransitions[n.state]
      BY <1>5, AssembledFollows
    <3>2. \/ Quiet(n)
          \/ \E t \in Task, c \in DOMAIN Request : \E x \in Polled(c) : Hears(n, t, c, x)
      <4> HIDE DEF n
      <4>1. \/ Quiet(manager)
            \/ \E t \in Task, c \in DOMAIN Request : \E x \in Polled(c) : Hears(manager, t, c, x)
        BY <1>3, ServingHears
      <4> QED BY <1>5, <4>1 DEF Quiet, Hears
    <3> HIDE DEF n
    <3>3. "MESSAGE_ASSEMBLED" \in Parts
      BY DEF Parts
    <3> QED BY <1>5, <3>1, <3>2, <3>3, PartEnters
  <2>3. inbox' = <<>>
    <3>1. ~ Partial(workload, g)
      BY <1>6, <1>7, CompleteIsNot DEF IsComplete
    <3> HIDE DEF g
    <3> QED BY <1>2, <1>3, <1>4, <3>1, LastPart
  <2> HIDE DEF o
  <2>4. /\ session' = session /\ futures'.pending = futures.pending /\ Books' /\ Stage'
        /\ \A t \in Task : HasHeard(t)
              => Consumes(task[t].call) \/ (Filled' /\ app'.fresh = None)
    BY <1>1, <1>2, <1>3, <1>6, <2>1, <2>2, <2>3, CompleteCareful
  <2>5. Working' /\ OneAtATime'
    BY <1>1, <1>2, <1>3, <2>1, <2>2, <2>4, PartServes
  <2> QED BY <2>1, <2>2, <2>5
<1>8. CASE ~ IsComplete(msg)
  <2>1. manager' = n /\ message' = msg /\ futures' = futures /\ app' = app /\ Receives(s)
    BY <1>1, <1>5, <1>8 DEF Receives
  <2>2. session' = session
    BY <1>5, <2>1, InvIs DEF Receives, Fails, Sessions
  <2> HIDE DEF n
  <2>3. app.fresh = None
    <3>1. Underway # {}
      BY <1>3 DEF Taking, IsUnderway
    <3> QED BY <3>1 DEF Working, Books, FreshIsLast
  <2>4. /\ Ledger' /\ Underway' = Underway /\ (Filled => Filled') /\ FreshIsLast'
        /\ MailIsEmpty' /\ \A t \in Task : (Gets(t)' <=> Gets(t)) /\ Call(t)' = Call(t)
    BY <1>1, <1>4, <2>1, <2>3, TakenKeeps
  <2>5. Taking'
    <3>1. IsUnderway(message.delivery)'
      BY <1>3, <1>6, <2>1, <2>4 DEF Taking, IsUnderway
    <3>2. ForItsGet(message.delivery)'
      BY <1>3, <1>6, <2>1, <2>4 DEF Taking, ForItsGet
    <3>3. NoneGot'
      BY <1>4, <2>1, <2>4 DEF NoneGot
    <3>4. Collecting'
      <4>1. Partial(workload, g)
        BY <1>6, <1>8, IncompleteIsPartial DEF IsComplete
      <4> QED BY <1>6, <2>1, <4>1, MessageIs DEF Collecting
    <3>5. BeginsFirst(inbox', 1)
      BY <1>2, <1>4, InvIs, RestIsContent
    <3>6. manager'.state \in TakingStates(message')
      <4>1. message.delivery # None /\ message.bodies \in Seq(BodyFrame)
        BY <1>4, MessageIs DEF Message
      <4>2. msg.bodies # <<>>
        <5> HIDE DEF g
        <5> QED BY <1>6, <4>1
      <4> QED BY <1>5, <1>6, <2>1, <4>1, <4>2 DEF TakingStates
    <3> QED BY <2>4, <3>1, <3>2, <3>3, <3>4, <3>5, <3>6 DEF Taking
  <2>6. Books' /\ Stage'
    BY <1>1, <2>1, <2>4, <2>5 DEF Working, Books, TagsAreRegistered, Stage
  <2>7. \A t \in Task : HasHeard(t) => Consumes(task[t].call) \/ (Filled' /\ app'.fresh = None)
    BY <2>1, <2>3, <2>4 DEF HasHeard
  <2>8. Working' /\ OneAtATime'
    BY <1>1, <1>2, <1>3, <1>5, <2>1, <2>2, <2>6, <2>7, PartServes
  <2> QED BY <1>5, <2>1, <2>8
<1> QED BY <1>7, <1>8

\* The channel is closed for a request, or the client ends.
LEMMA ReceiveChannelCloseCareful ==
    ASSUME IInv, Working, OneAtATime, session.transport = "open",
           ReceiveChannelClose, workload' = workload, broker' = broker
    PROVE  /\ (Working' /\ manager'.exception = None) \/ Broken'
           /\ OneAtATime'
           /\ manager'.exception # "RuntimeError"
<1> DEFINE s == "CHANNEL_CLOSE_RECEIVED"
           n == Enter(manager, s)
           o == Enter(n, "CHANNEL_CLOSEOK_SENT")
<1>1. /\ Takes("Channel.Close")
      /\ IF SM!Refuses(manager, s, None)
         THEN Receives(s) /\ outbox' = outbox
         ELSE /\ manager' = o /\ Write(<<CloseOkFrame>>)
              /\ session' = [session EXCEPT !.lastError = "NotFound", !.channelOpen = FALSE]
      /\ task' = task /\ futures' = futures /\ consumers' = consumers
      /\ message' = message /\ app' = app
  BY DEF ReceiveChannelClose, CloseOkFrame
<1>2. inbox # <<>> /\ Head(inbox).type = "Channel.Close" /\ inbox' = Tail(inbox)
  BY <1>1 DEF Takes
<1>3. PICK t \in Task : Refused(t)
  BY <1>2, HeadIs
<1>4. /\ Requests(t) /\ task[t].call \in workload.refusals /\ broker.phase = "closing"
      /\ outbox = <<>> /\ inbox = <<[type |-> "Channel.Close"]>>
      /\ task[t].pc = "waiting" /\ manager.state = Sent(task[t].call)
      /\ task[t].call \in DOMAIN Request
  BY <1>3, CallIsRequest DEF Refused, Requests, Active
<1>5. inbox' = <<>>
  BY <1>2, <1>4
<1>6. OneAtATime' /\ manager \in Managers /\ manager.exception = None
  BY <1>1, InvIs DEF OneAtATime, Working
<1>7. CASE task[t].call = "basic_cancel"
  <2>1. SM!Refuses(manager, s, None)
    <3>1. manager.state = "BASIC_CANCEL_SENT"
      BY <1>4, <1>7 DEF Sent, Request
    <3> QED BY <3>1, CarefulTransitions DEF SM!Refuses, SM!Unchanged
  <2>2. Receives(s) /\ outbox' = outbox
    BY <1>1, <2>1
  <2>3. manager'.exception = STE
    <3>1. manager' = SM!Refuse(manager, STE)
      BY <2>1, <2>2 DEF Receives, Enter, SM!SetState, SM!Refuses
    <3> QED BY <1>6, <3>1, ManagersAre DEF SM!Refuse
  <2>4. session'.failed /\ session'.transport = "open"
    BY <2>1, <2>2, InvIs DEF Receives, Fails, Sessions
  <2>5. STE # None /\ STE # "RuntimeError"
    BY ConsumersAssumption DEF Error, STE
  <2>6. MailIsEmpty' /\ app'.fresh = None
    BY <1>1, <1>4 DEF Requests, MailIsEmpty
  <2>7. broker'.settled \subseteq app'.settled
    BY <1>1 DEF Working, Books, Ledger, SettlesAreMeant
  <2>8. Broken'
    BY <1>1, <1>4, <1>5, <1>7, <2>2, <2>3, <2>4, <2>5, <2>6, <2>7 DEF Broken
  <2> QED BY <1>6, <2>3, <2>5, <2>8
<1>8. CASE task[t].call # "basic_cancel"
  <2>1. /\ ~ SM!Refuses(manager, s, None) /\ n \in Managers
        /\ n.state = s /\ n.exception = None /\ Hears(n, t, task[t].call, s)
    <3>1. s \in Polled(task[t].call) /\ s \in ClientTransitions[Sent(task[t].call)]
      BY <1>4, <1>8, CarefulTransitions DEF Polled
    <3>2. Listens(manager, t, task[t].call)
      BY <1>4 DEF Requests, Unheard
    <3> HIDE DEF s
    <3> QED BY <1>4, <1>6, <3>1, <3>2, AnswerEnters
  <2>2. /\ manager' = o /\ Write(<<CloseOkFrame>>)
        /\ session' = [session EXCEPT !.lastError = "NotFound", !.channelOpen = FALSE]
    BY <1>1, <2>1
  <2> HIDE DEF n
  <2>3. /\ o.state = "CHANNEL_CLOSEOK_SENT" /\ o.exception = None
        /\ Hears(o, t, task[t].call, s)
    <3>1. "CHANNEL_CLOSEOK_SENT" \in ClientState
      BY StatesAre
    <3>2. "CHANNEL_CLOSEOK_SENT" \in ClientTransitions[n.state]
      BY <2>1, CarefulTransitions
    <3>3. \A e \in n.waits : e[1] # "CHANNEL_CLOSEOK_SENT"
      BY <1>4, <2>1, WaitedIs DEF Hears
    <3>4. o.waits = n.waits /\ o.ready = n.ready /\ o.fired = n.fired
      BY <2>1, <3>1, <3>2, <3>3, EnterIs
    <3>5. o.state = "CHANNEL_CLOSEOK_SENT" /\ o.exception = None
      BY <2>1, <3>1, <3>2, <3>3, EnterIs
    <3> QED BY <2>1, <3>4, <3>5 DEF Hears
  <2> HIDE DEF o
  <2>4. outbox' = <<CloseOkFrame>>
    BY <1>4, <2>2 DEF Write
  <2>5. /\ ~ session'.channelOpen /\ session'.lastError = "NotFound" /\ ~ session'.failed
        /\ session'.transport = "open"
    BY <2>2, InvIs DEF Sessions, Working
  <2>6. Ledger'
    <3>1. CloseOkFrame \in OutFrame /\ CloseOkFrame.type \notin SettleTypes
      BY DEF CloseOkFrame, OutFrame, SettleTypes, SettledState
    <3>2. SettlesAlike(outbox, outbox')
      BY <2>2, <3>1, SettlesStay
    <3>3. Onward(task, task')
      BY <1>1 DEF Onward
    <3> QED BY <1>1, <3>2, <3>3, LedgerKept DEF Working, Books
  <2>7. Books'
    BY <1>1, <1>4, <2>6 DEF Working, Books, FreshIsLast, Requests, TagsAreRegistered, Call
  <2>8. Closes'
    <3>1. MailIsEmpty' /\ app'.fresh = None
      BY <1>1, <1>4 DEF Requests, MailIsEmpty
    <3>2. NonePends'
      BY <1>1, <1>4 DEF NonePends, OnePends, Requests, ConsumesAreGranted
    <3> QED BY <2>5, <3>1, <3>2 DEF Closes
  <2>9. ClosedOn(t)'
    <3>1. Heard(t, "CHANNEL_CLOSE_RECEIVED")'
      BY <1>1, <2>2, <2>3 DEF Heard
    <3> QED BY <1>1, <1>4, <1>5, <2>2, <2>3, <2>4, <2>8, <3>1 DEF ClosedOn
  <2>10. Working'
    BY <1>1, <2>2, <2>3, <2>5, <2>7, <2>9 DEF Working
  <2>11. None # "RuntimeError"
    BY ConsumersAssumption DEF Error
  <2> QED BY <1>6, <2>2, <2>3, <2>10, <2>11
<1> QED BY <1>7, <1>8

\* The channel is open again.
LEMMA ReceiveChannelOpenOkCareful ==
    ASSUME IInv, Working, OneAtATime, session.transport = "open",
           ReceiveChannelOpenOk, workload' = workload, broker' = broker
    PROVE  Working' /\ OneAtATime' /\ manager'.exception = None
<1> DEFINE s == "CHANNEL_OPENOK_RECEIVED"
<1>1. /\ Takes("Channel.OpenOk") /\ manager' = Enter(manager, s)
      /\ session' = [session EXCEPT !.channelOpen = TRUE,
                                    !.failed = @ \/ SM!Refuses(manager, s, None)]
      /\ task' = [t \in Task |-> IF task[t].pc = "opening"
                                 THEN [task[t] EXCEPT !.pc = "raising"] ELSE task[t]]
      /\ futures' = futures /\ consumers' = consumers
      /\ message' = message /\ app' = app /\ outbox' = outbox
  BY DEF ReceiveChannelOpenOk
<1>2. inbox # <<>> /\ Head(inbox).type = "Channel.OpenOk" /\ inbox' = Tail(inbox)
  BY <1>1 DEF Takes
<1>3. PICK t \in Task : Reopens(t)
  BY <1>2, HeadIs
<1>4. /\ broker.phase = "open" /\ outbox = <<>> /\ inbox = <<[type |-> "Channel.OpenOk"]>>
      /\ broker.consumers = {} /\ DOMAIN broker.unacked = {}
      /\ task[t].pc = "opening" /\ NoneWaits /\ manager.state = "CHANNEL_OPEN_SENT" /\ Closes
  BY <1>2, <1>3 DEF Reopens
<1>5. inbox' = <<>>
  BY <1>2, <1>4
<1>6. /\ ~ SM!Refuses(manager, s, None) /\ manager'.state = s
      /\ manager'.exception = None /\ Quiet(manager')
  <2>1. manager \in Managers /\ manager.exception = None /\ Quiet(manager)
    BY <1>4, InvIs DEF Working, NoneWaits
  <2>2. s \in ClientState
    BY StatesAre
  <2>3. s \in ClientTransitions[manager.state]
    BY <1>4, CarefulTransitions
  <2>4. \A e \in manager.waits : e[1] # s
    BY <2>1 DEF Quiet
  <2> HIDE DEF s
  <2> QED BY <1>1, <2>1, <2>2, <2>3, <2>4, EnterIs DEF Quiet
<1>7. /\ session'.channelOpen /\ ~ session'.failed /\ session'.transport = "open"
  BY <1>1, <1>6, InvIs DEF Sessions, Working
<1> HIDE DEF s
<1>8. /\ task'[t].pc = "raising" /\ task'[t].call = task[t].call
      /\ task'[t].left = task[t].left /\ task'[t].result = task[t].result
      /\ \A u \in Task : u # t => task'[u] = task[u]
  <2>1. \A u \in Task : task[u] \in Record /\ (u # t => task[u].pc # "opening")
    BY <1>4, InvIs DEF OneAtATime, Busy
  <2>2. task'[t] = [task[t] EXCEPT !.pc = "raising"]
    BY <1>1, <1>4
  <2> QED BY <1>1, <2>1, <2>2 DEF Record
<1>9. OneAtATime'
  BY <1>4, <1>8, OneStays DEF Busy
<1>10. \A u \in Task : Call(u)' = Call(u)
  BY <1>8 DEF Call
<1>11. Onward(task, task')
  BY <1>4, <1>8 DEF Onward, Begun, Active, Calls
<1>12. Ledger'
  <2>1. SettlesAlike(outbox, outbox')
    BY <1>1 DEF SettlesAlike
  <2> QED BY <1>1, <1>11, <2>1, LedgerKept DEF Working, Books
<1>13. TagsAreRegistered'
  BY <1>1, <1>4, <1>8, <1>10 DEF Working, Books, TagsAreRegistered, Busy
<1>14. Books'
  BY <1>1, <1>4, <1>12, <1>13 DEF Books, FreshIsLast, Closes
<1>15. Raises(t)'
  <2>1. MailIsEmpty' /\ NonePends' /\ app'.fresh = None
    BY <1>1, <1>4 DEF Closes, MailIsEmpty, NonePends, ConsumesAreGranted
  <2> QED BY <1>1, <1>4, <1>5, <1>6, <1>7, <1>8, <2>1 DEF Raises, NoneWaits, s
<1>16. \A u \in Task : task'[u].result \notin {STE, "AttributeError"}
  BY <1>8 DEF Working
<1> QED BY <1>6, <1>7, <1>9, <1>14, <1>15, <1>16 DEF Working

\* Whatever comes to a careful client, while the socket holds.
LEMMA ReceiveCareful ==
    ASSUME IInv, Working, OneAtATime, session.transport = "open", Receive
    PROVE  /\ (Working' /\ manager'.exception = None) \/ Broken'
           /\ OneAtATime'
           /\ manager'.exception # "RuntimeError"
<1>1. inbox # <<>>
  BY DEF Receive, ReceiveConsumeOk, ReceiveCancelOk, ReceiveGetEmpty, ReceiveMessage,
     ReceiveHeader, ReceiveBody, ReceiveDeclareOk, ReceiveCancel, ReceiveChannelClose,
     ReceiveChannelOpenOk, Disconnected, Takes
<1>2. ~ ReceiveCancel /\ ~ Disconnected
  BY <1>1, HeadIs DEF ReceiveCancel, Disconnected, Takes
<1>3. workload' = workload /\ broker' = broker
  BY DEF Receive
<1>4. None # "RuntimeError"
  BY ConsumersAssumption DEF Error
<1> QED BY <1>2, <1>3, <1>4, ReceiveConsumeOkCareful, ReceiveCancelOkCareful,
        ReceiveGetEmptyCareful, ReceiveDeliverCareful, ReceiveGetOkCareful,
        ReceiveHeaderCareful, ReceiveBodyCareful, ReceiveDeclareOkCareful,
        ReceiveChannelCloseCareful, ReceiveChannelOpenOkCareful DEF Receive

---------------------------------------------------------------------------
(* The frames that the broker sends *)

\* The first frame of a message is the one that begins it.
LEMMA FramesBegin ==
    ASSUME NEW w, NEW type, type = "Deliver" \/ type = "GetOk",
           NEW d \in Delivery, Size(w, d) \in Nat,
           NEW more, more = FramesOf(w, type, d)
    PROVE  /\ more \in Seq(InFrame) /\ 1 \in DOMAIN more
           /\ more[1] = [type |-> type, delivery |-> d] /\ BeginsFirst(more, 1)
<1> DEFINE first == [type |-> type, delivery |-> d]
           two == <<first, HeaderOf(d)>>
           n == Size(w, d)
           parts == [i \in 1..n |-> PartOf(d, i)]
<1>1. /\ first \in InFrame /\ HeaderOf(d) \in InFrame
      /\ \A i \in Nat : PartOf(d, i) \in InFrame
  BY DEF InFrame, HeaderOf, PartOf, BodyFrame
<1>2. ~ Begins(HeaderOf(d)) /\ \A i : ~ Begins(PartOf(d, i))
  BY DEF HeaderOf, PartOf, Begins
<1> HIDE DEF first
<1>3. /\ two \in Seq(InFrame) /\ Len(two) = 2 /\ two[1] = first /\ two[2] = HeaderOf(d)
  BY <1>1
<1>4. /\ parts \in Seq(InFrame) /\ \A i \in DOMAIN parts : parts[i] = PartOf(d, i)
  <2> HIDE DEF n
  <2>1. n \in Nat
    BY DEF n
  <2> QED BY <1>1, <2>1
<1>5. more = two \o parts
  BY DEF FramesOf, first
<1> HIDE DEF two, parts
<1>6. /\ two \o parts \in Seq(InFrame) /\ Len(two \o parts) = Len(two) + Len(parts)
      /\ \A i \in 1..Len(two) : (two \o parts)[i] = two[i]
      /\ \A i \in 1..Len(parts) : (two \o parts)[Len(two) + i] = parts[i]
  <2>1. two \in Seq(InFrame) /\ parts \in Seq(InFrame)
    BY <1>3, <1>4
  <2> QED BY ONLY <2>1, ConcatIs
<1>7. /\ more \in Seq(InFrame) /\ more[1] = first /\ more[2] = HeaderOf(d)
      /\ Len(more) = Len(parts) + 2 /\ Len(parts) \in Nat
      /\ \A i \in 1..Len(parts) : more[2 + i] = parts[i]
  <2>1. 1 \in 1..Len(two) /\ 2 \in 1..Len(two)
    BY <1>3
  <2> QED BY <1>3, <1>4, <1>5, <1>6, <2>1
<1>8. \A i \in DOMAIN more : i = 1 \/ ~ Begins(more[i])
  <2> TAKE i \in DOMAIN more
  <2>1. i = 1 \/ i = 2 \/ (i - 2 \in 1..Len(parts) /\ 2 + (i - 2) = i)
    BY <1>7
  <2>2. CASE i - 2 \in 1..Len(parts) /\ 2 + (i - 2) = i
    <3>1. more[i] = parts[i - 2] /\ i - 2 \in DOMAIN parts
      BY <1>4, <1>7, <2>2
    <3> QED BY <1>2, <1>4, <3>1
  <2> QED BY <1>2, <1>7, <2>1, <2>2
<1>9. ContentOf(more, d)
  BY FramesAre
<1>10. 1 \in DOMAIN more
  BY <1>7
<1> QED BY <1>7, <1>8, <1>9, <1>10 DEF BeginsFirst, ContentOf, first

\* What is sent with the message d.
SentAs(d, more, type, for) ==
    /\ d.id = <<broker.channel, broker.sent + 1>> /\ d.for = for /\ d.get = (type = "GetOk")
    /\ inbox' = inbox \o more /\ 1 \in DOMAIN more
    /\ more[1] = [type |-> type, delivery |-> d] /\ BeginsFirst(more, 1)
    /\ broker'.phase = broker.phase /\ broker'.channel = broker.channel
    /\ broker'.consumers = broker.consumers /\ broker'.settled = broker.settled
    /\ broker'.sent = broker.sent + 1
    /\ broker'.unacked = With(broker.unacked, broker.sent + 1, d)

LEMMA DeliveredIs ==
    ASSUME IInv, session.transport = "open", NEW type, type = "Deliver" \/ type = "GetOk",
           NEW for \in Calls, BrokerDelivers(type, for)
    PROVE  \E d \in Delivery, more \in Seq(InFrame) : SentAs(d, more, type, for)
<1>1. /\ \A d \in Delivery : d.msg \in DOMAIN workload.bodies => Size(workload, d) \in Nat
      /\ DOMAIN workload.bodies \subseteq Nat
  BY BrokerHas
<1>2. PICK msg \in broker.ready :
        LET delivery == [id |-> <<broker.channel, broker.sent + 1>>, for |-> for,
                         get |-> type = "GetOk", msg |-> msg]
        IN  /\ Sends(<<[type |-> type, delivery |-> delivery],
                       [type |-> "Header", of |-> delivery]>> \o Bodies(delivery))
            /\ broker' = [broker EXCEPT !.ready = @ \ {msg}, !.sent = @ + 1,
                                        !.unacked = With(@, broker.sent + 1, delivery),
                                        !.delivered = @ \cup {delivery}]
  BY DEF BrokerDelivers
<1> DEFINE d == [id |-> <<broker.channel, broker.sent + 1>>, for |-> for,
                 get |-> type = "GetOk", msg |-> msg]
           more == FramesOf(workload, type, d)
           ready == broker.ready \ {msg}
           sent == broker.sent + 1
           unacked == With(broker.unacked, sent, d)
           delivered == broker.delivered \cup {d}
<1>3. msg \in DOMAIN workload.bodies /\ msg \in Nat /\ sent \in Nat /\ broker.channel \in Nat
  BY <1>1, BrokerNow
<1>4. /\ d \in Delivery /\ d.msg = msg /\ d.id = <<broker.channel, sent>>
      /\ d.for = for /\ d.get = (type = "GetOk")
  <2>1. (type = "GetOk") \in BOOLEAN /\ <<broker.channel, sent>> \in Nat \X Nat
    BY <1>3
  <2> QED BY <1>3, <2>1 DEF Delivery
<1>5. inbox' = inbox \o more
  BY <1>2 DEF FramesOf, HeaderOf, PartOf, Size, Bodies, Sends
<1>6. broker' = [broker EXCEPT !.ready = ready, !.sent = sent, !.unacked = unacked,
                               !.delivered = delivered]
  BY <1>2
<1> HIDE DEF d
<1>7. /\ more \in Seq(InFrame) /\ 1 \in DOMAIN more
      /\ more[1] = [type |-> type, delivery |-> d] /\ BeginsFirst(more, 1)
  <2>1. Size(workload, d) \in Nat
    BY <1>1, <1>3, <1>4
  <2> HIDE DEF more
  <2>2. more = FramesOf(workload, type, d)
    BY DEF more
  <2> QED BY <1>4, <2>1, <2>2, FramesBegin
<1> HIDE DEF more
<1>8. /\ broker'.phase = broker.phase /\ broker'.channel = broker.channel
      /\ broker'.consumers = broker.consumers /\ broker'.settled = broker.settled
      /\ broker'.sent = sent /\ broker'.unacked = unacked
  <2> HIDE DEF ready, sent, unacked, delivered
  <2> QED BY <1>6, BrokerNow DEF BrokerOf
<1>9. SentAs(d, more, type, for)
  BY <1>4, <1>5, <1>7, <1>8 DEF SentAs
<1> QED BY <1>4, <1>7, <1>9

\* A frame before the others that have come.
LEMMA SentFirstIs ==
    ASSUME NEW in \in Seq(InFrame), in = <<>>, NEW more \in Seq(InFrame), 1 \in DOMAIN more,
           BeginsFirst(more, 1)
    PROVE  in \o more # <<>> /\ (in \o more)[1] = more[1] /\ BeginsFirst(in \o more, 1)
<1>1. in \o more = more
  BY SameSequence
<1>2. more # <<>>
  OBVIOUS
<1> QED BY <1>1, <1>2

LEMMA SentSecondIs ==
    ASSUME NEW in \in Seq(InFrame), Len(in) = 1, NEW more \in Seq(InFrame), 1 \in DOMAIN more,
           BeginsFirst(more, 1)
    PROVE  /\ in \o more # <<>> /\ (in \o more)[1] = in[1] /\ Len(in \o more) > 1
           /\ (in \o more)[2] = more[1] /\ BeginsFirst(in \o more, 2)
<1>1. /\ in \o more \in Seq(InFrame) /\ Len(in \o more) = Len(in) + Len(more)
      /\ \A i \in 1..Len(in) : (in \o more)[i] = in[i]
      /\ \A i \in 1..Len(more) : (in \o more)[Len(in) + i] = more[i]
  <2>1. in \in Seq(InFrame) /\ more \in Seq(InFrame)
    OBVIOUS
  <2> QED BY ONLY <2>1, ConcatIs
<1>2. PICK all : all = in \o more
  OBVIOUS
<1>3. /\ all \in Seq(InFrame) /\ Len(all) = 1 + Len(more) /\ all[1] = in[1]
      /\ \A i \in 1..Len(more) : all[1 + i] = more[i]
  BY <1>1, <1>2
<1>4. 1 \in 1..Len(more) /\ Len(more) \in Nat /\ 1 + 1 = 2
  OBVIOUS
<1>5. all[2] = more[1] /\ Len(all) > 1 /\ all # <<>>
  BY <1>3, <1>4
<1>6. ASSUME NEW i \in DOMAIN all, i >= 2
      PROVE  all[i].type \in Content /\ (Begins(all[i]) => i = 2)
  <2>1. i - 1 \in 1..Len(more) /\ 1 + (i - 1) = i
    BY <1>3, <1>6
  <2>2. all[i] = more[i - 1] /\ i - 1 \in DOMAIN more /\ i - 1 >= 1
    BY <1>3, <2>1
  <2>3. more[i - 1].type \in Content /\ (Begins(more[i - 1]) => i - 1 = 1)
    BY <2>2 DEF BeginsFirst
  <2> QED BY <2>1, <2>2, <2>3
<1>7. BeginsFirst(all, 2)
  BY <1>6 DEF BeginsFirst
<1> QED BY <1>2, <1>3, <1>5, <1>7

---------------------------------------------------------------------------
(* The broker reads *)

LEMMA StageServed ==
    ASSUME ClientUnchanged, inbox' = inbox, Underway' = Underway,
           broker'.channel = broker.channel,
           \A n \in Underway : broker'.unacked[n] = broker.unacked[n]
    PROVE  /\ (Stage => Stage') /\ (Empty => Empty')
           /\ \A d : IsUnderway(d) => IsUnderway(d)'
<1>1. /\ manager' = manager /\ message' = message /\ workload' = workload /\ app' = app
      /\ futures' = futures /\ task' = task
  BY DEF ClientUnchanged
<1>2. \A d : IsUnderway(d) => IsUnderway(d)'
  BY DEF IsUnderway
<1>3. /\ (MailIsEmpty => MailIsEmpty') /\ (NoneGot => NoneGot')
      /\ \A t \in Task : (Gets(t)' <=> Gets(t)) /\ Call(t)' = Call(t)
  BY <1>1 DEF MailIsEmpty, NoneGot, Gets, Call
<1>4. \A d : ForItsGet(d) => ForItsGet(d)'
  BY <1>1, <1>3 DEF ForItsGet
<1>6. Empty => Empty'
  BY <1>1, <1>3 DEF Empty
<1>7. Coming => Coming'
  BY <1>1, <1>2, <1>3 DEF Coming
<1>8. (Taking => Taking') /\ (Stuck => Stuck')
  <2>1. PICK d : d = message.delivery
    OBVIOUS
  <2>2. (IsUnderway(d) => IsUnderway(d)') /\ (ForItsGet(d) => ForItsGet(d)')
    BY <1>2, <1>4
  <2>3. ForItsGet(message.delivery) => ForItsGet(message.delivery)'
    BY <1>1, <2>1, <2>2 DEF ForItsGet
  <2>4. IsUnderway(message.delivery) => IsUnderway(message.delivery)'
    BY <1>1, <2>1, <2>2 DEF IsUnderway
  <2> QED BY <1>1, <1>3, <2>3, <2>4, CollectedStays
<1>10. Mailed => Mailed'
  <2> SUFFICES ASSUME Mailed
               PROVE  Mailed'
    OBVIOUS
  <2>1. NoneGot'
    BY <1>3 DEF Mailed
  <2> QED BY <1>1, <1>2, <2>1, MailedStays
<1>11. ASSUME Got
       PROVE  Got'
  <2> DEFINE msg(t) == futures.done[Call(t)].message
  <2>1. PICK t \in Task : /\ Gets(t) /\ Call(t) \in DOMAIN futures.done /\ msg(t) # None
                          /\ msg(t).delivery.get /\ Call(t) = msg(t).delivery.for
                          /\ IsUnderway(msg(t).delivery)
    BY <1>11 DEF Got
  <2>2. msg(t)' = msg(t) /\ IsUnderway(msg(t).delivery)'
    BY <1>1, <1>2, <1>3, <2>1 DEF IsUnderway
  <2> QED BY <1>1, <1>3, <1>11, <2>1, <2>2 DEF Got
<1> QED BY <1>2, <1>6, <1>7, <1>8, <1>10, <1>11 DEF Stage

\* The frames that are left when the first is read.
LEMMA OutboxRead ==
    ASSUME IInv, outbox # <<>>, outbox' = Tail(outbox)
    PROVE  /\ outbox[1] = Head(outbox) /\ 1 \in DOMAIN outbox /\ Len(outbox') = Len(outbox) - 1
           /\ \A i \in DOMAIN outbox' : i + 1 \in DOMAIN outbox /\ outbox'[i] = outbox[i + 1]
                                        /\ i \in Nat /\ i > 0
           /\ outbox' \in Seq(OutFrame) /\ Len(outbox) \in Nat /\ DOMAIN outbox = 1..Len(outbox)
           /\ DOMAIN outbox' = 1..Len(outbox')
           /\ Len(outbox) = 1 => outbox' = <<>>
<1>1. outbox \in Seq(OutFrame)
  BY InvIs
<1>2. PICK rest : rest = Tail(outbox)
  OBVIOUS
<1>3. /\ outbox[1] = Head(outbox) /\ 1 \in DOMAIN outbox /\ Len(rest) = Len(outbox) - 1
      /\ \A i \in DOMAIN rest : i + 1 \in DOMAIN outbox /\ rest[i] = outbox[i + 1]
                                /\ i \in Nat /\ i > 0
      /\ rest \in Seq(OutFrame) /\ Len(outbox) \in Nat /\ DOMAIN outbox = 1..Len(outbox)
      /\ DOMAIN rest = 1..Len(rest)
  BY <1>1, <1>2
<1>4. Len(rest) = 0 => rest = <<>>
  BY <1>3
<1> QED BY <1>2, <1>3, <1>4

\* The frame of a request settles nothing, and it is the last one.
LEMMA AsksIs ==
    ASSUME IInv, NEW t \in Task, Asks(t)
    PROVE  /\ task[t].call \in DOMAIN Request /\ DOMAIN Request \cap SettleTypes = {}
           /\ Len(outbox) \in DOMAIN outbox
           /\ outbox[Len(outbox)] = CallFrame(t, task[t].call, task[t].tag)
           /\ outbox[Len(outbox)].type = task[t].call
           /\ outbox[Len(outbox)].by = Call(t) /\ outbox[Len(outbox)].tag = task[t].tag
           /\ \A i \in DOMAIN outbox : i # Len(outbox) => outbox[i].type \in SettleTypes
<1>1. task[t].call \in DOMAIN Request
  BY CallIsRequest DEF Asks, Requests, Active
<1>2. DOMAIN Request \cap SettleTypes = {}
  BY DEF Request, SettleTypes, SettledState
<1>3. outbox \in Seq(OutFrame)
  BY InvIs
<1>4. Len(outbox) \in DOMAIN outbox
  BY <1>3 DEF Asks
<1> DEFINE m == task[t].call
           frame == outbox[Len(outbox)]
<1>5. frame = [type |-> m, by |-> Call(t), tag |-> task[t].tag]
  BY DEF Asks, CallFrame
<1>6. frame.type = m /\ frame.by = Call(t) /\ frame.tag = task[t].tag
  BY <1>5
<1> QED BY <1>1, <1>2, <1>4, <1>6 DEF Asks

\* A settlement is read.
LEMMA SettlesCareful ==
    ASSUME IInv, Working, OneAtATime, session.transport = "open", outbox # <<>>,
           outbox' = Tail(outbox), ClientUnchanged, Head(outbox).type \in SettleTypes,
           BrokerSettles(Head(outbox))
    PROVE  Working'
<1>1. /\ Ledger' /\ Underway' = Underway /\ (Filled => Filled') /\ inbox' = inbox
      /\ broker'.phase = broker.phase /\ broker'.channel = broker.channel
      /\ broker'.consumers = broker.consumers
      /\ \A n \in DOMAIN broker'.unacked :
            n \in DOMAIN broker.unacked /\ broker'.unacked[n] = broker.unacked[n]
      /\ \A n \in Underway : broker'.unacked[n] = broker.unacked[n]
  BY LedgerServed DEF Working, Books
<1>2. /\ manager' = manager /\ session' = session /\ app' = app /\ futures' = futures
      /\ task' = task /\ consumers' = consumers /\ workload' = workload /\ last' = last
      /\ message' = message
  BY DEF ClientUnchanged
<1>3. (Stage => Stage') /\ (Empty => Empty')
  BY <1>1, StageServed
<1>4. Books'
  <2>1. FreshIsLast'
    BY <1>1, <1>2 DEF Working, Books, FreshIsLast
  <2>2. TagsAreRegistered'
    BY <1>2 DEF Working, Books, TagsAreRegistered, Call
  <2> QED BY <1>1, <2>1, <2>2 DEF Books
<1>5. outbox[1] = Head(outbox) /\ 1 \in DOMAIN outbox
      /\ \A i \in DOMAIN outbox' : i + 1 \in DOMAIN outbox /\ outbox'[i] = outbox[i + 1]
  BY OutboxRead
<1>6. /\ ~ session'.failed /\ manager'.exception = None
      /\ \A t \in Task : task'[t].result \notin {STE, "AttributeError"}
  BY <1>2 DEF Working
<1>7. CASE Serving
  <2>1. Settles(outbox)'
    BY <1>5, <1>7 DEF Serving, Settles
  <2>2. ChannelIsOpen' /\ KnownToClient' /\ NonePends'
    BY <1>1, <1>2, <1>7 DEF Serving, ChannelIsOpen, KnownToClient, NonePends, ConsumesAreGranted
  <2>3. \A t \in Task : HasHeard(t) => HasHeard(t)'
    BY <1>1, <1>2, <1>3 DEF HasHeard, Heard
  <2>4. Serving'
    BY <1>2, <1>3, <1>7, <2>1, <2>2, <2>3 DEF Serving, NoneWaits, AtRest
  <2> QED BY <1>4, <1>6, <2>4 DEF Working
<1>8. ASSUME NEW t \in Task, Asks(t)
      PROVE  Working'
  <2>1. Len(outbox) # 1
    BY <1>5, <1>8, AsksIs
  <2>2. /\ outbox' # <<>> /\ Len(outbox') + 1 = Len(outbox) /\ Len(outbox') \in DOMAIN outbox'
    BY <2>1, OutboxRead
  <2>3. outbox'[Len(outbox')] = outbox[Len(outbox)]
    BY <1>5, <2>2
  <2>4. \A i \in DOMAIN outbox' : i # Len(outbox') => outbox'[i].type \in SettleTypes
    <3> TAKE i \in DOMAIN outbox'
    <3>1. i # Len(outbox') => i + 1 # Len(outbox)
      BY <2>2, OutboxRead
    <3> QED BY <1>5, <1>8, <3>1, AsksIs
  <2>5. Requests(t)' /\ CallFrame(t, task[t].call, task[t].tag)'
                           = CallFrame(t, task[t].call, task[t].tag)
    BY <1>2, <1>8 DEF Asks, Requests, Unheard, MailIsEmpty, Ready, OnePends, NonePends,
       ConsumesAreGranted, Call, CallFrame
  <2>6. NewTo(Call(t)) => NewTo(Call(t))'
    BY <1>1, <1>2 DEF NewTo, Call
  <2>7. Asks(t)'
    BY <1>1, <1>2, <1>8, <2>2, <2>3, <2>4, <2>5, <2>6 DEF Asks, KnownToClient, CallFrame, Call
  <2> QED BY <1>4, <1>6, <2>7 DEF Working
<1>9. ASSUME NEW t \in Task
      PROVE  ~ Replied(t) /\ ~ Refused(t) /\ ~ ClosedOn(t) /\ ~ Reopens(t) /\ ~ Raises(t)
  <2>1. /\ outbox # <<CloseOkFrame>> /\ outbox # <<CloseOkFrame, OpenFrame>>
        /\ outbox # <<OpenFrame>>
    <3>1. /\ CloseOkFrame.type \notin SettleTypes /\ OpenFrame.type \notin SettleTypes
      BY DEF CloseOkFrame, OpenFrame, SettleTypes, SettledState
    <3> QED BY <3>1, ShortSequences, PairsAre
  <2> QED BY <2>1 DEF Replied, Refused, ClosedOn, Reopens, Raises
<1> QED BY <1>7, <1>8, <1>9 DEF Working

\* A request is read when it is the only frame.
LEMMA AsksAlone ==
    ASSUME IInv, NEW t \in Task, Asks(t), outbox # <<>>, outbox' = Tail(outbox),
           Head(outbox).type \in DOMAIN Request
    PROVE  /\ outbox' = <<>> /\ \A i \in DOMAIN outbox : outbox[i].type \notin SettleTypes
           /\ Head(outbox).type = task[t].call /\ Head(outbox).by = Call(t)
           /\ Head(outbox).tag = task[t].tag
<1>1. outbox[1] = Head(outbox) /\ 1 \in DOMAIN outbox /\ DOMAIN outbox = 1..Len(outbox)
  BY OutboxRead
<1>2. Len(outbox) = 1
  BY <1>1, AsksIs
<1> QED BY <1>1, <1>2, OutboxRead, AsksIs

\* The call of a task has begun.
LEMMA CallIsBegun ==
    ASSUME IInv, NEW t \in Task, Active(task[t])
    PROVE  Call(t) \in Calls /\ Begun(task, Call(t))
<1>1. Call(t) \in Calls
  BY InvIs, CallIs DEF Call
<1> QED BY <1>1 DEF Begun, Call

\* The request of t is answered, or refused.
LEMMA ReplyServes ==
    ASSUME IInv, Working, NEW t \in Task, Asks(t), ClientUnchanged, Ledger',
           Replied(t)' \/ Refused(t)'
    PROVE  Working'
<1>1. FreshIsLast'
  BY DEF ClientUnchanged, Asks, Requests, FreshIsLast
<1>2. TagsAreRegistered'
  BY DEF ClientUnchanged, Working, Books, TagsAreRegistered, Call
<1>3. /\ ~ session'.failed /\ manager'.exception = None
      /\ \A u \in Task : task'[u].result \notin {STE, "AttributeError"}
  BY DEF ClientUnchanged, Working
<1> QED BY <1>1, <1>2, <1>3 DEF Working, Books

LEMMA RequestStays ==
    ASSUME ClientUnchanged, NEW t \in Task, Requests(t)
    PROVE  Requests(t)' /\ task' = task /\ Call(t)' = Call(t)
<1>1. /\ manager' = manager /\ session' = session /\ app' = app /\ futures' = futures
      /\ task' = task /\ consumers' = consumers /\ workload' = workload
  BY DEF ClientUnchanged
<1>2. Ready(t)' /\ OnePends(t)' /\ MailIsEmpty' /\ Unheard(t)'
  BY <1>1 DEF Requests, Ready, OnePends, NonePends, MailIsEmpty, Unheard, ConsumesAreGranted,
     Call
<1> QED BY <1>1, <1>2 DEF Requests, Call

\* The one frame that comes to a client that waits for it.
LEMMA OnlySent ==
    ASSUME session.transport = "open", inbox = <<>>, NEW g, Sends(<<g>>)
    PROVE  inbox' = <<g>> /\ inbox' # <<>> /\ inbox'[1] = g /\ Len(inbox') = 1
<1>1. inbox' = <<g>>
  BY ShortSequences DEF Sends
<1> QED BY <1>1, ShortSequences

LEMMA ConsumeCareful ==
    ASSUME IInv, Working, OneAtATime, session.transport = "open", NEW t \in Task, Asks(t),
           outbox # <<>>, outbox' = Tail(outbox), Head(outbox).type \in DOMAIN Request,
           ClientUnchanged, BrokerAnswers(Head(outbox)), Consumes(task[t].call)
    PROVE  Working'
<1> DEFINE call == Call(t)
           tags == {call}
<1>1. /\ outbox' = <<>> /\ \A i \in DOMAIN outbox : outbox[i].type \notin SettleTypes
      /\ Head(outbox).type = task[t].call /\ Head(outbox).by = call
  BY AsksAlone
<1>2. /\ Sends(<<[type |-> "ConsumeOk", tag |-> call]>>)
      /\ broker' = [broker EXCEPT !.consumers = @ \cup {call}]
  <2> HIDE DEF call
  <2>1. PICK frame : frame = Head(outbox)
    OBVIOUS
  <2>2. BrokerAnswers(frame) /\ Consumes(frame.type) /\ frame.by = call
    BY <1>1, <2>1
  <2>3. /\ Sends(<<[type |-> "ConsumeOk", tag |-> frame.by]>>)
        /\ broker' = [broker EXCEPT !.consumers = @ \cup {frame.by}]
    BY <2>2 DEF BrokerAnswers, Consumes
  <2> QED BY <2>2, <2>3
<1>3. /\ Requests(t) /\ broker.phase = "open" /\ Underway = {} /\ inbox = <<>>
      /\ broker.consumers = {} /\ NewTo(call)
  BY DEF Asks, Requests, Ready, KnownToClient, Consumes
<1>4. broker' = [broker EXCEPT !.consumers = tags]
  BY <1>2, <1>3
<1>5. call \in Calls /\ Begun(task, call)
  BY <1>3, CallIsBegun DEF Requests, Active
<1> HIDE DEF call
<1>6. \E c \in Calls : tags = {c} /\ NewTo(c) /\ Begun(task, c)
  BY <1>3, <1>5
<1> HIDE DEF tags
<1>7. Ledger' /\ Underway' = {}
  BY <1>1, <1>3, <1>4, <1>6, LedgerConsumes DEF Working, Books
<1>8. broker'.consumers = {call} /\ broker'.phase = "open"
  BY <1>3, <1>4, BrokerNow DEF BrokerOf, tags
<1>9. /\ inbox' # <<>> /\ Len(inbox') = 1 /\ inbox'[1] = [type |-> "ConsumeOk", tag |-> call]
  BY <1>2, <1>3, OnlySent
<1>10. Requests(t)' /\ task' = task /\ Call(t)' = call
  BY <1>3, RequestStays DEF call
<1>11. Replied(t)'
  <2>1. Consumes(task'[t].call)
    BY <1>10
  <2>2. IsAnswer(t, inbox[1])'
    BY <1>9, <1>10, <2>1 DEF IsAnswer, Consumes
  <2>3. broker'.consumers = {Call(t)'}
    BY <1>8, <1>10
  <2> QED BY <1>1, <1>7, <1>8, <1>9, <1>10, <2>1, <2>2, <2>3 DEF Replied, Consumes
<1> QED BY <1>7, <1>11, ReplyServes

\* What is sent in answer to another request.
LEMMA OtherAnswers ==
    ASSUME IInv, Working, session.transport = "open", NEW t \in Task, Asks(t),
           outbox # <<>>, outbox' = Tail(outbox), Head(outbox).type \in DOMAIN Request,
           ClientUnchanged, ~ Consumes(task[t].call), NEW g, Sends(<<g>>), g.type # "GetOk",
           NEW tags, tags \subseteq broker.consumers, broker' = [broker EXCEPT !.consumers = tags],
           task[t].call = "basic_cancel" => task[t].tag \notin tags,
           IsAnswer(t, g)'
    PROVE  Working'
<1>1. /\ outbox' = <<>> /\ \A i \in DOMAIN outbox : outbox[i].type \notin SettleTypes
  BY AsksAlone
<1>2. /\ Requests(t) /\ broker.phase = "open" /\ Underway = {} /\ inbox = <<>>
      /\ KnownToClient /\ Filled
  BY DEF Asks
<1>3. Ledger' /\ Underway' = {} /\ Filled'
  BY <1>1, <1>2, LedgerConsumes DEF Working, Books
<1>4. broker'.consumers = tags /\ broker'.phase = "open"
  BY <1>2, BrokerNow DEF BrokerOf
<1>5. inbox' # <<>> /\ Len(inbox') = 1 /\ inbox'[1] = g
  BY <1>2, OnlySent
<1>6. Requests(t)' /\ task' = task /\ consumers' = consumers
  BY <1>2, RequestStays DEF ClientUnchanged
<1>7. KnownToClient'
  BY <1>2, <1>4, <1>6 DEF KnownToClient
<1>8. Replied(t)'
  <2>1. IsAnswer(t, g)' /\ task' = task /\ ~ Consumes(task[t].call)
    BY <1>6
  <2>2. IsAnswer(t, inbox[1])'
    BY <1>5, <2>1 DEF IsAnswer, Consumes, IsUnderway
  <2> QED BY <1>1, <1>3, <1>4, <1>5, <1>6, <1>7, <2>1, <2>2 DEF Replied
<1> QED BY <1>3, <1>8, ReplyServes

LEMMA GetCareful ==
    ASSUME IInv, Working, OneAtATime, session.transport = "open", NEW t \in Task, Asks(t),
           outbox # <<>>, outbox' = Tail(outbox), Head(outbox).type \in DOMAIN Request,
           ClientUnchanged, task[t].call = "basic_get", BrokerDelivers("GetOk", Call(t))
    PROVE  Working'
<1> DEFINE call == Call(t)
<1>1. /\ outbox' = <<>> /\ \A i \in DOMAIN outbox : outbox[i].type \notin SettleTypes
  BY AsksAlone
<1>2. /\ Requests(t) /\ broker.phase = "open" /\ Underway = {} /\ inbox = <<>>
      /\ KnownToClient /\ Filled /\ NewTo(call)
  BY DEF Asks
<1>3. call \in Calls /\ Begun(task, call)
  BY <1>2, CallIsBegun DEF Requests, Active
<1> HIDE DEF call
<1>4. PICK d \in Delivery, more \in Seq(InFrame) : SentAs(d, more, "GetOk", call)
  <2>1. BrokerDelivers("GetOk", call)
    BY DEF call
  <2> QED BY <1>3, <2>1, DeliveredIs
<1>5. /\ d.id = <<broker.channel, broker.sent + 1>> /\ d.for = call /\ d.get = TRUE
      /\ inbox' = inbox \o more /\ 1 \in DOMAIN more
      /\ more[1] = [type |-> "GetOk", delivery |-> d] /\ BeginsFirst(more, 1)
      /\ broker'.phase = broker.phase /\ broker'.channel = broker.channel
      /\ broker'.consumers = broker.consumers /\ broker'.settled = broker.settled
      /\ broker'.sent = broker.sent + 1
      /\ broker'.unacked = With(broker.unacked, broker.sent + 1, d)
  BY <1>4 DEF SentAs
<1>6. /\ inbox' # <<>> /\ inbox'[1] = [type |-> "GetOk", delivery |-> d]
      /\ BeginsFirst(inbox', 1)
  <2>1. inbox \in Seq(InFrame)
    BY InvIs
  <2> QED BY <1>2, <1>5, <2>1, SentFirstIs
<1>7. Ledger' /\ Filled' /\ IsUnderway(d)'
  <2>1. SettlesAlike(outbox', outbox)
    BY <1>1 DEF SettlesAlike
  <2>2. d.for \in Calls /\ d.get \in BOOLEAN /\ Begun(task, d.for)
    BY <1>3, <1>5
  <2>3. \A n \in DOMAIN broker.unacked : broker.unacked[n].for # d.for
    BY <1>2, <1>5 DEF NewTo
  <2>4. IF d.get THEN Filled ELSE d.for \in broker.consumers
    BY <1>2, <1>5
  <2> QED BY <1>1, <1>2, <1>5, <2>1, <2>2, <2>3, <2>4, LedgerSent DEF Working, Books
<1>8. Requests(t)' /\ task' = task /\ Call(t)' = call /\ KnownToClient'
  BY <1>2, <1>5, RequestStays DEF ClientUnchanged, KnownToClient, call
<1>9. IsAnswer(t, inbox[1])'
  <2>1. PICK g : g = inbox'[1]
    OBVIOUS
  <2>2. g.type = "GetOk" /\ g.delivery = d
    BY <1>6, <2>1
  <2>3. /\ g.type = "GetOk" /\ g.delivery.get /\ g.delivery.for = Call(t)'
        /\ IsUnderway(g.delivery)'
    BY <1>5, <1>7, <1>8, <2>2 DEF IsUnderway
  <2>4. task'[t].call = "basic_get"
    BY <1>8
  <2> QED BY <2>1, <2>3, <2>4 DEF IsAnswer, Consumes, IsUnderway, Call
<1>10. Replied(t)'
  <2>1. inbox'[1].type = "GetOk"
    BY <1>6
  <2> QED BY <1>1, <1>2, <1>5, <1>6, <1>7, <1>8, <1>9, <2>1 DEF Replied, Consumes
<1> QED BY <1>7, <1>10, ReplyServes

LEMMA RefusedCareful ==
    ASSUME IInv, Working, session.transport = "open", NEW t \in Task, Asks(t),
           outbox # <<>>, outbox' = Tail(outbox), Head(outbox).type \in DOMAIN Request,
           Head(outbox).type \in workload.refusals, ClientUnchanged, BrokerClosesChannel
    PROVE  Working'
<1>1. /\ outbox' = <<>> /\ Head(outbox).type = task[t].call
  BY AsksAlone
<1>2. Requests(t) /\ broker.phase = "open" /\ inbox = <<>>
  BY DEF Asks
<1> DEFINE ready == broker.ready \cup MessagesOf(DOMAIN broker.unacked)
<1>3. /\ Sends(<<[type |-> "Channel.Close"]>>)
      /\ broker' = [broker EXCEPT !.phase = "closing", !.consumers = {}, !.unacked = <<>>,
                                  !.ready = ready]
  BY DEF BrokerClosesChannel
<1> HIDE DEF ready
<1>4. /\ broker'.phase = "closing" /\ broker'.consumers = {} /\ DOMAIN broker'.unacked = {}
      /\ broker'.channel = broker.channel /\ broker'.settled = broker.settled
  BY <1>3, BrokerNow DEF BrokerOf
<1>5. Ledger'
  BY <1>1, <1>4, LedgerCleared DEF Working, Books
<1>6. inbox' = <<[type |-> "Channel.Close"]>>
  BY <1>2, <1>3, OnlySent
<1>7. Refused(t)'
  BY <1>1, <1>2, <1>4, <1>6, RequestStays DEF Refused, ClientUnchanged
<1> QED BY <1>5, <1>7, ReplyServes

\* The request of t is read.
LEMMA RequestCareful ==
    ASSUME IInv, workload.careful, Working, OneAtATime, session.transport = "open",
           NEW t \in Task, Asks(t), outbox # <<>>, outbox' = Tail(outbox), ClientUnchanged,
           Head(outbox).type \in DOMAIN Request,
           \/ BrokerAnswers(Head(outbox))
           \/ Head(outbox).type \in workload.refusals /\ BrokerClosesChannel
    PROVE  Working'
<1> DEFINE m == task[t].call
<1>1. m \in DOMAIN Request /\ Head(outbox).type = m /\ Head(outbox).by = Call(t)
      /\ Head(outbox).tag = task[t].tag
  BY AsksIs, AsksAlone
<1>2. CASE Head(outbox).type \in workload.refusals /\ BrokerClosesChannel
  BY <1>2, RefusedCareful
<1>3. CASE BrokerAnswers(Head(outbox)) /\ Consumes(m)
  BY <1>3, ConsumeCareful
<1>4. PICK frame : frame = Head(outbox)
  OBVIOUS
<1>5. task' = task
  BY DEF ClientUnchanged
<1>6. CASE BrokerAnswers(Head(outbox)) /\ m = "basic_cancel"
  <2>0. PICK g : g = [type |-> "CancelOk", tag |-> task[t].tag]
    OBVIOUS
  <2> DEFINE tags == broker.consumers \ {task[t].tag}
  <2>1. BrokerAnswers(frame) /\ frame.type = "basic_cancel" /\ frame.tag = task[t].tag
    BY <1>1, <1>4, <1>6
  <2>2. /\ Sends(<<[type |-> "CancelOk", tag |-> frame.tag]>>)
        /\ broker' = [broker EXCEPT !.consumers = @ \ {frame.tag}]
    BY <2>1 DEF BrokerAnswers, Consumes
  <2>3. Sends(<<g>>) /\ broker' = [broker EXCEPT !.consumers = tags]
    BY <2>0, <2>1, <2>2
  <2>4. IsAnswer(t, g)' /\ g.type # "GetOk" /\ ~ Consumes(m)
    BY <1>5, <1>6, <2>0 DEF IsAnswer, Consumes
  <2>5. tags \subseteq broker.consumers /\ task[t].tag \notin tags
    OBVIOUS
  <2> HIDE DEF tags
  <2> QED BY <2>3, <2>4, <2>5, OtherAnswers
<1>7. broker = [broker EXCEPT !.consumers = broker.consumers]
  BY BrokerNow DEF BrokerOf
<1>8. CASE BrokerAnswers(Head(outbox)) /\ m = "queue_declare"
  <2>0. PICK g : g = [type |-> "DeclareOk"]
    OBVIOUS
  <2>1. BrokerAnswers(frame) /\ frame.type = "queue_declare"
    BY <1>1, <1>4, <1>8
  <2>2. Sends(<<g>>) /\ broker' = broker
    BY <2>0, <2>1 DEF BrokerAnswers, Consumes
  <2>3. IsAnswer(t, g)' /\ g.type # "GetOk" /\ ~ Consumes(m)
    BY <1>5, <1>8, <2>0 DEF IsAnswer, Consumes
  <2>4. m # "basic_cancel" /\ broker' = [broker EXCEPT !.consumers = broker.consumers]
    BY <1>7, <1>8, <2>2
  <2> QED BY <2>2, <2>3, <2>4, OtherAnswers
<1>9. CASE BrokerAnswers(Head(outbox)) /\ m = "basic_get"
  <2>0. PICK g : g = [type |-> "GetEmpty"]
    OBVIOUS
  <2>1. BrokerAnswers(frame) /\ frame.type = "basic_get" /\ frame.by = Call(t)
    BY <1>1, <1>4, <1>9
  <2>2. \/ Sends(<<g>>) /\ broker' = broker
        \/ BrokerDelivers("GetOk", frame.by)
    BY <2>0, <2>1 DEF BrokerAnswers, Consumes
  <2>3. CASE BrokerDelivers("GetOk", frame.by)
    <3>1. BrokerDelivers("GetOk", Call(t))
      BY <2>1, <2>3
    <3> QED BY <1>9, <3>1, GetCareful
  <2>4. IsAnswer(t, g)' /\ g.type # "GetOk" /\ ~ Consumes(m)
    BY <1>5, <1>9, <2>0 DEF IsAnswer, Consumes
  <2>5. m # "basic_cancel" /\ broker = [broker EXCEPT !.consumers = broker.consumers]
    BY <1>7, <1>9
  <2> QED BY <2>2, <2>3, <2>4, <2>5, OtherAnswers
<1>10. Consumes(m) \/ m = "basic_cancel" \/ m = "basic_get" \/ m = "queue_declare"
  BY <1>1 DEF Request, Consumes
<1> QED BY <1>2, <1>3, <1>6, <1>8, <1>9, <1>10

\* What a step of the broker leaves of a client that works.
LEMMA BrokerServes ==
    ASSUME IInv, Working, ClientUnchanged, app.fresh = None, Ledger',
           \/ Serving'
           \/ \E t \in Task : Replied(t)' \/ ClosedOn(t)' \/ Reopens(t)'
    PROVE  Working'
<1>1. FreshIsLast'
  BY DEF ClientUnchanged, FreshIsLast
<1>2. TagsAreRegistered'
  BY DEF ClientUnchanged, Working, Books, TagsAreRegistered, Call
<1>3. /\ ~ session'.failed /\ manager'.exception = None
      /\ \A u \in Task : task'[u].result \notin {STE, "AttributeError"}
  BY DEF ClientUnchanged, Working
<1> QED BY <1>1, <1>2, <1>3 DEF Working, Books

\* The broker learns that the channel is closed, and opens it again.
LEMMA CloseOkCareful ==
    ASSUME IInv, Working, NEW t \in Task, ClosedOn(t) \/ Reopens(t),
           broker.phase = "closing", outbox' = Tail(outbox), ClientUnchanged,
           broker' = [broker EXCEPT !.phase = "closed"], inbox' = inbox
    PROVE  Working'
<1>1. /\ manager' = manager /\ session' = session /\ app' = app /\ futures' = futures
      /\ task' = task /\ workload' = workload
  BY DEF ClientUnchanged
<1>2. /\ broker'.phase = "closed" /\ broker'.channel = broker.channel
      /\ broker'.consumers = broker.consumers /\ broker'.unacked = broker.unacked
      /\ broker'.settled = broker.settled
  BY BrokerNow DEF BrokerOf
<1>3. broker.consumers = {} /\ DOMAIN broker.unacked = {}
  BY DEF Working, Books, Ledger, BrokerCounts
<1>4. Closes /\ Closes' /\ (NoneWaits => NoneWaits')
  BY <1>1 DEF ClosedOn, Reopens, Closes, MailIsEmpty, NonePends, ConsumesAreGranted, NoneWaits
<1>5. outbox' = <<>> \/ outbox' = <<OpenFrame>>
  <2>1. outbox = <<CloseOkFrame>> \/ outbox = <<CloseOkFrame, OpenFrame>>
    BY DEF ClosedOn, Reopens
  <2>2. Tail(<<CloseOkFrame>>) = <<>> /\ Tail(<<CloseOkFrame, OpenFrame>>) = <<OpenFrame>>
    BY ShortSequences, PairsAre
  <2> QED BY <2>1, <2>2
<1>6. \A i \in DOMAIN outbox' : outbox'[i].type \notin SettleTypes
  <2>1. OpenFrame.type \notin SettleTypes
    BY DEF OpenFrame, SettleTypes, SettledState
  <2>2. CASE outbox' = <<OpenFrame>>
    <3>1. \A i \in DOMAIN outbox' : outbox'[i] = OpenFrame
      BY <2>2
    <3> QED BY <2>1, <3>1
  <2> QED BY <1>5, <2>2
<1>7. Ledger'
  BY <1>2, <1>3, <1>6, LedgerCleared DEF Working, Books
<1>8. CASE ClosedOn(t)
  <2>1. outbox' = <<>> /\ inbox' = <<>>
    BY <1>8, ShortSequences DEF ClosedOn
  <2>2. ClosedOn(t)'
    BY <1>1, <1>2, <1>4, <1>8, <2>1 DEF ClosedOn, Heard
  <2> QED BY <1>4, <1>7, <2>2, BrokerServes DEF Closes
<1>9. CASE Reopens(t)
  <2>1. outbox' = <<OpenFrame>> /\ inbox' = <<>>
    BY <1>9, PairsAre DEF Reopens
  <2>2. Reopens(t)'
    BY <1>1, <1>2, <1>4, <1>9, <2>1 DEF Reopens
  <2> QED BY <1>4, <1>7, <2>2, BrokerServes DEF Closes
<1> QED BY <1>8, <1>9

LEMMA OpenCareful ==
    ASSUME IInv, Working, session.transport = "open", NEW t \in Task, Reopens(t),
           broker.phase = "closed", outbox' = Tail(outbox), ClientUnchanged,
           broker' = [broker EXCEPT !.phase = "open", !.channel = @ + 1, !.sent = 0],
           Sends(<<[type |-> "Channel.OpenOk"]>>)
    PROVE  Working'
<1>1. /\ manager' = manager /\ session' = session /\ app' = app /\ futures' = futures
      /\ task' = task /\ workload' = workload
  BY DEF ClientUnchanged
<1>2. /\ broker'.phase = "open" /\ broker'.channel = broker.channel + 1
      /\ broker'.consumers = broker.consumers /\ broker'.unacked = broker.unacked
      /\ broker'.settled = broker.settled
  BY BrokerNow DEF BrokerOf
<1>3. broker.consumers = {} /\ DOMAIN broker.unacked = {}
  BY DEF Working, Books, Ledger, BrokerCounts
<1>4. Closes /\ Closes' /\ (NoneWaits => NoneWaits')
  BY <1>1 DEF Reopens, Closes, MailIsEmpty, NonePends, ConsumesAreGranted, NoneWaits
<1>5. outbox' = <<>> /\ inbox = <<>>
  BY ShortSequences DEF Reopens
<1>6. \A i \in DOMAIN outbox' : outbox'[i].type \notin SettleTypes
  BY <1>5
<1>7. Ledger'
  BY <1>2, <1>3, <1>6, LedgerCleared DEF Working, Books
<1> DEFINE g == [type |-> "Channel.OpenOk"]
<1>8. inbox' = <<g>>
  <2>1. Sends(<<g>>)
    OBVIOUS
  <2> HIDE DEF g
  <2> QED BY <1>5, <2>1, OnlySent
<1>9. Reopens(t)'
  BY <1>1, <1>2, <1>3, <1>4, <1>5, <1>8 DEF Reopens
<1> QED BY <1>4, <1>7, <1>9, BrokerServes DEF Closes

\* What the broker does with the first frame.
LEMMA ReadsFirst ==
    ASSUME BrokerReads, NEW frame, frame = Head(outbox)
    PROVE  /\ outbox # <<>> /\ outbox' = Tail(outbox)
           /\ broker.phase = "open" /\ frame.type \in SettleTypes => BrokerSettles(frame)
           /\ broker.phase = "open" /\ frame.type \in DOMAIN Request =>
                 \/ BrokerAnswers(frame)
                 \/ frame.type \in workload.refusals /\ BrokerClosesChannel
           /\ broker.phase = "closing" /\ frame.type = "Channel.CloseOk" =>
                 broker' = [broker EXCEPT !.phase = "closed"] /\ inbox' = inbox
           /\ broker.phase = "closed" /\ frame.type = "Channel.Open" =>
                 /\ Sends(<<[type |-> "Channel.OpenOk"]>>)
                 /\ broker' = [broker EXCEPT !.phase = "open", !.channel = @ + 1, !.sent = 0]
<1>1. DOMAIN Request \cap SettleTypes = {}
  BY DEF Request, SettleTypes, SettledState
<1>2. outbox # <<>> /\ outbox' = Tail(outbox)
  BY DEF BrokerReads
<1>3. CASE broker.phase = "open" /\ frame.type \in SettleTypes
  BY <1>1, <1>2, <1>3 DEF BrokerReads, SettleTypes
<1>4. CASE broker.phase = "open" /\ frame.type \in DOMAIN Request
  BY <1>1, <1>2, <1>4 DEF BrokerReads, SettleTypes
<1>5. CASE broker.phase = "closing" /\ frame.type = "Channel.CloseOk"
  BY <1>2, <1>5 DEF BrokerReads
<1>6. CASE broker.phase = "closed" /\ frame.type = "Channel.Open"
  BY <1>2, <1>6 DEF BrokerReads
<1> QED BY <1>2, <1>3, <1>4, <1>5, <1>6

LEMMA BrokerReadsCareful ==
    ASSUME IInv, workload.careful, Working, OneAtATime, session.transport = "open",
           BrokerReads, ClientUnchanged
    PROVE  Working'
<1>1. PICK frame : frame = Head(outbox)
  OBVIOUS
<1>2. /\ outbox # <<>> /\ outbox' = Tail(outbox)
      /\ broker.phase = "open" /\ frame.type \in SettleTypes => BrokerSettles(frame)
      /\ broker.phase = "open" /\ frame.type \in DOMAIN Request =>
            \/ BrokerAnswers(frame)
            \/ frame.type \in workload.refusals /\ BrokerClosesChannel
      /\ broker.phase = "closing" /\ frame.type = "Channel.CloseOk" =>
            broker' = [broker EXCEPT !.phase = "closed"] /\ inbox' = inbox
      /\ broker.phase = "closed" /\ frame.type = "Channel.Open" =>
            /\ Sends(<<[type |-> "Channel.OpenOk"]>>)
            /\ broker' = [broker EXCEPT !.phase = "open", !.channel = @ + 1, !.sent = 0]
  BY <1>1, ReadsFirst
<1>3. outbox[1] = frame /\ 1 \in DOMAIN outbox
  BY <1>1, <1>2, OutboxRead
<1>4. CASE broker.phase = "open" /\ frame.type \in SettleTypes
  BY <1>1, <1>2, <1>4, SettlesCareful
<1>5. CASE Serving
  BY <1>3, <1>4, <1>5 DEF Serving, Settles, ChannelIsOpen
<1>6. ASSUME NEW t \in Task, Asks(t)
      PROVE  Working'
  <2>1. frame.type \in SettleTypes \/ frame.type \in DOMAIN Request
    BY <1>3, <1>6, AsksIs
  <2>2. CASE frame.type \in DOMAIN Request
    <3>1. broker.phase = "open"
      BY <1>6 DEF Asks
    <3>2. \/ BrokerAnswers(Head(outbox))
          \/ Head(outbox).type \in workload.refusals /\ BrokerClosesChannel
      BY <1>1, <1>2, <2>2, <3>1
    <3> QED BY <1>1, <1>2, <1>6, <2>2, <3>2, RequestCareful
  <2> QED BY <1>4, <1>6, <2>1, <2>2 DEF Asks
<1>7. ASSUME NEW t \in Task, ClosedOn(t) \/ Reopens(t)
      PROVE  Working'
  <2>1. \/ broker.phase = "closing" /\ frame = CloseOkFrame
        \/ broker.phase = "closed" /\ frame = OpenFrame /\ Reopens(t)
    BY <1>2, <1>3, <1>7, ShortSequences, PairsAre DEF ClosedOn, Reopens
  <2>2. CASE broker.phase = "closing" /\ frame = CloseOkFrame
    <3>1. frame.type = "Channel.CloseOk"
      BY <2>2 DEF CloseOkFrame
    <3> QED BY <1>2, <1>7, <2>2, <3>1, CloseOkCareful
  <2>3. CASE broker.phase = "closed" /\ frame = OpenFrame /\ Reopens(t)
    <3>1. frame.type = "Channel.Open"
      BY <2>3 DEF OpenFrame
    <3> QED BY <1>2, <2>3, <3>1, OpenCareful
  <2> QED BY <2>1, <2>2, <2>3
<1>8. \A t \in Task : ~ Replied(t) /\ ~ Refused(t) /\ ~ Raises(t)
  BY <1>2 DEF Replied, Refused, Raises
<1> QED BY <1>5, <1>6, <1>7, <1>8 DEF Working

---------------------------------------------------------------------------
(* The broker delivers *)

\* A consumer that can be sent a message has none, and no other is under way.
LEMMA WindowIsOpen ==
    ASSUME IInv, workload.careful, Ledger, NEW tag \in broker.consumers,
           broker.phase = "open",
           workload.prefetch = 0 \/ Cardinality(Unacked(tag)) < workload.prefetch
    PROVE  /\ Unacked(tag) = {} /\ ~ Filled /\ Underway = {}
           /\ broker.consumers = {tag} /\ tag \in Calls /\ Begun(task, tag)
<1>1. Cardinality(Unacked(tag)) < 1
  BY CarefulWorkload
<1>2. Unacked(tag) = {}
  <2>1. Unacked(tag) \subseteq 1..broker.sent
    BY DEF Unacked, Ledger, BrokerCounts
  <2>2. IsFiniteSet(1..broker.sent)
    BY BrokerNow, FS_Interval
  <2>3. IsFiniteSet(Unacked(tag))
    BY <2>1, <2>2, FS_Subset
  <2>4. Cardinality(Unacked(tag)) \in Nat
    BY <2>3, FS_CardinalityType
  <2> QED BY <1>1, <2>3, <2>4, FS_EmptySet
<1>3. \A n \in DOMAIN broker.unacked : broker.unacked[n].for # tag
  BY <1>2 DEF Unacked
<1>4. broker.consumers = {tag} /\ Begun(task, tag) /\ tag \in Calls
  BY BrokerNow DEF Ledger, BrokerCounts
<1>5. ~ Filled
  <2> SUFFICES ASSUME Filled PROVE FALSE
    OBVIOUS
  <2>1. PICK msg \in app.held : msg.delivery.for = tag
    BY DEF Filled
  <2>2. PICK d : d = msg.delivery
    OBVIOUS
  <2>3. d.id[2] \in DOMAIN broker.unacked /\ broker.unacked[d.id[2]] = d
    BY <2>1, <2>2 DEF Ledger, HeldIsUnacked
  <2> QED BY <1>3, <2>1, <2>2, <2>3
<1>6. Underway = {}
  <2> SUFFICES ASSUME NEW n \in Underway PROVE FALSE
    OBVIOUS
  <2>1. IF broker.unacked[n].get THEN Filled ELSE broker.unacked[n].for \in broker.consumers
    BY DEF Ledger, OneUnderway
  <2>2. n \in DOMAIN broker.unacked
    BY DEF Underway
  <2> QED BY <1>3, <1>4, <1>5, <2>1, <2>2
<1> QED BY <1>2, <1>4, <1>5, <1>6

\* A message begins that the consumer is sent.
LEMMA DeliversCareful ==
    ASSUME IInv, workload.careful, Working, OneAtATime, session.transport = "open",
           BrokerDeliversToConsumer, ClientUnchanged
    PROVE  Working'
<1>1. broker.phase = "open" /\ outbox' = outbox
  BY DEF BrokerDeliversToConsumer
<1>2. PICK tag \in broker.consumers :
         /\ workload.prefetch = 0 \/ Cardinality(Unacked(tag)) < workload.prefetch
         /\ BrokerDelivers("Deliver", tag)
  BY DEF BrokerDeliversToConsumer
<1>3. /\ Unacked(tag) = {} /\ ~ Filled /\ Underway = {}
      /\ broker.consumers = {tag} /\ tag \in Calls /\ Begun(task, tag)
  BY <1>1, <1>2, WindowIsOpen DEF Working, Books
<1>4. PICK d \in Delivery, more \in Seq(InFrame) : SentAs(d, more, "Deliver", tag)
  BY <1>2, <1>3, DeliveredIs
<1>5. /\ d.id = <<broker.channel, broker.sent + 1>> /\ d.for = tag /\ d.get = FALSE
      /\ inbox' = inbox \o more /\ 1 \in DOMAIN more
      /\ more[1] = [type |-> "Deliver", delivery |-> d] /\ BeginsFirst(more, 1)
      /\ broker'.phase = broker.phase /\ broker'.channel = broker.channel
      /\ broker'.consumers = broker.consumers /\ broker'.settled = broker.settled
      /\ broker'.sent = broker.sent + 1
      /\ broker'.unacked = With(broker.unacked, broker.sent + 1, d)
  BY <1>4 DEF SentAs
<1>6. Ledger' /\ IsUnderway(d)'
  <2>1. SettlesAlike(outbox', outbox)
    BY <1>1 DEF SettlesAlike
  <2>2. d.for \in Calls /\ d.get \in BOOLEAN /\ Begun(task, d.for)
    BY <1>3, <1>5
  <2>3. \A n \in DOMAIN broker.unacked : broker.unacked[n].for # d.for
    BY <1>3, <1>5 DEF Unacked
  <2>4. IF d.get THEN Filled ELSE d.for \in broker.consumers
    BY <1>3, <1>5
  <2>5. \A i \in DOMAIN outbox : outbox[i].type \in SettleTypes => i \in DOMAIN outbox'
    BY <1>1
  <2> QED BY <1>1, <1>3, <1>5, <2>1, <2>2, <2>3, <2>4, <2>5, LedgerSent DEF Working, Books
<1>7. /\ manager' = manager /\ session' = session /\ app' = app /\ futures' = futures
      /\ task' = task /\ consumers' = consumers /\ workload' = workload /\ last' = last
      /\ message' = message
  BY DEF ClientUnchanged
<1>8. app.fresh = None
  BY <1>3 DEF Working, Books, FreshIsLast
<1>9. inbox \in Seq(InFrame)
  BY InvIs
<1>10. \A e : ~ IsUnderway(e)
  BY <1>3 DEF IsUnderway
<1>11. PICK g : g = [type |-> "Deliver", delivery |-> d]
  OBVIOUS
<1>12. g.type = "Deliver" /\ g.delivery = d /\ ~ g.delivery.get
  BY <1>5, <1>11
<1>13. CASE Serving
  <2>1. Empty
    BY <1>10, <1>13 DEF Serving, Stage, Coming, Taking, Stuck, Mailed, Got
  <2>2. inbox' # <<>> /\ inbox'[1] = g /\ BeginsFirst(inbox', 1)
    BY <1>5, <1>9, <1>11, <2>1, SentFirstIs DEF Empty
  <2>3. Coming'
    <3>1. IsUnderway(g.delivery)'
      BY <1>6, <1>12 DEF IsUnderway
    <3>2. MailIsEmpty' /\ NoneGot' /\ manager'.state \in Calm
      BY <1>7, <2>1 DEF Empty, MailIsEmpty, NoneGot, Gets, Call
    <3>3. IsUnderway(inbox[1].delivery)' /\ ~ inbox'[1].delivery.get
      BY <1>12, <2>2, <3>1 DEF IsUnderway
    <3> QED BY <1>12, <2>2, <3>2, <3>3 DEF Coming
  <2>4. ChannelIsOpen' /\ KnownToClient' /\ NonePends' /\ Settles(outbox)'
    BY <1>1, <1>5, <1>7, <1>13 DEF Serving, ChannelIsOpen, KnownToClient, NonePends,
       ConsumesAreGranted, Settles
  <2>5. \A t \in Task : HasHeard(t) => HasHeard(t)'
    <3> TAKE t \in Task
    <3> HAVE HasHeard(t)
    <3>1. Consumes(task[t].call) /\ task[t].call # "queue_declare"
      BY <1>3 DEF HasHeard, Consumes
    <3> QED BY <1>7, <3>1 DEF HasHeard, Heard
  <2>6. Serving'
    BY <1>7, <1>13, <2>3, <2>4, <2>5 DEF Serving, Stage, NoneWaits, AtRest
  <2> QED BY <1>6, <1>8, <2>6, BrokerServes
<1>14. ASSUME NEW t \in Task, Replied(t)
       PROVE  Working'
  <2>1. Consumes(task[t].call) /\ Len(inbox) = 1 /\ broker.consumers = {Call(t)}
    BY <1>3, <1>10, <1>14 DEF Replied
  <2>2. /\ inbox' # <<>> /\ inbox'[1] = inbox[1] /\ Len(inbox') > 1
        /\ inbox'[2] = g /\ BeginsFirst(inbox', 2)
    BY <1>5, <1>9, <1>11, <2>1, SentSecondIs
  <2>3. Requests(t)' /\ Call(t)' = Call(t)
    BY <1>14, RequestStays DEF Replied
  <2>4. IsAnswer(t, inbox[1])'
    <3>1. IsAnswer(t, inbox[1]) /\ Consumes(task'[t].call)
      BY <1>7, <1>14, <2>1 DEF Replied
    <3> QED BY <1>7, <2>1, <2>2, <2>3, <3>1 DEF IsAnswer, Consumes
  <2>5. /\ inbox'[2].type = "Deliver" /\ ~ inbox'[2].delivery.get
        /\ IsUnderway(inbox[2].delivery)'
    <3>1. IsUnderway(g.delivery)'
      BY <1>6, <1>12 DEF IsUnderway
    <3> QED BY <1>12, <2>2, <3>1 DEF IsUnderway
  <2>6. broker'.consumers = {Call(t)'} /\ broker'.phase = "open" /\ outbox' = <<>>
    BY <1>1, <1>5, <1>14, <2>1, <2>3 DEF Replied
  <2>7. Replied(t)'
    BY <1>7, <2>1, <2>2, <2>3, <2>4, <2>5, <2>6 DEF Replied
  <2> QED BY <1>6, <1>8, <2>7, BrokerServes
<1>15. \A t \in Task : /\ ~ Asks(t) /\ ~ Refused(t) /\ ~ ClosedOn(t) /\ ~ Reopens(t)
                       /\ ~ Raises(t)
  BY <1>1, <1>3 DEF Asks, Refused, ClosedOn, Reopens, Raises
<1> QED BY <1>13, <1>14, <1>15 DEF Working

\* Whatever the broker does, while the socket holds.
LEMMA BrokerCareful ==
    ASSUME IInv, workload.careful, Working \/ Broken, OneAtATime,
           session.transport = "open", Broker
    PROVE  (Working' \/ Broken') /\ OneAtATime' /\ manager' = manager
<1>1. ClientUnchanged /\ manager' = manager /\ task' = task
  BY DEF Broker, ClientUnchanged
<1>2. OneAtATime'
  BY <1>1 DEF OneAtATime
<1>3. ~ BrokerCancels
  BY CarefulWorkload DEF BrokerCancels
<1>4. CASE Working
  BY <1>1, <1>2, <1>3, <1>4, BrokerReadsCareful, DeliversCareful DEF Broker
<1>5. CASE Broken
  <2>1. ~ BrokerReads /\ ~ BrokerDeliversToConsumer
    BY <1>5 DEF Broken, BrokerReads, BrokerDeliversToConsumer
  <2> QED BY <1>3, <2>1 DEF Broker
<1> QED BY <1>1, <1>2, <1>4, <1>5

---------------------------------------------------------------------------
(* The steps of the client, whether the socket holds or not *)

\* No event of Channel.Close is set by what enters another state, runs the callbacks, or
\* ends a wait.
LEMMA EnterPlain ==
    ASSUME NEW m \in Managers, NEW s \in ClientState
    PROVE  /\ Enter(m, s).exception \in {m.exception, None, STE}
           /\ Enter(m, s).fired = m.fired
           /\ s # "CHANNEL_CLOSE_RECEIVED" =>
                 \A t : ClosingIn(Enter(m, s), t) => ClosingIn(m, t)
<1> DEFINE n == Enter(m, s)
<1>1. CASE SM!Unchanged(m, s, None)
  <2>1. n = m
    BY <1>1 DEF Enter, SM!SetState
  <2> QED BY <2>1
<1>2. CASE ~ SM!Unchanged(m, s, None) /\ SM!Refuses(m, s, None)
  <2>1. n = SM!Refuse(m, STE)
    BY <1>2 DEF Enter, SM!SetState
  <2>2. n.exception = STE /\ n.fired = m.fired /\ n.ready = m.ready
    BY <2>1, ManagersAre DEF SM!Refuse
  <2> HIDE DEF n
  <2>3. \A t : ClosingIn(n, t) => ClosingIn(m, t)
    BY <2>2 DEF ClosingIn
  <2> QED BY <2>2, <2>3 DEF n
<1>3. CASE ~ SM!Unchanged(m, s, None) /\ ~ SM!Refuses(m, s, None)
  <2> DEFINE events == SM!Scheduled(m, s)
  <2>1. n = SM!Enter(m, s, None)
    BY <1>3 DEF Enter, SM!SetState
  <2>2. /\ n.exception = None /\ n.fired = m.fired
        /\ n.ready = IF events = {} THEN m.ready ELSE Append(m.ready, events)
    BY <2>1, ManagersAre DEF SM!Enter
  <2>3. \A e \in events : e[1] = s
    BY DEF SM!Scheduled
  <2>4. m.ready \in Seq(Events)
    BY ManagersAre
  <2> HIDE DEF n, events
  <2>5. ASSUME s # "CHANNEL_CLOSE_RECEIVED", NEW t, ClosingIn(n, t)
        PROVE  ClosingIn(m, t)
    <3>1. <<"CHANNEL_CLOSE_RECEIVED", t>> \notin events
      BY <2>3, <2>5
    <3>2. \A i \in DOMAIN n.ready : \/ i \in DOMAIN m.ready /\ n.ready[i] = m.ready[i]
                                    \/ n.ready[i] = events
      BY <2>2, <2>4
    <3> QED BY <2>2, <2>5, <3>1, <3>2 DEF ClosingIn
  <2> QED BY <2>2, <2>5 DEF n
<1> QED BY <1>1, <1>2, <1>3

LEMMA PollPlain ==
    ASSUME NEW m \in Managers, NEW u \in Task
    PROVE  /\ SM!AfterPoll(m, u).exception = None
           /\ \A t : ClosingIn(SM!AfterPoll(m, u), t) => ClosingIn(m, t)
<1> DEFINE n == SM!AfterPoll(m, u)
<1>1. /\ n.exception = None /\ n.fired = m.fired \ SM!EventsOf(u)
      /\ n.ready = [i \in DOMAIN m.ready |-> m.ready[i] \ SM!EventsOf(u)]
  BY ManagersAre DEF SM!AfterPoll, SM!ClearWaits
<1> HIDE DEF n
<1>2. \A t : ClosingIn(n, t) => ClosingIn(m, t)
  BY <1>1 DEF ClosingIn
<1> QED BY <1>1, <1>2 DEF n

LEMMA RegisterPlain ==
    ASSUME NEW m \in Managers, NEW u, NEW S
    PROVE  SM!Register(m, u, S).exception = m.exception
BY ManagersAre DEF SM!Register

LEMMA RunPlain ==
    ASSUME NEW m \in Managers, m.ready # <<>>
    PROVE  /\ SM!RunCallbacks(m).exception = m.exception
           /\ \A t : ClosingIn(SM!RunCallbacks(m), t) => ClosingIn(m, t)
<1> DEFINE n == SM!RunCallbacks(m)
<1>1. /\ n.exception = m.exception /\ n.fired = m.fired \cup Head(m.ready)
      /\ n.ready = Tail(m.ready)
  BY ManagersAre DEF SM!RunCallbacks
<1>2. m.ready \in Seq(Events)
  BY ManagersAre
<1>3. /\ 1 \in DOMAIN m.ready /\ Head(m.ready) = m.ready[1]
      /\ \A i \in DOMAIN Tail(m.ready) : i + 1 \in DOMAIN m.ready
                                         /\ Tail(m.ready)[i] = m.ready[i + 1]
  BY <1>2
<1> HIDE DEF n
<1>4. \A t : ClosingIn(n, t) => ClosingIn(m, t)
  BY <1>1, <1>3 DEF ClosingIn
<1> QED BY <1>1, <1>4 DEF n

\* What a task of a careful application does: it makes a call when no other does, takes
\* nothing that is not its own, and leaves the call of a get that waits as it is.
Untold == app'.handed = app.handed /\ app'.mailbox = app.mailbox
TakesResult(t) ==
    /\ Call(t) \in DOMAIN futures.done /\ futures.done[Call(t)] \in GetResults
    /\ futures.done[Call(t)].message # None
    /\ app' = Hand(app, Call(t), futures.done[Call(t)].message)
MorePends == \/ futures'.pending = futures.pending
             \/ \E x : futures'.pending = Append(futures.pending, x)
StillAwaited == \A d : \A u \in Task : AwaitedBy(u, d) => AwaitedBy(u, d)'
OneCall ==
    /\ OneAtATime' /\ manager'.exception # "RuntimeError"
    /\ futures'.done = futures.done /\ MorePends /\ StillAwaited

LEMMA AwaitedIs ==
    ASSUME NEW u \in Task, NEW d, AwaitedBy(u, d), task'[u].call = task[u].call,
           task'[u].pc \in {"waiting", "future", "reconnecting"},
           task'[u].left = task[u].left, futures'.get = futures.get,
           futures'.done = futures.done, ClosingIn(manager', u) => ClosingIn(manager, u)
    PROVE  AwaitedBy(u, d)'
<1>1. Call(u)' = Call(u)
  BY DEF Call
<1>2. ~ ClosingIn(manager, u)'
  BY DEF AwaitedBy, ClosingIn
<1> QED BY <1>1, <1>2 DEF AwaitedBy

\* Only the task t has changed, and only it may be in a call.
LEMMA OneTurns ==
    ASSUME NEW t \in Task, \A u \in Task : u # t => task[u].pc \in {"idle", "iterating"},
           task'[t].pc # "queued", \A u \in Task : u # t => task'[u] = task[u]
    PROVE  OneAtATime'
BY DEF OneAtATime, Busy

LEMMA PlainIs ==
    ASSUME IInv, NeverCancelled, NEW e \in {manager.exception, None, STE}
    PROVE  e # "RuntimeError"
<1>1. None # "RuntimeError" /\ STE # "RuntimeError"
  BY ConsumersAssumption DEF Error, STE
<1> QED BY <1>1 DEF NeverCancelled

\* A careful task makes a call.
LEMMA RpcOne ==
    ASSUME IInv, NeverCancelled, \A u \in Task : task[u].pc \in {"idle", "iterating"},
           NEW t \in Task, NEW m \in DOMAIN Request, NEW tag, Rpc(t, m, tag),
           task[t].pc = "iterating" => m = "basic_cancel"
    PROVE  OneCall /\ Untold
<1> DEFINE a == [app EXCEPT !.fresh = None]
           f == Prepared(t, m)
<1>1. lock = <<>>
  <2>1. LockFits(lock, task)
    BY InvIs
  <2>2. \A i \in DOMAIN lock : lock[i] \in Task /\ task[lock[i]].pc \in {"queued", "waiting"}
    BY <2>1 DEF LockFits
  <2>3. DOMAIN lock = {} /\ lock \in Seq(Task)
    BY <2>1, <2>2 DEF LockFits
  <2>4. Len(lock) = 0
    BY <2>3
  <2> QED BY <2>3, <2>4
<1>2. Send(t, m, tag, <<t>>, f, a)
  BY <1>1 DEF Rpc
<1>3. a.mailbox = app.mailbox /\ a.handed = app.handed
  BY InvIs, AppIs DEF AppOf
<1>4. /\ f.done = futures.done
      /\ \/ f.pending = futures.pending
         \/ f.pending = Append(futures.pending, [call |-> Call(t), method |-> m])
  BY PreparedHas
<1>5. manager \in Managers /\ Sent(m) \in ClientState /\ task \in [Task -> Record]
  BY InvIs, WaitedIs
<1> HIDE DEF a, f
<1>6. /\ futures' = f /\ app' = a
      /\ \E r : task' = [task EXCEPT ![t] = r] /\ r.pc # "queued"
      /\ manager'.exception \in {manager.exception, None, STE}
  <2>1. CASE SendSkipped(t, m, <<t>>, f, a)
    <3>1. manager' = manager /\ Return(t, m, "skipped", f, a)
      BY <2>1 DEF SendSkipped
    <3>2. CASE Consumes(m) \/ m = "basic_get"
      <4>1. Await(t, m, f, a)
        BY <3>1, <3>2 DEF Return
      <4>2. task[t].pc = "idle"
        BY <3>2 DEF Consumes
      <4>3. Call(t) \notin DOMAIN f.done
        BY <1>4, <4>2, NotBegun
      <4>4. /\ task' = [task EXCEPT ![t].pc = "future", ![t].call = m, ![t].tag = None]
            /\ futures' = f /\ app' = a
        BY <4>1, <4>3 DEF Await, Goes
      <4> DEFINE r == [task[t] EXCEPT !.pc = "future", !.call = m, !.tag = None]
      <4>5. task' = [task EXCEPT ![t] = r] /\ r.pc # "queued"
        BY <1>5, <4>4 DEF Record
      <4> QED BY <3>1, <4>4, <4>5
    <3>3. CASE ~ (Consumes(m) \/ m = "basic_get")
      <4>1. futures' = f /\ app' = a /\ \E result : End(t, m, result)
        BY <3>1, <3>3 DEF Return
      <4> QED BY <3>1, <4>1 DEF End
    <3> QED BY <3>2, <3>3
  <2>2. CASE SendRefused(t, m, tag, <<t>>, f, a)
    <3>1. manager' = SM!Refuse(manager, STE) /\ End(t, m, STE) /\ futures' = f /\ app' = a
      BY <2>2 DEF SendRefused
    <3>2. manager'.exception = STE
      <4> DEFINE n == SM!Refuse(manager, STE)
      <4>1. n.exception = STE
        BY <1>5, ManagersAre DEF SM!Refuse
      <4>2. manager' = n
        BY <3>1
      <4> HIDE DEF n
      <4> QED BY <4>1, <4>2
    <3> DEFINE r == [pc |-> "idle", call |-> m, result |-> STE, tag |-> None,
                     left |-> task[t].left - 1]
    <3>3. task' = [task EXCEPT ![t] = r]
      BY <3>1 DEF End
    <3>4. r.pc # "queued"
      OBVIOUS
    <3> HIDE DEF r
    <3> QED BY <3>1, <3>2, <3>3, <3>4
  <2>3. CASE SendWaits(t, m, tag, <<t>>, f, a)
    <3>1. /\ manager' = SM!Register(Enter(manager, Sent(m)), t, Range(WaitsOn(m)))
          /\ task' = [task EXCEPT ![t].pc = "waiting", ![t].call = m, ![t].tag = tag]
          /\ futures' = f /\ app' = a
      BY <2>3 DEF SendWaits, Goes
    <3>2. manager'.exception = Enter(manager, Sent(m)).exception
      <4>1. Enter(manager, Sent(m)) \in Managers
        BY <1>5, EnterKeepsType
      <4> QED BY <3>1, <4>1, RegisterPlain
    <3>3. manager'.exception \in {manager.exception, None, STE}
      BY <1>5, <3>2, EnterPlain
    <3> DEFINE r == [task[t] EXCEPT !.pc = "waiting", !.call = m, !.tag = tag]
    <3>4. task' = [task EXCEPT ![t] = r] /\ r.pc # "queued"
      BY <1>5, <3>1 DEF Record
    <3> QED BY <3>1, <3>3, <3>4
  <2> QED BY <1>2, <2>1, <2>2, <2>3 DEF Send
<1>7. OneAtATime'
  BY <1>5, <1>6, OneTurns
<1>8. manager'.exception # "RuntimeError"
  BY <1>6, PlainIs
<1>9. StillAwaited
  BY DEF StillAwaited, AwaitedBy
<1> QED BY <1>3, <1>4, <1>6, <1>7, <1>8, <1>9 DEF OneCall, Untold, MorePends

LEMMA BeginOne ==
    ASSUME IInv, workload.careful, NeverCancelled, NEW t \in Task, Begin(t)
    PROVE  OneCall /\ Untold
<1>1. PICK m \in workload.methods :
         /\ MayCall(m)
         /\ IF m = "basic_cancel" THEN \E tag \in Cancellable : Rpc(t, m, tag)
            ELSE Rpc(t, m, None)
  BY DEF Begin
<1>2. m \in DOMAIN Request /\ task[t].pc = "idle" /\ \E tag : Rpc(t, m, tag)
  BY <1>1, CarefulWorkload DEF Begin
<1>3. \A u \in Task : task[u].pc \in {"idle", "iterating"}
  BY <1>1 DEF MayCall
<1> QED BY <1>2, <1>3, RpcOne

LEMMA LeaveOne ==
    ASSUME IInv, workload.careful, OneAtATime, NeverCancelled, NEW t \in Task, Leave(t)
    PROVE  OneCall /\ Untold
<1>1. task[t].pc = "iterating" /\ (IsClosed \/ MayCall("basic_cancel"))
  BY DEF Leave
<1>2. CASE manager.exception # None \/ IsClosed
  <2>1. /\ manager' = manager /\ futures' = futures /\ app' = app
        /\ \E result : End(t, "consume", result)
    BY <1>2 DEF Leave
  <2>2. task'[t].pc = "idle" /\ \A u \in Task : u # t => task'[u] = task[u]
    BY <1>1, <2>1, EndsAs DEF Active
  <2>3. OneAtATime'
    BY <2>2 DEF OneAtATime, Busy
  <2>4. StillAwaited
    <3> SUFFICES ASSUME NEW d, NEW u \in Task, AwaitedBy(u, d) PROVE AwaitedBy(u, d)'
      BY DEF StillAwaited
    <3>1. u # t
      BY <1>1 DEF AwaitedBy
    <3> QED BY <2>1, <2>2, <3>1, AwaitedIs DEF AwaitedBy
  <2> QED BY <2>1, <2>3, <2>4 DEF OneCall, Untold, MorePends, NeverCancelled
<1>3. CASE ~ (manager.exception # None \/ IsClosed)
  <2>1. Rpc(t, "basic_cancel", task[t].tag) /\ MayCall("basic_cancel")
    BY <1>1, <1>3 DEF Leave
  <2>2. \A u \in Task : task[u].pc \in {"idle", "iterating"}
    BY <2>1 DEF MayCall
  <2>3. "basic_cancel" \in DOMAIN Request
    BY DEF Request
  <2> DEFINE m == "basic_cancel"
  <2>4. Rpc(t, m, task[t].tag) /\ m \in DOMAIN Request /\ m = "basic_cancel"
    BY <2>1, <2>3
  <2> HIDE DEF m
  <2> QED BY <2>2, <2>4, RpcOne
<1> QED BY <1>2, <1>3

---------------------------------------------------------------------------
(* The other steps of the client, whether the socket holds or not *)

\* A call that waits for the message of a get is the one call that is made.
LEMMA AwaitedAlone ==
    ASSUME OneAtATime, NEW t \in Task, Busy(task[t]), NEW u \in Task, NEW d, AwaitedBy(u, d)
    PROVE  u = t
BY DEF OneAtATime, Busy, AwaitedBy

\* The records of the tasks and the future of the get are as they were.
LEMMA OneRests ==
    ASSUME OneAtATime, task' = task, futures' = futures, manager'.exception # "RuntimeError",
           \A u \in Task : ClosingIn(manager', u) => ClosingIn(manager, u)
    PROVE  OneCall
<1>1. OneAtATime'
  BY DEF OneAtATime, Busy
<1>2. StillAwaited
  <2> SUFFICES ASSUME NEW d, NEW u \in Task, AwaitedBy(u, d)
               PROVE  AwaitedBy(u, d)'
    BY DEF StillAwaited
  <2> QED BY AwaitedIs DEF AwaitedBy
<1> QED BY <1>1, <1>2 DEF OneCall, MorePends

LEMMA SettleOne ==
    ASSUME IInv, OneAtATime, NeverCancelled, Settle
    PROVE  OneCall /\ Untold
<1>1. PICK msg \in app.held, how \in workload.settlements :
         /\ manager' = Enter(manager, SettledState[how.type])
         /\ app' = [app EXCEPT !.held = @ \ {msg}, !.fresh = None,
                               !.settled = @ \cup {msg.delivery.id}]
  BY DEF Settle
<1>2. task' = task /\ futures' = futures
  BY DEF Settle
<1> DEFINE s == SettledState[how.type]
<1>3. s \in ClientState /\ s # "CHANNEL_CLOSE_RECEIVED"
  <2>1. IsWorkload(workload)
    BY BrokerHas
  <2>2. how \in Settlement
    BY <2>1 DEF IsWorkload
  <2>3. how.type \in DOMAIN SettledState
    BY <2>2 DEF Settlement, SettledState
  <2> QED BY <2>3, StatesAre DEF SettledState
<1> HIDE DEF s
<1>4. manager' = Enter(manager, s) /\ manager \in Managers
  BY <1>1, InvIs DEF s
<1>5. /\ manager'.exception \in {manager.exception, None, STE}
      /\ \A u \in Task : ClosingIn(manager', u) => ClosingIn(manager, u)
  BY <1>3, <1>4, EnterPlain
<1>6. manager'.exception # "RuntimeError"
  BY <1>5, PlainIs
<1>7. Untold
  BY <1>1, InvIs, AppIs DEF AppOf, Untold
<1> QED BY <1>2, <1>5, <1>6, <1>7, OneRests

LEMMA RunReadyOne ==
    ASSUME IInv, OneAtATime, NeverCancelled, RunReady
    PROVE  OneCall /\ Untold
<1>1. /\ manager' = SM!RunCallbacks(manager) /\ manager.ready # <<>> /\ manager \in Managers
      /\ task' = task /\ futures' = futures /\ app' = app
  BY InvIs DEF RunReady
<1>2. /\ manager'.exception = manager.exception
      /\ \A u \in Task : ClosingIn(manager', u) => ClosingIn(manager, u)
  BY <1>1, RunPlain
<1> QED BY <1>1, <1>2, OneRests DEF NeverCancelled, Untold

LEMMA TakeNextOne ==
    ASSUME OneAtATime, NeverCancelled, NEW t \in Task, TakeNext(t)
    PROVE  OneCall
<1>1. manager' = manager /\ task' = task /\ futures' = futures
  BY DEF TakeNext
<1>2. \A u \in Task : ClosingIn(manager', u) => ClosingIn(manager, u)
  BY <1>1
<1> QED BY <1>1, <1>2, OneRests DEF NeverCancelled

\* A call that waits for its future takes its result, or goes on waiting.
LEMMA AwaitOne ==
    ASSUME IInv, OneAtATime, NEW t \in Task, task[t].pc \in {"waiting", "future"},
           Await(t, task[t].call, futures, app),
           \A u \in Task : ClosingIn(manager', u) => ClosingIn(manager, u)
    PROVE  /\ OneAtATime' /\ futures'.done = futures.done /\ MorePends /\ StillAwaited
           /\ Untold \/ TakesResult(t)
<1>1. /\ Busy(task[t]) /\ Active(task[t]) /\ task \in [Task -> Record]
      /\ CallsOwn(task, futures) /\ FuturesTyped(futures)
  BY InvIs DEF Busy, Active, CallsOwn
<1>2. CASE Call(t) \notin DOMAIN futures.done
  <2>1. /\ Goes(t, task[t].call, None, "future") /\ futures' = futures /\ app' = app
    BY <1>2 DEF Await
  <2>2. /\ task'[t].pc = "future" /\ task'[t].call = task[t].call
        /\ task'[t].left = task[t].left /\ \A u \in Task : u # t => task'[u] = task[u]
    BY <2>1, GoesTo
  <2>3. OneAtATime'
    BY <1>1, <2>2, OneStays
  <2>4. StillAwaited
    <3> SUFFICES ASSUME NEW d, NEW u \in Task, AwaitedBy(u, d)
                 PROVE  AwaitedBy(u, d)'
      BY DEF StillAwaited
    <3>1. u = t
      BY <1>1, AwaitedAlone
    <3> QED BY <2>1, <2>2, <3>1, AwaitedIs
  <2> QED BY <2>1, <2>3, <2>4 DEF MorePends, Untold
<1>3. CASE Call(t) \in DOMAIN futures.done
  <2> DEFINE value == futures.done[Call(t)]
  <2>1. /\ \/ task[t].call = "consume" /\ Goes(t, task[t].call, value.tag, "iterating")
           \/ End(t, task[t].call, "answered")
        /\ futures' = IF task[t].call = "basic_get" THEN [futures EXCEPT !.get = None]
                      ELSE futures
        /\ app' = IF task[t].call = "basic_get" /\ value.message # None
                  THEN Hand(app, Call(t), value.message) ELSE app
    BY <1>3 DEF Await
  <2>2. /\ task'[t].pc \in {"iterating", "idle"}
        /\ \A u \in Task : u # t => task'[u] = task[u]
    BY <1>1, <2>1, GoesTo, EndsAs
  <2>3. OneAtATime'
    BY <1>1, <2>2, OneStays
  <2>4. futures'.done = futures.done /\ futures'.pending = futures.pending
    BY <1>1, <2>1, FutureIs
  <2>5. StillAwaited
    <3>1. ASSUME NEW d, NEW u \in Task, AwaitedBy(u, d)
          PROVE  FALSE
      <4>1. u = t
        BY <1>1, <3>1, AwaitedAlone
      <4> QED BY <1>3, <3>1, <4>1 DEF AwaitedBy
    <3> QED BY <3>1 DEF StillAwaited
  <2>6. Untold \/ TakesResult(t)
    <3>1. CASE task[t].call = "basic_get" /\ value.message # None
      <4>1. value \in GetResults
        <5>1. Call(t) = <<t, task[t].left>>
          BY DEF Call
        <5> QED BY <1>1, <1>3, <3>1, <5>1 DEF CallsOwn, FuturesOwn
      <4> QED BY <1>3, <2>1, <3>1, <4>1 DEF TakesResult
    <3>2. CASE ~ (task[t].call = "basic_get" /\ value.message # None)
      BY <2>1, <3>2 DEF Untold
    <3> QED BY <3>1, <3>2
  <2> QED BY <2>3, <2>4, <2>5, <2>6 DEF MorePends
<1> QED BY <1>2, <1>3

\* The call of t, which is not that of a get that waits, is no more what it was.
LEMMA OneGoesOn ==
    ASSUME OneAtATime, NEW t \in Task, Busy(task[t]), \A d : ~ AwaitedBy(t, d),
           task'[t].pc # "queued", \A u \in Task : u # t => task'[u] = task[u],
           futures' = futures, manager'.exception # "RuntimeError"
    PROVE  OneCall
<1>1. OneAtATime'
  BY OneStays
<1>2. StillAwaited
  <2> SUFFICES ASSUME NEW d, NEW u \in Task, AwaitedBy(u, d)
               PROVE  FALSE
    BY DEF StillAwaited
  <2> QED BY AwaitedAlone
<1> QED BY <1>1, <1>2 DEF OneCall, MorePends

LEMMA PollAnsweredOne ==
    ASSUME IInv, OneAtATime, NEW t \in Task, PollAnswered(t)
    PROVE  OneCall /\ (Untold \/ TakesResult(t))
<1> DEFINE m == task[t].call
<1>1. /\ task[t].pc = "waiting" /\ manager' = SM!AfterPoll(manager, t)
      /\ Return(t, m, "answered", futures, app) /\ manager \in Managers
  BY InvIs DEF PollAnswered, Waits
<1>2. Busy(task[t]) /\ Active(task[t])
  BY <1>1 DEF Active, Busy
<1>3. /\ manager'.exception = None
      /\ \A u \in Task : ClosingIn(manager', u) => ClosingIn(manager, u)
  BY <1>1, PollPlain
<1>4. manager'.exception # "RuntimeError"
  BY <1>3, ConsumersAssumption DEF Error
<1>5. CASE Consumes(m) \/ m = "basic_get"
  <2>1. Await(t, task[t].call, futures, app)
    BY <1>1, <1>5 DEF Return
  <2> QED BY <1>1, <1>3, <1>4, <2>1, AwaitOne DEF OneCall
<1>6. CASE ~ (Consumes(m) \/ m = "basic_get")
  <2>1. /\ futures' = futures /\ app' = app /\ \E result : End(t, m, result)
    BY <1>1, <1>6 DEF Return
  <2>2. task'[t].pc # "queued" /\ \A u \in Task : u # t => task'[u] = task[u]
    BY <1>2, <2>1, EndsAs
  <2>3. \A d : ~ AwaitedBy(t, d)
    BY <1>6 DEF AwaitedBy
  <2> QED BY <1>2, <1>4, <2>1, <2>2, <2>3, OneGoesOn DEF Untold
<1> QED BY <1>5, <1>6

LEMMA PollChannelClosedOne ==
    ASSUME IInv, OneAtATime, NEW t \in Task, PollChannelClosed(t)
    PROVE  OneCall /\ Untold
<1> DEFINE m == SM!AfterPoll(manager, t)
           n == Enter(m, "OPENING_CHANNEL")
           o == Enter(n, "CHANNEL_OPEN_SENT")
<1>1. /\ task[t].pc = "waiting" /\ PollIs(t, "CHANNEL_CLOSE_RECEIVED")
      /\ futures' = futures /\ app' = app
      /\ \/ manager' = SM!Refuse(m, STE) /\ End(t, task[t].call, STE)
         \/ /\ manager' = o
            /\ \/ Goes(t, task[t].call, None, "raising")
               \/ Goes(t, task[t].call, None, "opening")
  BY DEF PollChannelClosed, Waits
<1>2. Busy(task[t]) /\ Active(task[t])
  BY <1>1 DEF Active, Busy
<1>3. \A d : ~ AwaitedBy(t, d)
  BY <1>1 DEF PollIs, SM!PollReturns, SM!IsSet, AwaitedBy, ClosingIn
<1>4. task'[t].pc # "queued" /\ \A u \in Task : u # t => task'[u] = task[u]
  BY <1>1, <1>2, GoesTo, EndsAs
<1>5. m \in Managers /\ m.exception = None
  BY InvIs, AfterPollKeepsType, PollPlain
<1>6. "OPENING_CHANNEL" \in ClientState /\ "CHANNEL_OPEN_SENT" \in ClientState
  BY StatesAre
<1> HIDE DEF m
<1>7. n \in Managers /\ n.exception \in {None, STE}
  BY <1>5, <1>6, EnterKeepsType, EnterPlain
<1> HIDE DEF n
<1>8. o.exception \in {None, STE}
  BY <1>6, <1>7, EnterPlain
<1> HIDE DEF o
<1>9. SM!Refuse(m, STE).exception = STE
  BY <1>5, ManagersAre DEF SM!Refuse
<1>10. manager'.exception \in {None, STE}
  <2>1. CASE manager' = SM!Refuse(m, STE)
    <3> DEFINE r == SM!Refuse(m, STE)
    <3>1. manager' = r /\ r.exception = STE
      BY <1>9, <2>1
    <3> HIDE DEF r
    <3> QED BY <3>1
  <2>2. CASE manager' = o
    BY <1>8, <2>2
  <2> QED BY <1>1, <2>1, <2>2
<1>11. manager'.exception # "RuntimeError"
  BY <1>10, ConsumersAssumption DEF Error, STE
<1> QED BY <1>1, <1>2, <1>3, <1>4, <1>11, OneGoesOn DEF Untold

LEMMA PollRaisesOne ==
    ASSUME IInv, OneAtATime, NeverCancelled, NEW t \in Task, PollRaises(t)
    PROVE  OneCall /\ Untold
<1>1. /\ task[t].pc = "waiting" /\ manager' = SM!AfterPoll(manager, t)
      /\ Goes(t, task[t].call, None, "reconnecting")
      /\ futures' = futures /\ app' = app /\ manager \in Managers
  BY InvIs DEF PollRaises, Waits, NeverCancelled
<1>2. /\ task'[t].pc = "reconnecting" /\ task'[t].call = task[t].call
      /\ task'[t].left = task[t].left /\ \A u \in Task : u # t => task'[u] = task[u]
  BY <1>1, GoesTo
<1>3. Busy(task[t])
  BY <1>1 DEF Busy
<1>4. OneAtATime'
  BY <1>2, <1>3, OneStays
<1>5. /\ manager'.exception = None
      /\ \A u \in Task : ClosingIn(manager', u) => ClosingIn(manager, u)
  BY <1>1, PollPlain
<1>6. StillAwaited
  <2> SUFFICES ASSUME NEW d, NEW u \in Task, AwaitedBy(u, d)
               PROVE  AwaitedBy(u, d)'
    BY DEF StillAwaited
  <2>1. u = t
    BY <1>3, AwaitedAlone
  <2> QED BY <1>1, <1>2, <1>5, <2>1, AwaitedIs
<1>7. manager'.exception # "RuntimeError"
  BY <1>5, ConsumersAssumption DEF Error
<1> QED BY <1>1, <1>4, <1>6, <1>7 DEF OneCall, MorePends, Untold

LEMMA ProceedsOne ==
    ASSUME IInv, OneAtATime, NeverCancelled, NEW t \in Task, Proceeds(t)
    PROVE  OneCall /\ (Untold \/ TakesResult(t))
<1>1. ~ Acquire(t)
  BY DEF Acquire, OneAtATime
<1>2. CASE FutureIsDone(t)
  <2>1. /\ task[t].pc = "future" /\ Await(t, task[t].call, futures, app) /\ manager' = manager
    BY <1>2 DEF FutureIsDone
  <2>2. \A u \in Task : ClosingIn(manager', u) => ClosingIn(manager, u)
    BY <2>1
  <2> QED BY <2>1, <2>2, AwaitOne DEF OneCall, NeverCancelled
<1>3. CASE RaiseLastError(t)
  <2>1. /\ task[t].pc = "raising" /\ \E result : End(t, task[t].call, result)
        /\ futures' = futures /\ app' = app /\ manager' = manager
    BY <1>3 DEF RaiseLastError
  <2>2. Busy(task[t]) /\ Active(task[t]) /\ \A d : ~ AwaitedBy(t, d)
    BY <2>1 DEF Busy, Active, AwaitedBy
  <2>3. task'[t].pc # "queued" /\ \A u \in Task : u # t => task'[u] = task[u]
    BY <2>1, <2>2, EndsAs
  <2> QED BY <2>1, <2>2, <2>3, OneGoesOn DEF Untold, NeverCancelled
<1> QED BY <1>1, <1>2, <1>3, PollAnsweredOne, PollChannelClosedOne, PollRaisesOne DEF Proceeds

\* A step of the client changes no frame that has arrived.
ClientSteps ==
    Application \/ (RunReady /\ FramesUnchanged) \/ \E t \in Task : Proceeds(t)

LEMMA ClientOne ==
    ASSUME IInv, workload.careful, OneAtATime, NeverCancelled, ClientSteps
    PROVE  /\ OneCall /\ FramesUnchanged
           /\ Untold \/ \E t \in Task : TakeNext(t) \/ TakesResult(t)
<1>1. FramesUnchanged
  BY DEF ClientSteps, Application, Proceeds
<1>2. ASSUME Application
      PROVE  OneCall /\ (Untold \/ \E t \in Task : TakeNext(t))
  <2>1. CASE Settle
    BY <2>1, SettleOne
  <2>2. ASSUME NEW t \in Task, Begin(t)
        PROVE  OneCall /\ Untold
    BY <2>2, BeginOne
  <2>3. ASSUME NEW t \in Task, Leave(t)
        PROVE  OneCall /\ Untold
    BY <2>3, LeaveOne
  <2>4. ASSUME NEW t \in Task, TakeNext(t)
        PROVE  OneCall
    BY <2>4, TakeNextOne
  <2> QED BY <1>2, <2>1, <2>2, <2>3, <2>4 DEF Application
<1> QED BY <1>1, <1>2, RunReadyOne, ProceedsOne DEF ClientSteps

---------------------------------------------------------------------------
(* What is kept when the socket is lost *)

\* What the client does when the socket is gone is not written, and unsettles nothing.
KeepsSettled == app.settled \subseteq app'.settled
Dropped ==
    /\ session'.transport = session.transport
    /\ session.transport = "lost" => outbox' = outbox
    /\ KeepsSettled

LEMMA HandSettles ==
    ASSUME NEW a, AppTyped(a), NEW to, NEW msg, NEW mailbox
    PROVE  /\ Hand(a, to, msg).settled = a.settled
           /\ [Hand(a, to, msg) EXCEPT !.mailbox = mailbox].settled = a.settled
           /\ [a EXCEPT !.mailbox = mailbox].settled = a.settled
           /\ [a EXCEPT !.fresh = None].settled = a.settled
BY AppIs DEF AppOf, Hand

LEMMA AwaitDrops ==
    ASSUME NEW t, NEW m, NEW f, NEW a, AppTyped(a), a.settled = app.settled, Await(t, m, f, a)
    PROVE  KeepsSettled
<1>1. app' = a \/ \E to, msg : app' = Hand(a, to, msg)
  BY DEF Await
<1>2. app'.settled = a.settled
  BY <1>1, HandSettles
<1> QED BY <1>2 DEF KeepsSettled

LEMMA ReturnDrops ==
    ASSUME NEW t, NEW m, NEW result, NEW f, NEW a, AppTyped(a), a.settled = app.settled,
           Return(t, m, result, f, a)
    PROVE  KeepsSettled
<1>1. CASE Consumes(m) \/ m = "basic_get"
  BY <1>1, AwaitDrops DEF Return
<1>2. CASE ~ (Consumes(m) \/ m = "basic_get")
  BY <1>2 DEF Return, KeepsSettled
<1> QED BY <1>1, <1>2

LEMMA RpcDrops ==
    ASSUME IInv, NEW t \in Task, NEW m, NEW tag, Rpc(t, m, tag), session' = session
    PROVE  Dropped
<1> DEFINE f == Prepared(t, m)
           a == [app EXCEPT !.fresh = None]
<1>1. AppTyped(a) /\ a.settled = app.settled
  <2>1. AppTyped(app)
    BY InvIs
  <2>2. a = AppOf(app.held, None, app.handed, app.settled, app.mailbox)
    BY <2>1, AppIs DEF AppOf
  <2> QED BY <2>1, <2>2, AppIs, AppMade
<1> HIDE DEF f, a
<1>2. /\ outbox' = outbox \/ Write(<<CallFrame(t, m, tag)>>)
      /\ app' = a \/ \E result : Return(t, m, result, f, a)
  BY DEF Rpc, Send, SendSkipped, SendRefused, SendWaits, f, a
<1>3. KeepsSettled
  BY <1>1, <1>2, ReturnDrops DEF KeepsSettled
<1> QED BY <1>2, <1>3 DEF Dropped, Write

LEMMA ApplicationDrops ==
    ASSUME IInv, Application
    PROVE  Dropped
<1>1. AppTyped(app) /\ session \in Sessions
  BY InvIs
<1>2. CASE Settle
  <2>1. PICK msg \in app.held, how \in workload.settlements :
           /\ Write(<<[type |-> how.type, tag |-> msg.delivery.id[2],
                       multiple |-> how.multiple, requeue |-> how.requeue]>>)
           /\ app' = [app EXCEPT !.held = @ \ {msg}, !.fresh = None,
                                 !.settled = @ \cup {msg.delivery.id}]
           /\ \E raised : Fails(raised)
    BY <1>2 DEF Settle
  <2>2. app'.settled = app.settled \cup {msg.delivery.id}
    BY <1>1, <2>1, AppIs DEF AppOf
  <2>3. session'.transport = session.transport
    BY <1>1, <2>1 DEF Fails, Sessions
  <2> QED BY <2>1, <2>2, <2>3 DEF Dropped, KeepsSettled, Write
<1>3. ASSUME NEW t \in Task, Begin(t)
      PROVE  Dropped
  <2>1. session' = session /\ \E m, tag : Rpc(t, m, tag)
    BY <1>3 DEF Begin
  <2> QED BY <2>1, RpcDrops
<1>4. ASSUME NEW t \in Task, TakeNext(t)
      PROVE  Dropped
  <2>1. /\ session' = session /\ outbox' = outbox
        /\ \E to, msg, mailbox : app' = [Hand(app, to, msg) EXCEPT !.mailbox = mailbox]
    <3> DEFINE q == MailOf(Call(t))
               h == Hand(app, Call(t), Head(q))
    <3>1. app' = [h EXCEPT !.mailbox = With(h.mailbox, Call(t), Tail(q))]
      BY <1>4 DEF TakeNext
    <3> QED BY <1>4, <3>1 DEF TakeNext
  <2>2. app'.settled = app.settled
    BY <1>1, <2>1, HandSettles
  <2> QED BY <2>1, <2>2 DEF Dropped, KeepsSettled
<1>5. ASSUME NEW t \in Task, Leave(t)
      PROVE  Dropped
  <2>1. session' = session /\ \/ outbox' = outbox /\ app' = app
                              \/ \E m, tag : Rpc(t, m, tag)
    BY <1>5 DEF Leave
  <2> QED BY <2>1, RpcDrops DEF Dropped, KeepsSettled
<1> QED BY <1>2, <1>3, <1>4, <1>5 DEF Application

LEMMA ProceedsDrops ==
    ASSUME IInv, OneAtATime, NEW t \in Task, Proceeds(t)
    PROVE  Dropped
<1>1. AppTyped(app) /\ session \in Sessions
  BY InvIs
<1>2. ~ Acquire(t)
  BY DEF Acquire, OneAtATime
<1>3. CASE FutureIsDone(t)
  BY <1>1, <1>3, AwaitDrops DEF FutureIsDone, Dropped
<1>4. CASE PollAnswered(t)
  BY <1>1, <1>4, ReturnDrops DEF PollAnswered, Dropped
<1>5. CASE PollChannelClosed(t)
  BY <1>5 DEF PollChannelClosed, Dropped, KeepsSettled, Write
<1>6. CASE PollRaises(t)
  BY <1>6 DEF PollRaises, Dropped, KeepsSettled
<1>7. CASE RaiseLastError(t)
  <2>1. session' = [session EXCEPT !.lastError = None] /\ app' = app /\ outbox' = outbox
    BY <1>7 DEF RaiseLastError
  <2>2. session'.transport = session.transport
    BY <1>1, <2>1 DEF Sessions
  <2> QED BY <2>1, <2>2 DEF Dropped, KeepsSettled
<1> QED BY <1>2, <1>3, <1>4, <1>5, <1>6, <1>7 DEF Proceeds

LEMMA ClientDrops ==
    ASSUME IInv, OneAtATime, ClientSteps
    PROVE  Dropped
<1>1. CASE RunReady
  BY <1>1 DEF RunReady, Dropped, KeepsSettled
<1> QED BY <1>1, ApplicationDrops, ProceedsDrops DEF ClientSteps

\* What the client receives.
LEMMA ReceiveDrops ==
    ASSUME IInv, Receive
    PROVE  Dropped
<1>1. AppTyped(app) /\ session \in Sessions
  BY InvIs
<1>2. ASSUME NEW raised, Fails(raised)
      PROVE  session'.transport = session.transport
  BY <1>1, <1>2 DEF Fails, Sessions
<1>3. ASSUME NEW state, Receives(state)
      PROVE  session'.transport = session.transport
  BY <1>2, <1>3 DEF Receives
<1> USE DEF Dropped, KeepsSettled
<1>4. CASE ReceiveConsumeOk
  BY <1>3, <1>4 DEF ReceiveConsumeOk
<1>5. CASE ReceiveCancelOk
  BY <1>2, <1>3, <1>5 DEF ReceiveCancelOk
<1>6. CASE ReceiveGetEmpty
  BY <1>2, <1>6 DEF ReceiveGetEmpty
<1>7. ASSUME NEW type, NEW state, ReceiveMessage(type, state)
      PROVE  Dropped
  BY <1>3, <1>7 DEF ReceiveMessage
<1>8. CASE ReceiveHeader
  BY <1>3, <1>8 DEF ReceiveHeader
<1>9. CASE ReceiveBody
  <2>1. ASSUME NEW msg, Complete(msg)
        PROVE  session'.transport = session.transport /\ app'.settled = app.settled
    <3>1. \E raised : Fails(raised)
      BY <2>1 DEF Complete
    <3> DEFINE call == consumers[msg.delivery.for].call
               mailbox == With(app.mailbox, call, Append(MailOf(call), msg))
    <3>2. \/ app' = app \/ app' = [app EXCEPT !.mailbox = mailbox]
          \/ app' = Hand(app, call, msg)
      BY <2>1 DEF Complete
    <3> HIDE DEF call, mailbox
    <3>3. /\ Hand(app, call, msg).settled = app.settled
          /\ [app EXCEPT !.mailbox = mailbox].settled = app.settled
      BY <1>1, HandSettles
    <3>4. app'.settled = app.settled
      BY <3>2, <3>3
    <3> QED BY <1>2, <3>1, <3>4
  <2>2. /\ outbox' = outbox
        /\ \/ app' = app /\ \E state : Receives(state)
           \/ \E msg : Complete(msg)
    BY <1>9 DEF ReceiveBody
  <2> QED BY <1>3, <2>1, <2>2
<1>10. CASE ReceiveDeclareOk
  BY <1>3, <1>10 DEF ReceiveDeclareOk
<1>11. CASE ReceiveCancel
  BY <1>11 DEF ReceiveCancel
<1>12. CASE ReceiveChannelClose
  <2>1. /\ app' = app /\ (outbox' = outbox \/ Write(<<[type |-> "Channel.CloseOk"]>>))
        /\ \/ \E state : Receives(state)
           \/ session' = [session EXCEPT !.lastError = "NotFound", !.channelOpen = FALSE]
    BY <1>12 DEF ReceiveChannelClose
  <2>2. [session EXCEPT !.lastError = "NotFound", !.channelOpen = FALSE].transport
           = session.transport
    BY <1>1 DEF Sessions
  <2>3. session'.transport = session.transport
    BY <1>3, <2>1, <2>2
  <2> QED BY <2>1, <2>3 DEF Write
<1>13. CASE ReceiveChannelOpenOk
  <2>1. /\ app' = app /\ outbox' = outbox
        /\ session' = [session EXCEPT !.channelOpen = TRUE, !.failed = @
                          \/ SM!Refuses(manager, "CHANNEL_OPENOK_RECEIVED", None)]
    BY <1>13 DEF ReceiveChannelOpenOk
  <2>2. session'.transport = session.transport
    BY <1>1, <2>1 DEF Sessions
  <2> QED BY <2>1, <2>2
<1>14. CASE Disconnected
  BY <1>14 DEF Disconnected
<1> HIDE DEF Dropped, KeepsSettled
<1> QED BY <1>4, <1>5, <1>6, <1>7, <1>8, <1>9, <1>10, <1>11, <1>12, <1>13, <1>14 DEF Receive

---------------------------------------------------------------------------
(* The invariant of a careful application *)

LEMMA EntersPlain ==
    ASSUME IInv, NeverCancelled, NEW n,
           \/ n = manager
           \/ \E s \in ClientState : n = Enter(manager, s)
           \/ \E s, r \in ClientState : n = Enter(Enter(manager, s), r)
    PROVE  n.exception # "RuntimeError"
<1>1. manager \in Managers
  BY InvIs
<1>2. ASSUME NEW s \in ClientState, n = Enter(manager, s)
      PROVE  n.exception # "RuntimeError"
  <2>1. n.exception \in {manager.exception, None, STE}
    BY <1>1, <1>2, EnterPlain
  <2> QED BY <2>1, PlainIs
<1>3. ASSUME NEW s \in ClientState, NEW r \in ClientState, n = Enter(Enter(manager, s), r)
      PROVE  n.exception # "RuntimeError"
  <2> DEFINE m == Enter(manager, s)
  <2>1. m \in Managers /\ m.exception \in {manager.exception, None, STE}
    BY <1>1, EnterKeepsType, EnterPlain
  <2>2. n = Enter(m, r)
    BY <1>3
  <2> HIDE DEF m
  <2>3. n.exception \in {m.exception, None, STE}
    BY <2>1, <2>2, EnterPlain
  <2>4. n.exception \in {manager.exception, None, STE}
    BY <2>1, <2>3
  <2> QED BY <2>4, PlainIs
<1> QED BY <1>2, <1>3 DEF NeverCancelled

\* What comes leaves one call, and is no Basic.Cancel.
LEMMA ReceiveAlone ==
    ASSUME IInv, OneAtATime, NeverCancelled, NoneCancels, Receive
    PROVE  OneAtATime' /\ NeverCancelled' /\ NoneCancels'
<1>1. /\ inbox # <<>> /\ inbox' = Tail(inbox) /\ inbox \in Seq(InFrame) /\ ~ ReceiveCancel
  <2>1. inbox # <<>> /\ inbox' = Tail(inbox)
    BY DEF Receive, ReceiveConsumeOk, ReceiveCancelOk, ReceiveGetEmpty, ReceiveMessage,
       ReceiveHeader, ReceiveBody, ReceiveDeclareOk, ReceiveCancel, ReceiveChannelClose,
       ReceiveChannelOpenOk, Disconnected, Takes
  <2>2. inbox \in Seq(InFrame)
    BY InvIs
  <2>3. 1 \in DOMAIN inbox /\ Head(inbox) = inbox[1]
    BY <2>1, <2>2
  <2> QED BY <2>1, <2>2, <2>3 DEF ReceiveCancel, Takes, NoneCancels
<1>2. NoneCancels'
  <2>1. \A i \in DOMAIN Tail(inbox) : i + 1 \in DOMAIN inbox /\ Tail(inbox)[i] = inbox[i + 1]
    BY <1>1
  <2> QED BY <1>1, <2>1 DEF NoneCancels
<1>3. OneAtATime'
  <2>1. CASE task' = task
    BY <2>1 DEF OneAtATime
  <2>2. CASE ReceiveChannelOpenOk
    <3>1. task \in [Task -> Record]
      BY InvIs
    <3>2. \A t \in Task : task'[t] = IF task[t].pc = "opening"
                                     THEN [task[t] EXCEPT !.pc = "raising"] ELSE task[t]
      BY <2>2 DEF ReceiveChannelOpenOk
    <3>3. \A t \in Task : /\ Busy(task'[t]) <=> Busy(task[t])
                          /\ task'[t].pc = "queued" => task[t].pc = "queued"
      BY <3>1, <3>2 DEF Busy, Record
    <3> QED BY <3>3 DEF OneAtATime
  <2> QED BY <2>1, <2>2 DEF Receive, ReceiveConsumeOk, ReceiveCancelOk, ReceiveGetEmpty,
          ReceiveMessage, ReceiveHeader, ReceiveBody, ReceiveDeclareOk, ReceiveCancel,
          ReceiveChannelClose, Disconnected
<1>4. NeverCancelled'
  <2> USE StatesAre DEF Receives
  <2>1. CASE Disconnected
    <3> DEFINE n == SM!SetState(manager, "EXCEPTION", "ConnectionClosedException", STE)
    <3>1. manager \in Managers
      BY InvIs
    <3>2. n.exception \in {manager.exception, "ConnectionClosedException", STE}
      BY <3>1, ManagersAre DEF SM!SetState, SM!Refuse, SM!Enter
    <3>3. manager' = manager \/ manager' = n
      BY <2>1 DEF Disconnected
    <3> HIDE DEF n
    <3> QED BY <3>2, <3>3 DEF NeverCancelled, STE
  <2>2. CASE ~ Disconnected
    <3>1. CASE ReceiveConsumeOk
      BY <3>1, EntersPlain DEF ReceiveConsumeOk, NeverCancelled
    <3>8. CASE ReceiveCancelOk
      BY <3>8, EntersPlain DEF ReceiveCancelOk, NeverCancelled
    <3>2. CASE ReceiveGetEmpty \/ ReceiveHeader \/ ReceiveDeclareOk
      BY <3>2, EntersPlain DEF ReceiveGetEmpty, ReceiveHeader, ReceiveDeclareOk, NeverCancelled
    <3>3. CASE ReceiveMessage("Deliver", "BASIC_DELIVER_RECEIVED")
      BY <3>3, EntersPlain DEF ReceiveMessage, NeverCancelled
    <3>4. CASE ReceiveMessage("GetOk", "BASIC_GETOK_RECEIVED")
      BY <3>4, EntersPlain DEF ReceiveMessage, NeverCancelled
    <3>5. CASE ReceiveBody
      BY <3>5, EntersPlain DEF ReceiveBody, NeverCancelled
    <3>6. CASE ReceiveChannelClose
      BY <3>6, EntersPlain DEF ReceiveChannelClose, NeverCancelled
    <3>7. CASE ReceiveChannelOpenOk
      BY <3>7, EntersPlain DEF ReceiveChannelOpenOk, NeverCancelled
    <3> QED BY <1>1, <2>2, <3>1, <3>2, <3>3, <3>4, <3>5, <3>6, <3>7, <3>8 DEF Receive
  <2> QED BY <2>1, <2>2
<1> QED BY <1>2, <1>3, <1>4

\* While the socket holds nothing but what is asked for comes.
LEMMA NoneComes ==
    ASSUME IInv, Working \/ Broken
    PROVE  NoneCancels /\ broker.settled \subseteq app.settled
<1>1. inbox \in Seq(InFrame)
  BY InvIs
<1>2. CASE Broken
  BY <1>2 DEF Broken, NoneCancels
<1>3. ASSUME NEW n \in Nat, BeginsFirst(inbox, n),
             \A i \in DOMAIN inbox : i < n => inbox[i].type # "Cancel"
      PROVE  NoneCancels
  <2>1. "Cancel" \notin Content
    BY DEF Content
  <2>2. \A i \in DOMAIN inbox : i < n \/ i >= n
    BY <1>1
  <2> QED BY <1>3, <2>1, <2>2 DEF BeginsFirst, NoneCancels
<1>4. CASE Working
  <2>1. ASSUME Serving
        PROVE  NoneCancels
    <3>1. inbox = <<>> \/ BeginsFirst(inbox, 1)
      BY <2>1 DEF Serving, Stage, Empty, Coming, Taking, Stuck, Mailed, Got
    <3>2. \A i \in DOMAIN inbox : ~ i < 1
      BY <1>1
    <3> QED BY <1>3, <3>1, <3>2 DEF NoneCancels
  <2>2. ASSUME NEW t \in Task, Replied(t)
        PROVE  NoneCancels
    <3>1. task[t].call \in DOMAIN Request
      BY <2>2, CallIsRequest DEF Replied, Requests, Active
    <3>2. 1 \in DOMAIN inbox /\ \A i \in DOMAIN inbox : i < 2 => i = 1
      BY <1>1, <2>2 DEF Replied
    <3>3. inbox[1].type # "Cancel"
      BY <2>2, <3>1, AnswerIs DEF Replied
    <3>4. Len(inbox) = 1 \/ BeginsFirst(inbox, 2) \/ BeginsFirst(inbox, 1)
      BY <2>2 DEF Replied
    <3>5. CASE Len(inbox) = 1
      <4>1. \A i \in DOMAIN inbox : i = 1
        BY <1>1, <3>5
      <4> QED BY <3>3, <4>1 DEF NoneCancels
    <3>6. \A i \in DOMAIN inbox : ~ i < 1
      BY <1>1
    <3> QED BY <1>3, <3>2, <3>3, <3>4, <3>5, <3>6
  <2>3. ASSUME NEW t \in Task, Asks(t) \/ Refused(t) \/ ClosedOn(t) \/ Raises(t) \/ Reopens(t)
        PROVE  NoneCancels
    <3>1. \/ inbox = <<>> \/ inbox = <<[type |-> "Channel.Close"]>>
          \/ inbox = <<[type |-> "Channel.OpenOk"]>>
      BY <2>3 DEF Asks, Refused, ClosedOn, Raises, Reopens
    <3> QED BY <3>1 DEF NoneCancels
  <2> QED BY <1>4, <2>1, <2>2, <2>3 DEF Working, Books, Ledger, SettlesAreMeant
<1> QED BY <1>2, <1>4 DEF Broken

LEMMA SocketLostCareful ==
    ASSUME IInv, OneAtATime, NeverCancelled, Working \/ Broken, SocketLost
    PROVE  /\ OneAtATime' /\ NeverCancelled' /\ session'.transport = "lost"
           /\ NoneCancels' /\ outbox' = <<>> /\ broker'.settled \subseteq app'.settled
<1>1. /\ outbox' = <<>> /\ broker' = broker /\ app' = app /\ task' = task /\ manager' = manager
      /\ session' = [session EXCEPT !.transport = "lost"]
  BY DEF SocketLost
<1>2. session'.transport = "lost"
  BY <1>1, InvIs DEF Sessions
<1>3. NoneCancels'
  <2>1. PICK n \in 0..Len(inbox) :
           inbox' = Append(SubSeq(inbox, 1, n), [type |-> "Disconnected"])
    BY DEF SocketLost
  <2>2. NoneCancels /\ inbox \in Seq(InFrame)
    BY NoneComes, InvIs
  <2>3. \A i \in DOMAIN inbox' : \/ i \in DOMAIN inbox /\ inbox'[i] = inbox[i]
                                 \/ inbox'[i] = [type |-> "Disconnected"]
    BY <2>1, <2>2
  <2> QED BY <2>2, <2>3 DEF NoneCancels
<1> QED BY <1>1, <1>2, <1>3, NoneComes DEF OneAtATime, NeverCancelled

LEMMA InitCareful ==
    ASSUME Init
    PROVE  CarefulInv
<1>1. /\ \A t \in Task : /\ task[t].pc = "idle" /\ task[t].result = None
                         /\ task[t].call = None /\ task[t].left = workload.calls[t]
      /\ futures.pending = <<>> /\ futures.get = None /\ DOMAIN futures.done = {}
      /\ DOMAIN consumers = {} /\ message = None /\ inbox = <<>> /\ outbox = <<>>
      /\ session.channelOpen /\ session.lastError = None /\ ~ session.failed
      /\ session.transport = "open"
      /\ app.held = {} /\ app.fresh = None /\ app.settled = {} /\ DOMAIN app.mailbox = {}
  BY DEF Init
<1>2. /\ broker.phase = "open" /\ broker.channel = 1 /\ broker.consumers = {}
      /\ DOMAIN broker.unacked = {} /\ broker.sent = 0 /\ broker.settled = {}
  BY DEF Init
<1>3. /\ manager.state = "CHANNEL_OPENOK_RECEIVED" /\ manager.exception = None
      /\ Quiet(manager)
  BY DEF Init, SM!NewManager, Quiet
<1>4. None \notin {STE, "AttributeError", "RuntimeError"}
  BY ConsumersAssumption DEF Error
<1>5. OneAtATime /\ NeverCancelled
  BY <1>1, <1>3, <1>4 DEF OneAtATime, NeverCancelled, Busy
<1>6. Underway = {} /\ Filled
  BY <1>2 DEF Underway, Filled
<1>7. Books
  <2>1. BrokerCounts /\ HeldIsUnacked /\ SettlesAreMeant
    BY <1>1, <1>2 DEF BrokerCounts, HeldIsUnacked, SettlesAreMeant
  <2>2. OneUnderway /\ FreshIsLast
    BY <1>1, <1>6 DEF OneUnderway, FreshIsLast
  <2>3. TagsAreRegistered
    BY <1>1 DEF TagsAreRegistered, Busy
  <2> QED BY <2>1, <2>2, <2>3 DEF Books, Ledger
<1>8. Serving
  <2>1. Empty
    BY <1>1, <1>3, <1>6 DEF Empty, MailIsEmpty, NoneGot, Calm
  <2>2. /\ ChannelIsOpen /\ KnownToClient /\ NonePends /\ Settles(outbox) /\ NoneWaits
        /\ \A t \in Task : AtRest(t)
    BY <1>1, <1>2, <1>3 DEF ChannelIsOpen, KnownToClient, NonePends, Settles, NoneWaits, AtRest
  <2> QED BY <2>1, <2>2 DEF Serving, Stage
<1>9. Working
  BY <1>1, <1>3, <1>4, <1>7, <1>8 DEF Working
<1> QED BY <1>1, <1>5, <1>9 DEF CarefulInv

---------------------------------------------------------------------------
(* The theorems of a careful application *)

\* Where nothing changes.
LEMMA WorkingRests ==
    ASSUME UNCHANGED vars
    PROVE  /\ Working => Working'
           /\ Broken => Broken'
<1>1. /\ workload' = workload /\ manager' = manager /\ lock' = lock /\ task' = task
      /\ futures' = futures /\ consumers' = consumers /\ message' = message /\ last' = last
      /\ session' = session /\ app' = app /\ inbox' = inbox /\ outbox' = outbox
      /\ broker' = broker
  BY DEF vars
<1>2. Underway' = Underway /\ Filled' = Filled /\ (\A d : IsUnderway(d)' = IsUnderway(d))
  <2>1. (\A n : Kept(n)' = Kept(n)) /\ (\A n : Settling(n)' = Settling(n))
    BY <1>1 DEF Kept, Settling
  <2>2. Underway' = Underway
    BY <1>1, <2>1 DEF Underway
  <2> QED BY <1>1, <2>2 DEF Filled, IsUnderway
<1>3. \A t : Call(t)' = Call(t)
  BY <1>1 DEF Call
<1>4. /\ MailIsEmpty' = MailIsEmpty /\ NoneGot' = NoneGot
      /\ (\A d : ForItsGet(d)' = ForItsGet(d)) /\ Collecting' = Collecting
  BY <1>1, <1>3 DEF MailIsEmpty, NoneGot, Gets, ForItsGet, Collecting
<1>5. Stage => Stage'
  <2>1. (Empty => Empty') /\ (Coming => Coming')
    BY <1>1, <1>2, <1>4 DEF Empty, Coming
  <2>2. (Taking => Taking') /\ (Stuck => Stuck')
    BY <1>1, <1>2, <1>4 DEF Taking, Stuck
  <2>3. (Mailed => Mailed') /\ (Got => Got')
    BY <1>1, <1>2, <1>3, <1>4 DEF Mailed, Got, Gets
  <2> QED BY <2>1, <2>2, <2>3 DEF Stage
<1>6. Books => Books'
  <2>1. (BrokerCounts => BrokerCounts') /\ (SettlesAreMeant => SettlesAreMeant')
    BY <1>1 DEF BrokerCounts, SettlesAreMeant
  <2>2. HeldIsUnacked => HeldIsUnacked'
    BY <1>1 DEF HeldIsUnacked, Settling
  <2>3. (OneUnderway => OneUnderway') /\ (FreshIsLast => FreshIsLast')
    BY <1>1, <1>2 DEF OneUnderway, FreshIsLast
  <2>4. TagsAreRegistered => TagsAreRegistered'
    BY <1>1, <1>3 DEF TagsAreRegistered
  <2> QED BY <2>1, <2>2, <2>3, <2>4 DEF Books, Ledger
<1>7. /\ NoneWaits' = NoneWaits /\ (\A t, s : Heard(t, s)' = Heard(t, s))
      /\ NonePends' = NonePends /\ ChannelIsOpen' = ChannelIsOpen
      /\ KnownToClient' = KnownToClient /\ Closes' = Closes
  BY <1>1, <1>4 DEF NoneWaits, Heard, NonePends, ConsumesAreGranted, ChannelIsOpen,
     KnownToClient, Closes
<1>8. \A t : Requests(t) => Requests(t)'
  BY <1>1, <1>3, <1>4, <1>7 DEF Requests, Unheard, Ready, OnePends, ConsumesAreGranted
<1>9. \A t, frame : IsAnswer(t, frame) => IsAnswer(t, frame)'
  BY <1>1, <1>2, <1>3 DEF IsAnswer, Consumes
<1>10. Serving => Serving'
  <2>1. \A t : HasHeard(t) => HasHeard(t)'
    BY <1>1, <1>2, <1>4, <1>7 DEF HasHeard, Empty
  <2> QED BY <1>1, <1>5, <1>7, <2>1 DEF Serving, AtRest
<1>11. \A t : Asks(t) => Asks(t)'
  BY <1>1, <1>2, <1>3, <1>7, <1>8 DEF Asks, NewTo, CallFrame
<1>12. \A t : Replied(t) => Replied(t)'
  BY <1>1, <1>2, <1>3, <1>7, <1>8, <1>9 DEF Replied
<1>13. \A t : (Refused(t) => Refused(t)') /\ (ClosedOn(t) => ClosedOn(t)')
  BY <1>1, <1>7, <1>8 DEF Refused, ClosedOn
<1>14. \A t : (Reopens(t) => Reopens(t)') /\ (Raises(t) => Raises(t)')
  BY <1>1, <1>4, <1>7 DEF Reopens, Raises
<1>15. Working => Working'
  BY <1>1, <1>6, <1>10, <1>11, <1>12, <1>13, <1>14 DEF Working
<1>16. Broken => Broken'
  BY <1>1, <1>4 DEF Broken
<1> QED BY <1>15, <1>16

LEMMA StepKeepsCareful ==
    ASSUME IInv, CarefulInv, [Next]_vars
    PROVE  CarefulInv'
<1>1. CASE UNCHANGED vars
  <2>1. /\ workload' = workload /\ session' = session /\ outbox' = outbox /\ broker' = broker
        /\ app' = app /\ task' = task /\ manager' = manager /\ inbox' = inbox
    BY <1>1 DEF vars
  <2>2. OneAtATime' = OneAtATime /\ NeverCancelled' = NeverCancelled
        /\ NoneCancels' = NoneCancels
    BY <2>1 DEF OneAtATime, NeverCancelled, NoneCancels
  <2> QED BY <1>1, <2>1, <2>2, WorkingRests DEF CarefulInv
<1>2. CASE Next
  <2>1. workload' = workload
    BY <1>2 DEF Next, Application, Proceeds, FramesUnchanged, Receive, Broker, ClientUnchanged,
       SocketLost
  <2> SUFFICES ASSUME workload.careful
               PROVE  CarefulInv'
    BY <2>1 DEF CarefulInv
  <2>2. /\ OneAtATime /\ NeverCancelled
        /\ session.transport = "open" => Working \/ Broken
        /\ session.transport = "lost" =>
              NoneCancels /\ outbox = <<>> /\ broker.settled \subseteq app.settled
        /\ session.transport \in {"open", "lost"}
    BY InvIs DEF CarefulInv, Sessions
  <2>3. None # "RuntimeError"
    BY ConsumersAssumption DEF Error
  <2>4. CASE ClientSteps
    <3>1. OneAtATime' /\ NeverCancelled' /\ inbox' = inbox /\ broker' = broker
      BY <2>2, <2>4, ClientOne DEF OneCall, NeverCancelled, FramesUnchanged
    <3>2. Dropped
      BY <2>2, <2>4, ClientDrops
    <3>3. CASE session.transport = "open"
      <4>1. ASSUME Working
            PROVE  Working'
        BY <2>2, <2>4, <3>3, <4>1, ApplicationCareful, RunReadyCareful, ProceedsCareful
           DEF ClientSteps
      <4>2. ASSUME Broken
            PROVE  Broken'
        BY <2>2, <2>4, <3>3, <4>2, BrokenStays DEF ClientSteps
      <4> QED BY <2>1, <2>2, <3>1, <3>2, <3>3, <4>1, <4>2 DEF CarefulInv, Dropped
    <3>4. CASE session.transport = "lost"
      BY <2>1, <2>2, <3>1, <3>2, <3>4 DEF CarefulInv, Dropped, KeepsSettled, NoneCancels
    <3> QED BY <2>2, <3>3, <3>4
  <2>5. CASE Receive
    <3>1. Dropped /\ broker' = broker
      BY <2>5, ReceiveDrops DEF Receive
    <3>2. CASE session.transport = "open"
      <4>1. ~ Broken
        BY <2>5 DEF Broken, Receive, ReceiveConsumeOk, ReceiveCancelOk, ReceiveGetEmpty,
           ReceiveMessage, ReceiveHeader, ReceiveBody, ReceiveDeclareOk, ReceiveCancel,
           ReceiveChannelClose, ReceiveChannelOpenOk, Disconnected, Takes
      <4>2. (Working' \/ Broken') /\ OneAtATime' /\ NeverCancelled'
        BY <2>2, <2>5, <3>2, <4>1, ReceiveCareful DEF NeverCancelled
      <4> QED BY <3>1, <3>2, <4>2 DEF CarefulInv, Dropped
    <3>3. CASE session.transport = "lost"
      <4>1. OneAtATime' /\ NeverCancelled' /\ NoneCancels'
        BY <2>2, <2>5, <3>3, ReceiveAlone
      <4> QED BY <2>2, <3>1, <3>3, <4>1 DEF CarefulInv, Dropped, KeepsSettled
    <3> QED BY <2>2, <3>2, <3>3
  <2>6. CASE Broker
    <3>1. ClientUnchanged
      BY <2>6 DEF Broker
    <3>2. CASE session.transport = "open"
      <4>1. (Working' \/ Broken') /\ OneAtATime' /\ manager' = manager
        BY <2>2, <2>6, <3>2, BrokerCareful
      <4> QED BY <2>2, <3>1, <3>2, <4>1 DEF CarefulInv, NeverCancelled, ClientUnchanged
    <3>3. CASE session.transport = "lost"
      <4>1. FALSE
        BY <2>2, <2>6, <3>3 DEF Broker, BrokerReads, BrokerDeliversToConsumer, BrokerCancels
      <4> QED BY <4>1
    <3> QED BY <2>2, <3>2, <3>3
  <2>7. CASE SocketLost
    <3>1. session.transport = "open"
      BY <2>7 DEF SocketLost
    <3> QED BY <2>2, <2>7, <3>1, SocketLostCareful DEF CarefulInv
  <2> QED BY <1>2, <2>4, <2>5, <2>6, <2>7 DEF Next, ClientSteps
<1> QED BY <1>1, <1>2

\* A careful application makes one call at a time, and while the socket holds the client,
\* what is under way in either direction and the broker agree, or a refused basic_cancel
\* has ended the client.
THEOREM CarefulInvariance == Spec => []CarefulInv
BY ConsumersInvariance, InitCareful, StepKeepsCareful, PTL DEF Spec

\* A careful application is served, whatever its calls and whatever the broker refuses,
\* but a basic_cancel, whose state does not allow the Channel.Close.  (_on_frame,
\* _send_rpc, CLIENT_STATE_TRANSITIONS)
THEOREM CarefulClientIsServed ==
    Spec => []("basic_cancel" \in workload.refusals \/ CarefulIsServed)
<1>1. CarefulInv => ("basic_cancel" \in workload.refusals \/ CarefulIsServed)
  BY DEF CarefulInv, CarefulIsServed, Working, Broken
<1> QED BY <1>1, CarefulInvariance, PTL

\* What a careful application has not settled the broker has not forgotten, however the
\* channel closes and whether or not the socket holds.  (basic_ack, basic_nack,
\* basic_reject)
THEOREM SettledAsMeant == Spec => []SettledIsMeant
<1>1. IInv /\ CarefulInv => SettledIsMeant
  <2> SUFFICES ASSUME IInv, CarefulInv, workload.careful
               PROVE  broker.settled \subseteq app.settled
    BY DEF SettledIsMeant
  <2>1. session.transport \in {"open", "lost"}
    BY InvIs DEF Sessions
  <2> QED BY <2>1, NoneComes DEF CarefulInv
<1> QED BY <1>1, ConsumersInvariance, CarefulInvariance, PTL

---------------------------------------------------------------------------
(* What a careful application is handed *)

LEMMA HandAddressed ==
    ASSUME NEW a, AppTyped(a), AppAddressed(a), NEW to \in Calls, NEW msg \in Message,
           ToAddressee(msg.delivery, to)
    PROVE  AppAddressed(Hand(a, to, msg))
<1> DEFINE b == Hand(a, to, msg)
           h == [to |-> to, message |-> msg]
<1>1. b.mailbox = a.mailbox /\ b.handed = a.handed \cup {h}
  BY HandIs
<1>2. h.to = to /\ h.message = msg
  OBVIOUS
<1> HIDE DEF b, h
<1> QED BY <1>1, <1>2 DEF AppAddressed, b

LEMMA MailAddressed ==
    ASSUME NEW a, AppAddressed(a), NEW c, NEW q,
           \A i \in DOMAIN q : MayMail(q[i].delivery, c),
           NEW b, b.handed = a.handed, b.mailbox = With(a.mailbox, c, q)
    PROVE  AppAddressed(b)
<1>1. /\ DOMAIN b.mailbox = DOMAIN a.mailbox \cup {c} /\ b.mailbox[c] = q
      /\ \A x \in DOMAIN a.mailbox \ {c} : b.mailbox[x] = a.mailbox[x]
  BY DEF With
<1> QED BY <1>1 DEF AppAddressed

LEMMA MailJoinsAddressed ==
    ASSUME NEW a, AppTyped(a), AppAddressed(a), NEW c \in Calls, NEW msg \in Message,
           MayMail(msg.delivery, c), NEW q,
           q = IF c \in DOMAIN a.mailbox THEN a.mailbox[c] ELSE <<>>,
           NEW b, b = [a EXCEPT !.mailbox = With(@, c, Append(q, msg))]
    PROVE  AppAddressed(b)
<1> DEFINE all == Append(q, msg)
<1>1. q \in Seq(Message) /\ all \in Seq(Message) /\ all = q \o <<msg>>
  BY AppIs
<1>2. \A i \in DOMAIN q : MayMail(q[i].delivery, c)
  BY DEF AppAddressed
<1>3. \A i \in DOMAIN all : MayMail(all[i].delivery, c)
  BY <1>1, <1>2, OneMoreIs
<1> DEFINE box == With(a.mailbox, c, all)
<1>4. b = [a EXCEPT !.mailbox = box]
  OBVIOUS
<1> HIDE DEF all, box
<1>5. b.handed = a.handed /\ b.mailbox = box
  <2>1. a = AppOf(a.held, a.fresh, a.handed, a.settled, a.mailbox)
    BY AppIs
  <2>2. b = AppOf(a.held, a.fresh, a.handed, a.settled, box)
    BY <1>4, <2>1 DEF AppOf
  <2> QED BY <2>2 DEF AppOf
<1> QED BY <1>3, <1>5, MailAddressed DEF box

LEMMA TakeNextAddressed ==
    ASSUME IInv, AppAddressed(app), NEW t \in Task, TakeNext(t)
    PROVE  AppAddressed(app')
<1> DEFINE c == Call(t)
           q == app.mailbox[c]
           rest == Tail(q)
           b == Hand(app, c, Head(q))
<1>1. MailOf(c) # <<>> /\ app' = [Hand(app, c, Head(MailOf(c))) EXCEPT
                                      !.mailbox = With(@, c, Tail(MailOf(c)))]
  BY DEF TakeNext
<1>2. c \in DOMAIN app.mailbox /\ q # <<>> /\ MailOf(c) = q
  BY <1>1 DEF MailOf
<1>3. app' = [b EXCEPT !.mailbox = With(@, c, rest)]
  BY <1>1, <1>2
<1>4. c \in Calls
  BY InvIs, CallIs DEF Call
<1>5. q \in Seq(Message)
  BY <1>2, InvIs, AppIs
<1>6. Head(q) \in Message /\ rest \in Seq(Message)
  BY <1>2, <1>5, TailElements
<1>7. AppTyped(b) /\ b.mailbox = app.mailbox
  BY <1>4, <1>6, InvIs, HandIs
<1>8. /\ \A i \in DOMAIN q : MayMail(q[i].delivery, c)
      /\ 1 \in DOMAIN q /\ Head(q) = q[1]
      /\ \A i \in DOMAIN rest : i + 1 \in DOMAIN q /\ rest[i] = q[i + 1]
  <2>1. \A i \in DOMAIN q : MayMail(q[i].delivery, c)
    BY <1>2 DEF AppAddressed
  <2> HIDE DEF q
  <2> QED BY <1>2, <1>5, <2>1, TailIs
<1> HIDE DEF c, q, rest, b
<1>9. app'.handed = b.handed /\ app'.mailbox = With(app.mailbox, c, rest)
  BY <1>3, <1>4, <1>6, <1>7, MailboxIs
<1>10. AppAddressed(b)
  BY <1>4, <1>6, <1>8, InvIs, HandAddressed DEF b, MayMail
<1>11. \A i \in DOMAIN rest : MayMail(rest[i].delivery, c)
  BY <1>8
<1> QED BY <1>7, <1>9, <1>10, <1>11, MailAddressed

\* The refusals of the broker are what they were.
LEMMA AddressedNext ==
    ASSUME workload' = workload, AppAddressed(app'), GetsAddressed(futures'.done)
    PROVE  AllAddressed'
BY DEF AllAddressed, AppAddressed, GetsAddressed, MayMail, ToAddressee, ConsumesAreGranted

\* The message that is collected is still awaited.
LEMMA AwaitedNext ==
    ASSUME NEW d, IsAwaited(d), \A u \in Task : AwaitedBy(u, d) => AwaitedBy(u, d)',
           \A i \in DOMAIN inbox' : \E j \in DOMAIN inbox : inbox'[i] = inbox[j]
    PROVE  IsAwaited(d)'
BY DEF IsAwaited

LEMMA ClientAddressed ==
    ASSUME IInv, workload.careful, OneAtATime, NeverCancelled, CallbacksAreOwn, AllAddressed,
           ComeToTheirCalls, ClientSteps
    PROVE  CallbacksAreOwn' /\ AllAddressed' /\ ComeToTheirCalls'
<1>1. /\ OneCall /\ FramesUnchanged
      /\ Untold \/ \E t \in Task : TakeNext(t) \/ TakesResult(t)
  BY ClientOne
<1>2. /\ workload' = workload /\ consumers' = consumers /\ message' = message
      /\ inbox' = inbox
  BY <1>1 DEF FramesUnchanged
<1>3. futures'.done = futures.done /\ MorePends /\ StillAwaited
  BY <1>1 DEF OneCall
<1>4. CallbacksAreOwn'
  BY <1>2 DEF CallbacksAreOwn, ConsumesAreGranted
<1>5. AppAddressed(app')
  <2>1. AppAddressed(app) /\ AppTyped(app)
    BY InvIs DEF AllAddressed
  <2>2. CASE Untold
    BY <2>1, <2>2 DEF Untold, AppAddressed
  <2>3. ASSUME NEW t \in Task, TakesResult(t)
        PROVE  AppAddressed(app')
    <3> DEFINE msg == futures.done[Call(t)].message
    <3>1. /\ Call(t) \in DOMAIN futures.done /\ futures.done[Call(t)] \in GetResults
          /\ msg # None /\ app' = Hand(app, Call(t), msg)
      BY <2>3 DEF TakesResult
    <3>2. msg \in Message /\ DOMAIN futures.done[Call(t)] = {"message"}
      BY <3>1 DEF GetResults
    <3>3. msg.delivery.get /\ msg.delivery.for = Call(t)
      BY <3>1, <3>2 DEF AllAddressed, GetsAddressed
    <3>4. Call(t) \in Calls
      BY InvIs, CallIs DEF Call
    <3>5. ToAddressee(msg.delivery, Call(t))
      BY <3>3 DEF ToAddressee
    <3> HIDE DEF msg
    <3> QED BY <2>1, <3>1, <3>2, <3>4, <3>5, HandAddressed
  <2> QED BY <1>1, <2>1, <2>2, <2>3, TakeNextAddressed
<1>6. AllAddressed'
  BY <1>2, <1>3, <1>5, AddressedNext DEF AllAddressed
<1>7. ASSUME NEW d, IsAwaited(d)
      PROVE  IsAwaited(d)'
  BY <1>2, <1>3, <1>7, AwaitedNext DEF StillAwaited
<1>8. GetsComeToTheirCalls'
  <2>1. \A i \in DOMAIN inbox' : inbox'[i].type = "GetOk"
           => i = 1 /\ IsAwaited(inbox[i].delivery)
    BY <1>2 DEF ComeToTheirCalls, GetsComeToTheirCalls
  <2>2. Collecting' /\ message'.delivery.get => IsAwaited(message.delivery)
    BY <1>2 DEF ComeToTheirCalls, GetsComeToTheirCalls, Collecting
  <2>3. \A i \in DOMAIN inbox' : Begins(inbox'[i])
           => (inbox'[i].delivery.get <=> inbox'[i].type = "GetOk")
    BY <1>2 DEF ComeToTheirCalls, GetsComeToTheirCalls
  <2>4. PICK d : d = message.delivery
    OBVIOUS
  <2>5. Collecting' /\ message'.delivery.get => IsAwaited(message.delivery)'
    <3>1. IsAwaited(d) => IsAwaited(d)'
      BY <1>7
    <3> QED BY <1>2, <2>2, <2>4, <3>1 DEF IsAwaited, AwaitedBy
  <2>6. ASSUME NEW i \in DOMAIN inbox', inbox'[i].type = "GetOk"
        PROVE  i = 1 /\ IsAwaited(inbox[i].delivery)'
    <3>1. PICK e : e = inbox[i].delivery
      OBVIOUS
    <3>2. IsAwaited(e)'
      BY <1>7, <2>1, <2>6, <3>1
    <3> QED BY <1>2, <2>1, <2>6, <3>1, <3>2 DEF IsAwaited, AwaitedBy
  <2> QED BY <2>3, <2>5, <2>6 DEF GetsComeToTheirCalls
<1>9. ConsumesComeToTheirCalls'
  <2>1. FuturesTyped(futures)
    BY InvIs DEF CallsOwn
  <2>2. futures.pending \in Seq(Awaiting)
    BY <2>1, FutureIs
  <2>3. futures.pending # <<>> => futures'.pending # <<>>
                                  /\ futures'.pending[1] = futures.pending[1]
    BY <1>3, <2>2 DEF MorePends
  <2> QED BY <1>2, <2>3 DEF ComeToTheirCalls, ConsumesComeToTheirCalls, ConsumesAreGranted
<1> QED BY <1>4, <1>6, <1>8, <1>9 DEF ComeToTheirCalls

---------------------------------------------------------------------------
(* What is under way while the socket holds *)

\* A message that is collected has its next part before it.
LEMMA CollectingIsTaken ==
    ASSUME IInv, Working, session.transport = "open", Collecting
    PROVE  Serving /\ Taking
<1>1. inbox \in Seq(InFrame) /\ ~ session.failed
  BY InvIs DEF Working
<1>2. InOrder(workload, message, inbox, TRUE)
  BY <1>1 DEF IInv, ContentOK
<1>3. inbox # <<>>
  <2> SUFFICES ASSUME inbox = <<>>
               PROVE  FALSE
    OBVIOUS
  <2>1. Len(inbox) + 1 = 1
    OBVIOUS
  <2> QED BY <1>2, <2>1 DEF InOrder, Before, Collecting
<1>4. Follows(workload, LastTaken(message), Head(inbox))
  <2>1. 1 \in DOMAIN inbox /\ Head(inbox) = inbox[1]
    BY <1>1, <1>3
  <2> QED BY <1>2, <2>1 DEF InOrder, Before
<1>5. Head(inbox).type \in {"Header", "Body"}
  <2>1. Head(inbox) = Successor(LastTaken(message))
    BY <1>4 DEF Follows, Collecting
  <2> QED BY <2>1 DEF Successor, HeaderOf, PartOf
<1> QED BY <1>3, <1>5, HeadIs

\* No event of Channel.Close is set while no request is refused.
LEMMA ServingIsOpen ==
    ASSUME IInv, Serving, NEW t \in Task
    PROVE  ~ ClosingIn(manager, t)
<1>1. CASE NoneWaits
  BY <1>1 DEF NoneWaits, Quiet, ClosingIn
<1>2. ASSUME NEW u \in Task, HasHeard(u)
      PROVE  ~ ClosingIn(manager, t)
  <2>1. PICK s \in Answers(task[u].call) : Heard(u, s)
    BY <1>2 DEF HasHeard
  <2>2. \/ manager.ready = <<{<<s, u>>}>> /\ manager.fired = {}
        \/ manager.ready = <<>> /\ manager.fired = {<<s, u>>}
    BY <2>1 DEF Heard, Hears
  <2>3. s # "CHANNEL_CLOSE_RECEIVED"
    <3>1. task[u].call \in DOMAIN Request
      BY <1>2, CallIsRequest DEF HasHeard, Active
    <3> QED BY <2>1, <3>1 DEF Answers, Consumes, Request
  <2>4. <<s, u>> # <<"CHANNEL_CLOSE_RECEIVED", t>>
    BY <2>3
  <2>5. CASE manager.ready = <<{<<s, u>>}>> /\ manager.fired = {}
    <3>1. \A i \in DOMAIN manager.ready : manager.ready[i] = {<<s, u>>}
      BY <2>5
    <3> QED BY <2>4, <2>5, <3>1 DEF ClosingIn
  <2>6. CASE manager.ready = <<>> /\ manager.fired = {<<s, u>>}
    BY <2>4, <2>6 DEF ClosingIn
  <2> QED BY <2>2, <2>5, <2>6
<1> QED BY <1>1, <1>2 DEF Serving

LEMMA ForItsGetIsAwaited ==
    ASSUME IInv, Serving, NEW d, d.get, ForItsGet(d),
           \A i \in DOMAIN inbox : inbox[i].type # "Channel.Close"
    PROVE  IsAwaited(d)
BY ServingIsOpen DEF ForItsGet, Gets, IsAwaited, AwaitedBy

\* Content only, from the frame n on.
LEMMA ContentComes ==
    ASSUME NEW n \in Nat, BeginsFirst(inbox, n), inbox \in Seq(InFrame)
    PROVE  \A i \in DOMAIN inbox : i >= n =>
              /\ inbox[i].type \notin {"Channel.Close", "ConsumeOk"}
              /\ Begins(inbox[i]) \/ inbox[i].type = "GetOk" => i = n
BY DEF BeginsFirst, Content, Begins

\* What the inbox has of what somebody waits for.
InboxComes ==
    /\ \A i \in DOMAIN inbox : inbox[i].type = "GetOk" => i = 1 /\ IsAwaited(inbox[i].delivery)
    /\ \A i \in DOMAIN inbox : Begins(inbox[i])
           => (inbox[i].delivery.get <=> inbox[i].type = "GetOk")
    /\ ConsumesComeToTheirCalls

LEMMA ServingComes ==
    ASSUME IInv, Working, Serving, session.transport = "open"
    PROVE  InboxComes
<1>1. inbox \in Seq(InFrame) /\ ~ session.failed
  BY InvIs DEF Working
<1>2. CASE inbox = <<>>
  BY <1>2 DEF InboxComes, ConsumesComeToTheirCalls
<1>3. CASE inbox # <<>> /\ (Coming \/ Taking)
  <2>1. BeginsFirst(inbox, 1)
    BY <1>3 DEF Coming, Taking
  <2>2. \A i \in DOMAIN inbox : i >= 1
    BY <1>1
  <2>3. \A i \in DOMAIN inbox : /\ inbox[i].type # "ConsumeOk"
                                /\ Begins(inbox[i]) \/ inbox[i].type = "GetOk" => i = 1
    BY <1>1, <2>1, <2>2, ContentComes
  <2>4. CASE Coming
    BY <2>3, <2>4 DEF Coming, InboxComes, ConsumesComeToTheirCalls
  <2>5. CASE Taking
    <3>1. inbox[1].type \in {"Header", "Body"}
      BY <1>1, <1>3, <2>5, TakingHead
    <3>2. \A i \in DOMAIN inbox : ~ Begins(inbox[i]) /\ inbox[i].type # "GetOk"
      BY <2>3, <3>1 DEF Begins
    <3> QED BY <2>3, <3>2 DEF InboxComes, ConsumesComeToTheirCalls
  <2> QED BY <1>3, <2>4, <2>5
<1>4. inbox = <<>> \/ Coming \/ Taking
  BY DEF Serving, Stage, Empty, Stuck, Mailed, Got
<1> QED BY <1>2, <1>3, <1>4

LEMMA RepliedComes ==
    ASSUME IInv, NEW t \in Task, Replied(t)
    PROVE  InboxComes
<1> DEFINE m == task[t].call
<1>1. inbox \in Seq(InFrame) /\ inbox # <<>> /\ 1 \in DOMAIN inbox
  BY InvIs DEF Replied
<1>2. /\ task[t].pc = "waiting" /\ m \in DOMAIN Request /\ IsAnswer(t, inbox[1])
  BY CallIsRequest DEF Replied, Requests, Active
<1>3. \A i \in DOMAIN inbox : i = 1 \/ i >= 2
  BY <1>1
<1>4. CASE Consumes(m)
  <2>1. inbox[1] = [type |-> "ConsumeOk", tag |-> Call(t)]
    <3>1. PICK frame : frame = inbox[1]
      OBVIOUS
    <3>2. IsAnswer(t, frame)
      BY <1>2, <3>1
    <3>3. frame = [type |-> "ConsumeOk", tag |-> Call(t)]
      BY <1>4, <3>2 DEF IsAnswer, Consumes
    <3> QED BY <3>1, <3>3
  <2>2. \A i \in DOMAIN inbox : i >= 2 =>
           /\ inbox[i].type \notin {"ConsumeOk", "GetOk"}
           /\ Begins(inbox[i]) => ~ inbox[i].delivery.get
    <3>1. CASE Len(inbox) = 1
      <4>1. \A i \in DOMAIN inbox : ~ i >= 2
        BY <1>1, <3>1
      <4> QED BY <4>1
    <3>2. CASE BeginsFirst(inbox, 2) /\ inbox[2].type = "Deliver" /\ ~ inbox[2].delivery.get
      <4>1. \A i \in DOMAIN inbox : i >= 2 =>
               /\ inbox[i].type # "ConsumeOk"
               /\ Begins(inbox[i]) \/ inbox[i].type = "GetOk" => i = 2
        BY <1>1, <3>2, ContentComes
      <4> QED BY <3>2, <4>1
    <3> QED BY <1>4, <3>1, <3>2 DEF Replied
  <2>3. ConsumesAreGranted => futures.pending # <<>> /\ futures.pending[1].call = Call(t)
    <3> SUFFICES ASSUME ConsumesAreGranted
                 PROVE  futures.pending # <<>> /\ futures.pending[1].call = Call(t)
      OBVIOUS
    <3>1. FuturesTyped(futures)
      BY InvIs DEF CallsOwn
    <3>2. futures.pending \in Seq(Awaiting)
      BY <3>1, FutureIs
    <3>3. /\ Len(futures.pending) = 1
          /\ \E i \in DOMAIN futures.pending : futures.pending[i].call = Call(t)
      BY <1>4 DEF Replied, Requests, OnePends
    <3> QED BY <3>2, <3>3
  <2> QED BY <1>3, <2>1, <2>2, <2>3 DEF InboxComes, ConsumesComeToTheirCalls, Begins
<1>5. CASE ~ Consumes(m) /\ inbox[1].type # "GetOk"
  <2>1. Len(inbox) = 1
    BY <1>5 DEF Replied
  <2>2. \A i \in DOMAIN inbox : i = 1
    BY <1>1, <2>1
  <2>3. inbox[1].type \notin {"ConsumeOk", "GetOk", "Deliver"}
    BY <1>2, <1>5, AnswerIs
  <2> QED BY <2>2, <2>3 DEF InboxComes, ConsumesComeToTheirCalls, Begins
<1>6. CASE ~ Consumes(m) /\ inbox[1].type = "GetOk"
  <2> DEFINE d == inbox[1].delivery
  <2>1. m = "basic_get" /\ d.get /\ d.for = Call(t)
    BY <1>2, <1>6, AnswerIs
  <2>2. \A i \in DOMAIN inbox :
           /\ inbox[i].type \notin {"Channel.Close", "ConsumeOk"}
           /\ Begins(inbox[i]) \/ inbox[i].type = "GetOk" => i = 1
    <3>1. BeginsFirst(inbox, 1)
      BY <1>6 DEF Replied
    <3>2. \A i \in DOMAIN inbox : i >= 1
      BY <1>1
    <3> QED BY <1>1, <3>1, <3>2, ContentComes
  <2>3. futures.get = Call(t) /\ Call(t) \notin DOMAIN futures.done
    BY <2>1 DEF Replied, Requests, Ready
  <2>4. ~ ClosingIn(manager, t)
    BY DEF Replied, Requests, Unheard, Listens, ClosingIn
  <2>5. AwaitedBy(t, d)
    BY <1>2, <2>1, <2>3, <2>4 DEF AwaitedBy
  <2>6. IsAwaited(d)
    BY <2>2, <2>5 DEF IsAwaited
  <2> QED BY <1>6, <2>1, <2>2, <2>6 DEF InboxComes, ConsumesComeToTheirCalls
<1> QED BY <1>4, <1>5, <1>6

LEMMA WorkingAddresses ==
    ASSUME IInv, Working, session.transport = "open"
    PROVE  ComeToTheirCalls
<1>1. InboxComes
  <2>1. ASSUME NEW t \in Task, Asks(t) \/ Refused(t) \/ ClosedOn(t) \/ Raises(t) \/ Reopens(t)
        PROVE  InboxComes
    <3>1. \/ inbox = <<>> \/ inbox = <<[type |-> "Channel.Close"]>>
          \/ inbox = <<[type |-> "Channel.OpenOk"]>>
      BY <2>1 DEF Asks, Refused, ClosedOn, Raises, Reopens
    <3>2. \A i \in DOMAIN inbox : inbox[i].type \notin {"GetOk", "Deliver", "ConsumeOk"}
      BY <3>1
    <3> QED BY <3>2 DEF InboxComes, ConsumesComeToTheirCalls, Begins
  <2> QED BY <2>1, ServingComes, RepliedComes DEF Working
<1>2. ASSUME Collecting, message.delivery.get
      PROVE  IsAwaited(message.delivery)
  <2>1. Serving /\ Taking
    BY <1>2, CollectingIsTaken
  <2>2. \A i \in DOMAIN inbox : inbox[i].type # "Channel.Close"
    <3>1. inbox \in Seq(InFrame)
      BY InvIs
    <3>2. \A i \in DOMAIN inbox : i >= 1
      BY <3>1
    <3> QED BY <2>1, <3>1, <3>2, ContentComes DEF Taking
  <2>3. ForItsGet(message.delivery)
    BY <2>1 DEF Taking
  <2> QED BY <1>2, <2>1, <2>2, <2>3, ForItsGetIsAwaited
<1> QED BY <1>1, <1>2 DEF InboxComes, ComeToTheirCalls, GetsComeToTheirCalls

---------------------------------------------------------------------------
(* What comes to a careful application *)

\* Nothing but the next part, or the end of the connection, comes to what is collected.
LEMMA CollectingHead ==
    ASSUME IInv, ~ session.failed, Collecting, inbox # <<>>
    PROVE  Head(inbox).type \in {"Header", "Body", "Disconnected"}
<1> DEFINE open == session.transport = "open"
<1>1. inbox \in Seq(InFrame)
  BY InvIs
<1>2. InOrder(workload, message, inbox, open)
  BY DEF IInv, ContentOK
<1> HIDE DEF open
<1>3. CASE Head(inbox).type # "Disconnected"
  <2>1. Follows(workload, LastTaken(message), Head(inbox))
    BY <1>1, <1>2, <1>3, FirstFollows
  <2>2. Head(inbox) = Successor(LastTaken(message))
    BY <2>1 DEF Follows, Collecting
  <2> QED BY <2>2 DEF Successor, HeaderOf, PartOf
<1> QED BY <1>3

\* The frames behind the one that is taken.
LEMMA RestComes ==
    ASSUME IInv, ComeToTheirCalls, NEW type, Takes(type)
    PROVE  /\ \A i \in DOMAIN inbox' :
                 /\ inbox'[i].type # "GetOk"
                 /\ ConsumesAreGranted => inbox'[i].type # "ConsumeOk"
                 /\ Begins(inbox'[i]) => (inbox'[i].delivery.get <=> inbox'[i].type = "GetOk")
           /\ \A i \in DOMAIN inbox' : \E j \in DOMAIN inbox : inbox'[i] = inbox[j]
           /\ 1 \in DOMAIN inbox /\ Head(inbox) = inbox[1] /\ inbox[1].type = type
<1>1. inbox \in Seq(InFrame) /\ inbox # <<>> /\ inbox' = Tail(inbox) /\ Head(inbox).type = type
  BY InvIs, TakesIs
<1>2. /\ 1 \in DOMAIN inbox /\ Head(inbox) = inbox[1]
      /\ \A i \in DOMAIN Tail(inbox) : /\ i + 1 \in DOMAIN inbox /\ i + 1 # 1
                                       /\ Tail(inbox)[i] = inbox[i + 1]
  BY <1>1
<1> QED BY <1>1, <1>2 DEF ComeToTheirCalls, GetsComeToTheirCalls, ConsumesComeToTheirCalls

\* The message that is collected then is still awaited.
LEMMA ComesOn ==
    ASSUME IInv, ComeToTheirCalls, NEW type, Takes(type), workload' = workload,
           Collecting' /\ message'.delivery.get =>
               /\ IsAwaited(message'.delivery)
               /\ task' = task /\ futures'.get = futures.get /\ futures'.done = futures.done
               /\ \A u \in Task : ClosingIn(manager', u) => ClosingIn(manager, u)
    PROVE  ComeToTheirCalls'
<1>1. ConsumesComeToTheirCalls'
  BY RestComes DEF ConsumesComeToTheirCalls, ConsumesAreGranted
<1>2. ASSUME Collecting', message'.delivery.get
      PROVE  IsAwaited(message.delivery)'
  <2>1. PICK d : d = message'.delivery
    OBVIOUS
  <2>2. IsAwaited(d)
    BY <1>2, <2>1
  <2>3. \A u \in Task : AwaitedBy(u, d) => AwaitedBy(u, d)'
    BY <1>2, AwaitedIs DEF AwaitedBy
  <2>4. IsAwaited(d)'
    BY <2>2, <2>3, AwaitedNext, RestComes
  <2> QED BY <2>1, <2>4 DEF IsAwaited, AwaitedBy
<1>3. GetsComeToTheirCalls'
  BY <1>2, RestComes DEF GetsComeToTheirCalls
<1> QED BY <1>1, <1>3 DEF ComeToTheirCalls

\* The state that the frames of a message enter.
LEMMA EntersOpen ==
    ASSUME IInv, NEW s \in ClientState, s # "CHANNEL_CLOSE_RECEIVED",
           manager' = Enter(manager, s)
    PROVE  \A u \in Task : ClosingIn(manager', u) => ClosingIn(manager, u)
<1>1. manager \in Managers
  BY InvIs
<1> QED BY <1>1, EnterPlain

\* What is no part of a message comes when no message is collected.
LEMMA OtherComes ==
    ASSUME IInv, ~ session.failed, Addressing, NEW type, Takes(type), workload' = workload,
           type \notin {"Header", "Body", "Disconnected"}, message' = message
    PROVE  ComeToTheirCalls'
<1>1. ~ Collecting'
  <2>1. Head(inbox).type = type /\ inbox # <<>>
    BY TakesIs
  <2>2. ~ Collecting
    BY <2>1, CollectingHead
  <2> QED BY <2>2 DEF Collecting
<1> QED BY <1>1, ComesOn DEF Addressing

\* A future has a result.
LEMMA GetsAddressedWith ==
    ASSUME NEW d, GetsAddressed(d), NEW c, NEW r,
           DOMAIN r = {"message"} /\ r.message # None
              => r.message.delivery.get /\ r.message.delivery.for = c
    PROVE  GetsAddressed(With(d, c, r))
BY DEF GetsAddressed, With

LEMMA ConsumeOkAddressed ==
    ASSUME IInv, ~ session.failed, Addressing, ReceiveConsumeOk, workload' = workload
    PROVE  Addressing'
<1> DEFINE by == Head(futures.pending)
           tag == Head(inbox).tag
           r == [tag |-> tag]
<1>1. /\ Takes("ConsumeOk") /\ message' = message /\ app' = app
      /\ futures' = [futures EXCEPT !.pending = Tail(@),
                                    !.done = With(@, by.call, [tag |-> Head(inbox).tag])]
      /\ consumers' = With(consumers, tag, by)
  BY DEF ReceiveConsumeOk
<1>2. ComeToTheirCalls'
  BY <1>1, OtherComes
<1>3. futures'.done = With(futures.done, by.call, r) /\ futures.pending \in Seq(Awaiting)
  BY <1>1, ConsumersAre, FutureIs
<1>4. CallbacksAreOwn'
  <2> SUFFICES ASSUME ConsumesAreGranted
               PROVE  \A x \in DOMAIN consumers' : consumers'[x].call = x
    BY DEF CallbacksAreOwn, ConsumesAreGranted
  <2>1. 1 \in DOMAIN inbox /\ Head(inbox) = inbox[1] /\ inbox[1].type = "ConsumeOk"
    BY <1>1, RestComes DEF Addressing
  <2>2. futures.pending # <<>> /\ futures.pending[1].call = inbox[1].tag
    BY <2>1 DEF Addressing, ComeToTheirCalls, ConsumesComeToTheirCalls
  <2>3. by.call = tag
    BY <1>3, <2>1, <2>2
  <2> HIDE DEF by, tag
  <2>4. /\ DOMAIN consumers' = DOMAIN consumers \cup {tag}
        /\ \A x \in DOMAIN consumers' : consumers'[x] = IF x = tag THEN by ELSE consumers[x]
    BY <1>1 DEF With
  <2> QED BY <2>3, <2>4 DEF Addressing, CallbacksAreOwn
<1>5. AllAddressed'
  <2>1. GetsAddressed(futures.done) /\ AppAddressed(app)
    BY DEF Addressing, AllAddressed
  <2>2. DOMAIN r # {"message"}
    OBVIOUS
  <2> HIDE DEF r, by
  <2>3. GetsAddressed(futures'.done)
    BY <1>3, <2>1, <2>2, GetsAddressedWith
  <2>4. AppAddressed(app')
    BY <1>1, <2>1
  <2> QED BY <2>3, <2>4, AddressedNext
<1> QED BY <1>2, <1>4, <1>5 DEF Addressing

\* The futures, the callbacks and the application have what they had.
LEMMA AddressedRests ==
    ASSUME Addressing, workload' = workload, ComeToTheirCalls',
           futures'.done = futures.done, app' = app,
           consumers' = consumers \/ \E keys : consumers' = Without(consumers, keys)
    PROVE  Addressing'
<1>1. AllAddressed'
  <2>1. AppAddressed(app') /\ GetsAddressed(futures'.done)
    BY DEF Addressing, AllAddressed
  <2> QED BY <2>1, AddressedNext
<1>2. \A x \in DOMAIN consumers' : x \in DOMAIN consumers /\ consumers'[x] = consumers[x]
  BY DEF Without, Restrict
<1>3. CallbacksAreOwn'
  BY <1>2 DEF Addressing, CallbacksAreOwn, ConsumesAreGranted
<1> QED BY <1>1, <1>3 DEF Addressing

LEMMA ResultAddressed ==
    ASSUME Addressing, workload' = workload, ComeToTheirCalls', app' = app,
           consumers' = consumers, GetsAddressed(futures'.done)
    PROVE  Addressing'
<1>1. AllAddressed'
  <2>1. AppAddressed(app')
    BY DEF Addressing, AllAddressed
  <2> QED BY <2>1, AddressedNext
<1>2. CallbacksAreOwn'
  BY DEF Addressing, CallbacksAreOwn, ConsumesAreGranted
<1> QED BY <1>1, <1>2 DEF Addressing

LEMMA GetEmptyAddressed ==
    ASSUME IInv, ~ session.failed, Addressing, ReceiveGetEmpty, workload' = workload
    PROVE  Addressing'
<1> DEFINE refused == SM!Refuses(manager, "BASIC_GETEMPTY_RECEIVED", None)
           r == [message |-> None]
<1>1. /\ Takes("GetEmpty") /\ message' = message /\ app' = app /\ consumers' = consumers
      /\ futures' = IF refused \/ ~ GetIsAwaited THEN futures ELSE GetResult(None)
  BY DEF ReceiveGetEmpty
<1>2. ComeToTheirCalls'
  BY <1>1, OtherComes
<1>3. CASE futures' = futures
  BY <1>1, <1>2, <1>3, AddressedRests
<1>4. CASE futures' # futures
  <2>1. futures.get # None /\ futures.get \notin DOMAIN futures.done
    BY <1>1, <1>4 DEF GetIsAwaited
  <2>2. futures' = [futures EXCEPT !.done = With(@, futures.get, [message |-> None])]
    BY <1>1, <1>4 DEF GetResult
  <2>3. CallsOwn(task, futures)
    BY InvIs
  <2>4. futures'.done = With(futures.done, futures.get, r)
    BY <2>1, <2>2, <2>3, OwnResult
  <2>5. r.message = None /\ GetsAddressed(futures.done)
    BY DEF Addressing, AllAddressed
  <2> HIDE DEF r
  <2>6. GetsAddressed(futures'.done)
    BY <2>4, <2>5, GetsAddressedWith
  <2> QED BY <1>1, <1>2, <2>6, ResultAddressed
<1> QED BY <1>3, <1>4

LEMMA QuietAddressed ==
    ASSUME IInv, ~ session.failed, Addressing, workload' = workload,
           \/ ReceiveCancelOk \/ ReceiveDeclareOk \/ ReceiveChannelClose
           \/ ReceiveChannelOpenOk
    PROVE  Addressing'
<1>1. /\ \/ Takes("CancelOk") \/ Takes("DeclareOk")
         \/ Takes("Channel.Close") \/ Takes("Channel.OpenOk")
      /\ message' = message /\ futures' = futures /\ app' = app
  BY DEF ReceiveCancelOk, ReceiveDeclareOk, ReceiveChannelClose, ReceiveChannelOpenOk
<1>2. consumers' = consumers \/ consumers' = Without(consumers, {Head(inbox).tag})
  BY DEF ReceiveCancelOk, ReceiveDeclareOk, ReceiveChannelClose, ReceiveChannelOpenOk
<1>3. ComeToTheirCalls'
  BY <1>1, OtherComes
<1> QED BY <1>1, <1>2, <1>3, AddressedRests

LEMMA DisconnectedAddressed ==
    ASSUME IInv, Addressing, Disconnected, workload' = workload
    PROVE  Addressing'
<1> DEFINE n == SM!SetState(manager, "EXCEPTION", "ConnectionClosedException", STE)
<1>1. /\ Takes("Disconnected") /\ manager' \in {manager, n}
      /\ task' = task /\ futures' = futures /\ consumers' = consumers /\ message' = message
      /\ app' = app
  BY DEF Disconnected
<1>2. \A u \in Task : ClosingIn(manager', u) => ClosingIn(manager, u)
  <2>1. manager \in Managers
    BY InvIs
  <2>2. \/ n = manager \/ n = SM!Refuse(manager, STE)
        \/ n = SM!Enter(manager, "EXCEPTION", "ConnectionClosedException")
    BY DEF SM!SetState
  <2>3. n.fired = manager.fired
        /\ \A i \in DOMAIN n.ready : \/ i \in DOMAIN manager.ready
                                        /\ n.ready[i] = manager.ready[i]
                                     \/ \A e \in n.ready[i] : e[1] = "EXCEPTION"
    <3>1. CASE n = SM!Enter(manager, "EXCEPTION", "ConnectionClosedException")
      <4> DEFINE events == SM!Scheduled(manager, "EXCEPTION")
      <4>1. /\ n.fired = manager.fired
            /\ n.ready = IF events = {} THEN manager.ready ELSE Append(manager.ready, events)
        BY <2>1, <3>1, ManagersAre DEF SM!Enter
      <4>2. \A e \in events : e[1] = "EXCEPTION"
        BY DEF SM!Scheduled
      <4>3. manager.ready \in Seq(Events)
        BY <2>1, ManagersAre
      <4> HIDE DEF n, events
      <4>4. \A i \in DOMAIN n.ready : \/ i \in DOMAIN manager.ready
                                         /\ n.ready[i] = manager.ready[i]
                                      \/ n.ready[i] = events
        BY <4>1, <4>3
      <4> QED BY <4>1, <4>2, <4>4
    <3>2. CASE n = SM!Refuse(manager, STE)
      <4>1. n.fired = manager.fired /\ n.ready = manager.ready
        BY <2>1, <3>2, ManagersAre DEF SM!Refuse
      <4> QED BY <4>1
    <3>3. CASE n = manager
      BY <3>3
    <3> QED BY <2>2, <3>1, <3>2, <3>3
  <2> HIDE DEF n
  <2>4. \A u \in Task : ClosingIn(n, u) => ClosingIn(manager, u)
    BY <2>3 DEF ClosingIn
  <2> QED BY <1>1, <2>4
<1>3. ComeToTheirCalls'
  <2>1. ASSUME Collecting', message'.delivery.get
        PROVE  IsAwaited(message'.delivery)
    BY <1>1, <2>1 DEF Collecting, Addressing, ComeToTheirCalls, GetsComeToTheirCalls
  <2> QED BY <1>1, <1>2, <2>1, ComesOn DEF Addressing
<1> QED BY <1>1, <1>3, AddressedRests

---------------------------------------------------------------------------
(* The message that comes to a careful application *)

LEMMA MessageAddressed ==
    ASSUME IInv, ~ session.failed, ~ session'.failed, Addressing, workload' = workload,
           \/ ReceiveMessage("Deliver", "BASIC_DELIVER_RECEIVED")
           \/ ReceiveMessage("GetOk", "BASIC_GETOK_RECEIVED")
    PROVE  Addressing'
<1> DEFINE g == Head(inbox)
           next == [delivery |-> g.delivery, header |-> None, bodies |-> <<>>]
<1>1. PICK type \in {"Deliver", "GetOk"},
           state \in {"BASIC_DELIVER_RECEIVED", "BASIC_GETOK_RECEIVED"} :
         ReceiveMessage(type, state)
  OBVIOUS
<1>2. /\ Takes(type) /\ Receives(state)
      /\ message' = IF SM!Refuses(manager, state, None) THEN message ELSE next
      /\ task' = task /\ futures' = futures /\ consumers' = consumers /\ app' = app
  BY <1>1 DEF ReceiveMessage
<1>3. state \in ClientState /\ state # "CHANNEL_CLOSE_RECEIVED"
  BY StatesAre
<1>4. message' = next
  BY <1>2, <1>3, ReceivesIs
<1>5. \A u \in Task : ClosingIn(manager', u) => ClosingIn(manager, u)
  BY <1>2, <1>3, EntersOpen DEF Receives
<1>6. message'.delivery.get => IsAwaited(message'.delivery)
  <2>1. 1 \in DOMAIN inbox /\ g = inbox[1] /\ inbox[1].type = type
    BY <1>2, RestComes DEF Addressing
  <2>2. message'.delivery = inbox[1].delivery
    BY <1>4, <2>1
  <2>3. inbox[1].delivery.get => IsAwaited(inbox[1].delivery)
    BY <2>1 DEF Begins, Addressing, ComeToTheirCalls, GetsComeToTheirCalls
  <2> QED BY <2>2, <2>3
<1>7. ComeToTheirCalls'
  BY <1>2, <1>5, <1>6, ComesOn DEF Addressing
<1> QED BY <1>2, <1>7, AddressedRests

\* A part is taken of a message that has more of them.
LEMMA PartAddressed ==
    ASSUME IInv, FirstInv, ~ session.failed, Addressing, workload' = workload,
           NEW type \in {"Header", "Body"}, Takes(type),
           NEW state \in ClientState, state # "CHANNEL_CLOSE_RECEIVED",
           manager' = Enter(manager, state), message'.delivery = message.delivery,
           task' = task, futures' = futures, consumers' = consumers, app' = app
    PROVE  Addressing'
<1>1. Collecting
  <2>1. Partial(workload, LastTaken(message)) /\ message \in Message
    BY PartOfOpen
  <2> QED BY <2>1, MessageIs DEF Collecting
<1>2. message'.delivery.get => IsAwaited(message'.delivery)
  BY <1>1 DEF Addressing, ComeToTheirCalls, GetsComeToTheirCalls
<1>3. \A u \in Task : ClosingIn(manager', u) => ClosingIn(manager, u)
  BY EntersOpen
<1>4. ComeToTheirCalls'
  BY <1>2, <1>3, ComesOn DEF Addressing
<1> QED BY <1>4, AddressedRests

LEMMA HeaderAddressed ==
    ASSUME IInv, FirstInv, ~ session.failed, Addressing, workload' = workload, ReceiveHeader
    PROVE  Addressing'
<1> DEFINE next == [message EXCEPT !.header = Head(inbox).of]
           state == "CONTENT_HEADER_RECEIVED"
           type == "Header"
<1>1. /\ Takes(type) /\ Receives(state) /\ message' \in {message, next}
      /\ task' = task /\ futures' = futures /\ consumers' = consumers /\ app' = app
  BY DEF ReceiveHeader
<1>2. state \in ClientState /\ state # "CHANNEL_CLOSE_RECEIVED" /\ type \in {"Header", "Body"}
  BY StatesAre
<1>3. message'.delivery = message.delivery
  <2>1. message \in Message
    BY <1>1, PartOfOpen
  <2>2. next.delivery = message.delivery
    BY <2>1 DEF Message
  <2> HIDE DEF next
  <2> QED BY <1>1, <2>2
<1>4. manager' = Enter(manager, state)
  BY <1>1 DEF Receives
<1> HIDE DEF state, type
<1> QED BY <1>1, <1>2, <1>3, <1>4, PartAddressed

\* The last part of a message.
LEMMA CompleteAddressed ==
    ASSUME IInv, ~ session.failed, ~ session'.failed, Addressing, workload' = workload,
           Collecting, NEW msg \in Message, msg.delivery = message.delivery, Complete(msg),
           Takes("Body"), consumers' = consumers
    PROVE  Addressing'
<1> DEFINE tag == msg.delivery.for
           c == consumers[tag].call
<1>1. AppTyped(app) /\ session \in Sessions /\ GetsAddressed(futures.done) /\ AppAddressed(app)
  BY InvIs DEF Addressing, AllAddressed
<1>2. tag \in Calls /\ None \notin Calls
  BY ConsumersAssumption DEF Message, Delivery
<1>3. CASE msg.delivery.get
  <2> DEFINE r == [message |-> msg]
  <2>1. /\ Fails(~ GetIsAwaited) /\ app' = app
        /\ futures' = IF GetIsAwaited THEN GetResult(msg) ELSE futures
        /\ message' = IF futures.get = None THEN msg ELSE None
    BY <1>3 DEF Complete
  <2>2. GetIsAwaited
    <3>1. (~ GetIsAwaited) \in BOOLEAN
      OBVIOUS
    <3> QED BY <1>1, <2>1, <3>1, FailsIs
  <2>3. futures.get # None /\ futures.get \notin DOMAIN futures.done
    BY <2>2 DEF GetIsAwaited
  <2>4. futures' = [futures EXCEPT !.done = With(@, futures.get, [message |-> msg])]
    BY <2>1, <2>2 DEF GetResult
  <2>5. CallsOwn(task, futures)
    BY InvIs
  <2>6. futures'.done = With(futures.done, futures.get, r)
    BY <2>3, <2>4, <2>5, OwnResult
  <2>7. r.message = msg
    OBVIOUS
  <2>8. futures.get = msg.delivery.for
    BY <1>3 DEF Addressing, ComeToTheirCalls, GetsComeToTheirCalls, IsAwaited, AwaitedBy
  <2> HIDE DEF r
  <2>9. GetsAddressed(futures'.done)
    BY <1>1, <1>3, <2>6, <2>7, <2>8, GetsAddressedWith
  <2>10. message' = None
    BY <2>1, <2>3
  <2>11. ComeToTheirCalls'
    BY <2>10, ComesOn DEF Collecting, Addressing
  <2> QED BY <2>1, <2>9, <2>11, ResultAddressed
<1>4. CASE ~ msg.delivery.get
  <2>1. /\ Fails(tag \notin DOMAIN consumers) /\ futures' = futures
        /\ app' = IF tag \notin DOMAIN consumers THEN app
                  ELSE IF consumers[tag].method = "consume"
                  THEN [app EXCEPT !.mailbox = With(@, c, Append(MailOf(c), msg))]
                  ELSE Hand(app, c, msg)
        /\ message' = IF tag \notin DOMAIN consumers THEN msg ELSE None
    BY <1>4 DEF Complete
  <2>2. tag \in DOMAIN consumers
    <3>1. (tag \notin DOMAIN consumers) \in BOOLEAN
      OBVIOUS
    <3> HIDE DEF tag
    <3> QED BY <1>1, <2>1, <3>1, FailsIs
  <2>3. c \in Calls /\ (ConsumesAreGranted => c = tag)
    BY <2>2, ConsumersAre DEF Awaiting, Addressing, CallbacksAreOwn
  <2>4. ToAddressee(msg.delivery, c) /\ MayMail(msg.delivery, c)
    BY <1>4, <2>3 DEF ToAddressee, MayMail
  <2>5. AppAddressed(app')
    <3>1. CASE consumers[tag].method = "consume"
      <4> DEFINE q == MailOf(c)
      <4>1. q = IF c \in DOMAIN app.mailbox THEN app.mailbox[c] ELSE <<>>
        BY DEF MailOf
      <4>2. app' = [app EXCEPT !.mailbox = With(@, c, Append(q, msg))]
        BY <2>1, <2>2, <3>1
      <4> HIDE DEF c, q
      <4> QED BY <1>1, <2>3, <2>4, <4>1, <4>2, MailJoinsAddressed
    <3>2. CASE consumers[tag].method # "consume"
      <4>1. app' = Hand(app, c, msg)
        BY <2>1, <2>2, <3>2
      <4> HIDE DEF c
      <4> QED BY <1>1, <2>3, <2>4, <4>1, HandAddressed
    <3> QED BY <3>1, <3>2
  <2>6. message' = None
    BY <2>1, <2>2
  <2>7. ComeToTheirCalls'
    BY <2>6, ComesOn DEF Collecting, Addressing
  <2>8. AllAddressed'
    BY <1>1, <2>1, <2>5, AddressedNext
  <2>9. CallbacksAreOwn'
    BY DEF Addressing, CallbacksAreOwn, ConsumesAreGranted
  <2> QED BY <2>7, <2>8, <2>9 DEF Addressing
<1> QED BY <1>3, <1>4

LEMMA BodyAddressed ==
    ASSUME IInv, FirstInv, ~ session.failed, ~ session'.failed, Addressing,
           workload' = workload, ReceiveBody
    PROVE  Addressing'
<1> DEFINE g == Head(inbox)
           state == "CONTENT_BODY_RECEIVED"
           type == "Body"
           next == [message EXCEPT !.bodies = Append(@, g)]
           refused == SM!Refuses(manager, state, None)
<1>1. /\ Takes(type)
      /\ task' = task /\ consumers' = consumers
      /\ IF refused
         THEN Receives(state) /\ message' = message /\ futures' = futures /\ app' = app
         ELSE IF IsComplete(next) THEN Complete(next)
         ELSE /\ Receives(state)
              /\ message' = next /\ futures' = futures /\ app' = app
  BY DEF ReceiveBody
<1>2. state \in ClientState /\ state # "CHANNEL_CLOSE_RECEIVED" /\ type \in {"Header", "Body"}
  BY StatesAre
<1>3. message \in Message /\ Partial(workload, LastTaken(message)) /\ g \in BodyFrame
  BY <1>1, PartOfOpen, TakesIs, FrameIs
<1>4. next \in Message /\ next.delivery = message.delivery
  <2> DEFINE all == Append(message.bodies, g)
  <2>1. all \in Seq(BodyFrame) /\ next = [message EXCEPT !.bodies = all]
    BY <1>3 DEF Message
  <2> HIDE DEF all, next
  <2> QED BY <1>3, <2>1 DEF Message
<1>5. CASE refused \/ ~ IsComplete(next)
  <2>1. Receives(state) /\ message' \in {message, next} /\ futures' = futures /\ app' = app
    BY <1>1, <1>5
  <2>2. message'.delivery = message.delivery
    BY <1>4, <2>1
  <2>3. manager' = Enter(manager, state)
    BY <2>1 DEF Receives
  <2> HIDE DEF next, refused, state, type
  <2> QED BY <1>1, <1>2, <2>1, <2>2, <2>3, PartAddressed
<1>6. CASE ~ (refused \/ ~ IsComplete(next))
  <2>1. Complete(next) /\ Takes("Body") /\ Collecting
    BY <1>1, <1>3, <1>6, MessageIs DEF Collecting
  <2> HIDE DEF next
  <2> QED BY <1>1, <1>4, <2>1, CompleteAddressed
<1> QED BY <1>5, <1>6

---------------------------------------------------------------------------
(* The messages of a careful application come to their calls *)

LEMMA ReceiveAddressed ==
    ASSUME IInv, FirstInv, NoneCancels, ~ session.failed, ~ session'.failed, Addressing, Receive
    PROVE  Addressing'
<1>1. workload' = workload
  BY DEF Receive
<1>2. ~ ReceiveCancel
  <2> SUFFICES ASSUME Takes("Cancel")
               PROVE  FALSE
    BY DEF ReceiveCancel
  <2>1. 1 \in DOMAIN inbox /\ inbox[1].type = "Cancel"
    BY RestComes DEF Addressing
  <2> QED BY <2>1 DEF NoneCancels
<1>3. CASE ReceiveConsumeOk
  BY <1>1, <1>3, ConsumeOkAddressed
<1>4. CASE ReceiveGetEmpty
  BY <1>1, <1>4, GetEmptyAddressed
<1>5. CASE \/ ReceiveCancelOk \/ ReceiveDeclareOk \/ ReceiveChannelClose
           \/ ReceiveChannelOpenOk
  BY <1>1, <1>5, QuietAddressed
<1>6. CASE \/ ReceiveMessage("Deliver", "BASIC_DELIVER_RECEIVED")
           \/ ReceiveMessage("GetOk", "BASIC_GETOK_RECEIVED")
  BY <1>1, <1>6, MessageAddressed
<1>7. CASE ReceiveHeader
  BY <1>1, <1>7, HeaderAddressed
<1>8. CASE ReceiveBody
  BY <1>1, <1>8, BodyAddressed
<1>9. CASE Disconnected
  BY <1>1, <1>9, DisconnectedAddressed
<1> QED BY <1>2, <1>3, <1>4, <1>5, <1>6, <1>7, <1>8, <1>9 DEF Receive

\* The frames that had arrived come to their calls after the socket is lost.
LEMMA SocketLostAddressed ==
    ASSUME IInv, Addressing, SocketLost
    PROVE  Addressing'
<1>1. /\ workload' = workload /\ manager' = manager /\ task' = task /\ futures' = futures
      /\ consumers' = consumers /\ message' = message /\ app' = app
  BY DEF SocketLost
<1>2. \A i \in DOMAIN inbox' : \/ i \in DOMAIN inbox /\ inbox'[i] = inbox[i]
                               \/ inbox'[i].type = "Disconnected"
  <2>1. PICK n \in 0..Len(inbox) :
           inbox' = Append(SubSeq(inbox, 1, n), [type |-> "Disconnected"])
    BY DEF SocketLost
  <2>2. inbox \in Seq(InFrame)
    BY InvIs
  <2>3. \A i \in DOMAIN inbox' : \/ i \in DOMAIN inbox /\ inbox'[i] = inbox[i]
                                 \/ inbox'[i] = [type |-> "Disconnected"]
    BY <2>1, <2>2
  <2> QED BY <2>3
<1>3. ASSUME NEW d, IsAwaited(d)
      PROVE  IsAwaited(d)'
  <2>1. PICK t \in Task : AwaitedBy(t, d)
    BY <1>3 DEF IsAwaited
  <2>2. AwaitedBy(t, d)'
    BY <1>1, <2>1 DEF AwaitedBy, Call
  <2>3. \A i \in DOMAIN inbox' : inbox'[i].type # "Channel.Close"
    BY <1>2, <1>3 DEF IsAwaited
  <2> QED BY <2>2, <2>3 DEF IsAwaited
<1>4. GetsComeToTheirCalls'
  <2>1. GetsComeToTheirCalls
    BY DEF Addressing, ComeToTheirCalls
  <2>2. ASSUME NEW i \in DOMAIN inbox', inbox'[i].type = "GetOk"
        PROVE  i = 1 /\ IsAwaited(inbox[i].delivery)'
    <3>1. PICK d : d = inbox'[i].delivery
      OBVIOUS
    <3>2. i = 1 /\ IsAwaited(d)
      BY <1>2, <2>1, <2>2, <3>1 DEF GetsComeToTheirCalls
    <3>3. IsAwaited(d)'
      BY <1>3, <3>2
    <3> QED BY <3>1, <3>2, <3>3 DEF IsAwaited, AwaitedBy
  <2>3. ASSUME Collecting', message'.delivery.get
        PROVE  IsAwaited(message.delivery)'
    <3>1. PICK d : d = message'.delivery
      OBVIOUS
    <3>2. IsAwaited(d)
      BY <1>1, <2>1, <2>3, <3>1 DEF GetsComeToTheirCalls, Collecting
    <3>3. IsAwaited(d)'
      BY <1>3, <3>2
    <3> QED BY <3>1, <3>3 DEF IsAwaited, AwaitedBy
  <2>4. \A i \in DOMAIN inbox' : Begins(inbox'[i])
           => (inbox'[i].delivery.get <=> inbox'[i].type = "GetOk")
    BY <1>2, <2>1 DEF GetsComeToTheirCalls, Begins
  <2> QED BY <2>2, <2>3, <2>4 DEF GetsComeToTheirCalls
<1>5. ConsumesComeToTheirCalls'
  BY <1>1, <1>2 DEF Addressing, ComeToTheirCalls, ConsumesComeToTheirCalls, ConsumesAreGranted
<1>6. AllAddressed'
  <2>1. AppAddressed(app') /\ GetsAddressed(futures'.done)
    BY <1>1 DEF Addressing, AllAddressed
  <2> QED BY <1>1, <2>1, AddressedNext
<1>7. CallbacksAreOwn'
  BY <1>1 DEF Addressing, CallbacksAreOwn, ConsumesAreGranted
<1> QED BY <1>4, <1>5, <1>6, <1>7 DEF Addressing, ComeToTheirCalls

LEMMA InitAddressed ==
    ASSUME Init
    PROVE  AddressedInv
<1>1. /\ app.handed = {} /\ DOMAIN app.mailbox = {} /\ DOMAIN futures.done = {}
      /\ DOMAIN consumers = {} /\ session.transport = "open"
  BY DEF Init
<1> QED BY <1>1 DEF AddressedInv, CallbacksAreOwn, AllAddressed, AppAddressed, GetsAddressed

\* While the socket holds, that what is under way comes to its call is what the client
\* works by.
LEMMA IsAddressed ==
    ASSUME IInv, CarefulInv, AddressedInv, workload.careful, ~ session.failed
    PROVE  Addressing /\ NoneCancels /\ OneAtATime /\ NeverCancelled
<1>1. session.transport \in {"open", "lost"}
  BY InvIs DEF Sessions
<1>2. session.transport = "open" => Working
  BY DEF CarefulInv, Broken
<1>3. CASE session.transport = "open"
  BY <1>2, <1>3, WorkingAddresses, NoneComes DEF CarefulInv, AddressedInv, Addressing
<1>4. CASE session.transport = "lost"
  BY <1>4 DEF CarefulInv, AddressedInv, Addressing
<1> QED BY <1>1, <1>3, <1>4

LEMMA StepKeepsAddressed ==
    ASSUME IInv, FirstInv, CarefulInv, AddressedInv, [Next]_vars
    PROVE  AddressedInv'
<1>1. workload' = workload
  BY DEF Next, Application, Proceeds, FramesUnchanged, Receive, Broker, ClientUnchanged,
     SocketLost, vars
<1> SUFFICES ASSUME workload.careful, ~ session'.failed
             PROVE  /\ CallbacksAreOwn' /\ AllAddressed'
                    /\ session'.transport = "lost" => ComeToTheirCalls'
  BY <1>1 DEF AddressedInv
<1>3. ~ session.failed
  <2>1. CASE Next
    BY <2>1, FailedStays
  <2>2. CASE UNCHANGED vars
    BY <2>2 DEF vars
  <2> QED BY <2>1, <2>2
<1>4. Addressing /\ NoneCancels /\ OneAtATime /\ NeverCancelled
  BY <1>3, IsAddressed
<1>5. CASE ClientSteps
  BY <1>4, <1>5, ClientAddressed DEF Addressing
<1>6. CASE Receive
  BY <1>3, <1>4, <1>6, ReceiveAddressed DEF Addressing
<1>7. CASE SocketLost
  BY <1>4, <1>7, SocketLostAddressed DEF Addressing
<1>8. CASE Broker \/ UNCHANGED vars
  <2>1. /\ consumers' = consumers /\ app' = app /\ futures' = futures /\ session' = session
    BY <1>8 DEF Broker, ClientUnchanged, vars
  <2>2. CallbacksAreOwn'
    BY <1>1, <1>4, <2>1 DEF Addressing, CallbacksAreOwn, ConsumesAreGranted
  <2>3. AllAddressed'
    <3>1. AppAddressed(app') /\ GetsAddressed(futures'.done)
      BY <1>4, <2>1 DEF Addressing, AllAddressed
    <3> QED BY <1>1, <3>1, AddressedNext
  <2>4. ASSUME session'.transport = "lost"
        PROVE  ComeToTheirCalls'
    <3>1. session.transport = "lost" /\ outbox = <<>>
      BY <2>1, <2>4 DEF CarefulInv
    <3>2. UNCHANGED vars
      BY <1>8, <3>1 DEF Broker, BrokerReads, BrokerDeliversToConsumer, BrokerCancels
    <3>3. /\ inbox' = inbox /\ message' = message /\ manager' = manager /\ task' = task
      BY <3>2 DEF vars
    <3> QED BY <1>1, <1>4, <2>1, <3>3 DEF Addressing, ComeToTheirCalls, GetsComeToTheirCalls,
            ConsumesComeToTheirCalls, ConsumesAreGranted, Collecting, IsAwaited, AwaitedBy,
            ClosingIn, Call
  <2> QED BY <2>2, <2>3, <2>4
<1> QED BY <1>5, <1>6, <1>7, <1>8 DEF Next, ClientSteps

\* A message that a careful application is handed, or will be, is that of the call it is
\* handed to, and what still comes for a call comes to it.  (_on_frame, _pop_message)
THEOREM AddressedInvariance == Spec => []AddressedInv
BY ConsumersInvariance, FirstInvariance, CarefulInvariance, InitAddressed, StepKeepsAddressed,
   PTL DEF Spec

LEMMA CarefulHandedAsSent ==
    ASSUME IInv, FirstInv, AddressedInv, workload.careful
    PROVE  HandedAsSent
<1> SUFFICES ASSUME ~ session.failed, NEW h \in app.handed
             PROVE  LET msg == h.message IN
                    /\ HasAddressee(msg.delivery) => h.to = msg.delivery.for
                    /\ msg.header = msg.delivery /\ msg.bodies = Bodies(msg.delivery)
  BY DEF HandedAsSent
<1> DEFINE msg == h.message
<1>1. HasAddressee(msg.delivery) => h.to = msg.delivery.for
  <2>1. ToAddressee(msg.delivery, h.to)
    BY DEF AddressedInv, AllAddressed, AppAddressed
  <2> QED BY <2>1, FirstIsMeant DEF HasAddressee, FirstAsMeant, ToAddressee
<1>2. msg.header = msg.delivery /\ msg.bodies = Bodies(msg.delivery)
  <2>1. msg \in Arrived
    BY DEF Arrived
  <2>2. msg # None
    <3>1. msg \in Message
      BY InvIs, AppIs
    <3> QED BY <3>1, MessageIs
  <2> QED BY <2>1, <2>2, InvariantWhole DEF ArrivedWhole
<1> QED BY <1>1, <1>2

\* While the client is not failed, a message that is handed to the application has its own
\* header and the whole of its own body, and goes to the callback, the generator or the get
\* it was sent for: always for a consumer of the first channel, and for a careful
\* application also for a get and, if no consume is refused, on later channels.
\* (_on_frame, _pop_message)
THEOREM MessagesAreHandedAsSent == Spec => []HandedAsSent
<1>1. IInv /\ FirstInv /\ AddressedInv => HandedAsSent
  BY InvariantHandedAsSent, CarefulHandedAsSent
<1> QED BY <1>1, ConsumersInvariance, FirstInvariance, AddressedInvariance, PTL
===============================================================================
