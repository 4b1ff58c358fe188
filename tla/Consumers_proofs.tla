--------------------------- MODULE Consumers_proofs ---------------------------
(***************************************************************************)
(* Proofs about Consumers, for any number of tasks, of calls and of        *)
(* messages: its types, that a message which reaches the application is    *)
(* whole and its own, that none is lost on the way, and, on the first      *)
(* channel, that it goes to the call it was sent for.                      *)
(***************************************************************************)
EXTENDS Consumers, FrameSequences, FiniteSetTheorems

---------------------------------------------------------------------------
(* The types of the state *)

Managers == SM!ManagerWith(Error)
ConsumeMethods == {"basic_consume", "consume"}
Awaiting == [call : Calls, method : ConsumeMethods]

Pcs == {"idle", "queued", "waiting", "future", "iterating", "opening", "raising",
        "reconnecting"}
Results == {"answered", "skipped", "AttributeError", "NotFound", "UnknownError", None}
           \cup Error
Record == [pc : Pcs, call : DOMAIN Request \cup {None}, result : Results,
           tag : Calls \cup {None}, left : Nat]

InFrame == [type : {"ConsumeOk", "CancelOk"}, tag : Calls]
           \cup [type : {"Deliver", "GetOk"}, delivery : Delivery]
           \cup [type : {"Header"}, of : Delivery] \cup BodyFrame
           \cup [type : {"GetEmpty", "DeclareOk", "Cancel", "Channel.Close",
                         "Channel.OpenOk", "Disconnected"}]
OutFrame == [type : {"basic_cancel"}, by : Calls, tag : Calls]
            \cup [type : DOMAIN Request \ {"basic_cancel"}, by : Calls,
                  tag : Calls \cup {None}]
            \cup [type : DOMAIN SettledState, tag : Nat, multiple : BOOLEAN,
                  requeue : BOOLEAN]
            \cup [type : {"Channel.CloseOk", "Channel.Open"}]

TagResult == [tag : Calls]
GetResults == [message : Message \cup {None}]

Sessions == [channelOpen : BOOLEAN, lastError : {"NotFound", None}, failed : BOOLEAN,
             transport : {"open", "lost"}]

\* The lock's queue l and the records k of the tasks agree.
LockFits(l, k) ==
    /\ l \in Seq(Task) /\ k \in [Task -> Record]
    /\ \A i, j \in DOMAIN l : l[i] = l[j] => i = j
    /\ \A t \in Task : k[t].pc = "waiting" => l # <<>> /\ Head(l) = t
    /\ \A t \in Task : k[t].pc \in {"queued", "waiting"} <=> \E i \in DOMAIN l : l[i] = t

FuturesTyped(f) ==
    /\ f \in [pending : Seq(Awaiting), get : Calls \cup {None}, done : {f.done}]
    /\ DOMAIN f.done \subseteq Calls
    /\ \A call \in DOMAIN f.done : f.done[call] \in TagResult \cup GetResults

AppTyped(a) ==
    /\ a \in [held : SUBSET Message, fresh : Message \cup {None},
              handed : SUBSET [to : Calls, message : Message], settled : SUBSET (Nat \X Nat),
              mailbox : {a.mailbox}]
    /\ DOMAIN a.mailbox \subseteq Calls
    /\ \A call \in DOMAIN a.mailbox : a.mailbox[call] \in Seq(Message)

\* The parts of a message are collected in the states for it.
ContentStates == {"BASIC_DELIVER_RECEIVED", "BASIC_GETOK_RECEIVED",
                  "CONTENT_HEADER_RECEIVED", "CONTENT_BODY_RECEIVED",
                  "BASIC_RETURN_RECEIVED"}

ClientTyped ==
    /\ manager \in Managers /\ session \in Sessions
    /\ message \in Message \cup {None}
    /\ manager.state \in ContentStates => message # None
    /\ DOMAIN consumers \subseteq Calls
    /\ \A tag \in DOMAIN consumers : consumers[tag] \in Awaiting

Messages == DOMAIN workload.bodies

\* The broker's record b, for the messages of the workload w.
BrokerIs(w, b) ==
    /\ b \in [phase : {"open", "closing", "closed", "gone"}, channel : Nat,
              ready : SUBSET DOMAIN w.bodies, consumers : SUBSET Calls,
              unacked : {b.unacked}, sent : Nat,
              delivered : SUBSET {d \in Delivery : d.msg \in DOMAIN w.bodies},
              settled : SUBSET (Nat \X Nat)]
    /\ DOMAIN b.unacked \subseteq Nat
    /\ \A n \in DOMAIN b.unacked :
          b.unacked[n] \in Delivery /\ b.unacked[n].msg \in DOMAIN w.bodies

BrokerTyped ==
    /\ workload \in Workloads
    /\ inbox \in Seq(InFrame) /\ outbox \in Seq(OutFrame)
    /\ BrokerIs(workload, broker)

---------------------------------------------------------------------------
(* The calls and their futures *)

Active(r) == r.pc # "idle"

\* The number of a call is that of the calls its task had left.
Begun(k, call) ==
    \/ call[2] > k[call[1]].left
    \/ call[2] = k[call[1]].left /\ Active(k[call[1]])

IsPending(f, call) == \E i \in DOMAIN f.pending : f.pending[i].call = call

\* What is asked of the record of a task.
RecordOK(r) ==
    /\ Active(r) => r.left > 0 /\ r.call \in DOMAIN Request
    /\ r.pc = "iterating" => r.tag \in Calls /\ r.call = "consume"
    /\ r.pc = "queued" /\ r.call = "basic_cancel" => r.tag \in Calls

\* A call has at most one future, and the future of a call has a result of its kind.
FuturesOwn(k, f) ==
    /\ \A call \in Calls :
          IsPending(f, call) \/ call \in DOMAIN f.done \/ call = f.get => Begun(k, call)
    /\ \A i, j \in DOMAIN f.pending : f.pending[i].call = f.pending[j].call => i = j
    /\ \A call \in Calls :
          IsPending(f, call) => call \notin DOMAIN f.done /\ call # f.get
    /\ \A t \in Task : Active(k[t]) =>
          LET call == <<t, k[t].left>> IN
          /\ Consumes(k[t].call) =>
                call # f.get /\ (call \in DOMAIN f.done => f.done[call] \in TagResult)
          /\ k[t].call = "basic_get" =>
                ~ IsPending(f, call) /\ (call \in DOMAIN f.done => f.done[call] \in GetResults)

\* The answers to basic_consume that are on their way, or will be asked for.
Positions(frames, types) == {i \in DOMAIN frames : frames[i].type \in types}
Count(frames, types) == Cardinality(Positions(frames, types))
WillConsume(r) == r.pc = "queued" /\ Consumes(r.call)
Queueing(k) == {t \in Task : WillConsume(k[t])}

CallsOwn(k, f) ==
    /\ k \in [Task -> Record] /\ \A t \in Task : RecordOK(k[t])
    /\ FuturesTyped(f) /\ FuturesOwn(k, f)
    /\ IsFiniteSet(Queueing(k))

\* There is a future for every answer to come.
CallsFit(k, f, in, out) ==
    /\ CallsOwn(k, f)
    /\ Count(in, {"ConsumeOk"}) + Count(out, ConsumeMethods) + Cardinality(Queueing(k))
          <= Len(f.pending)

TasksOK == LockFits(lock, task) /\ CallsFit(task, futures, inbox, outbox)

---------------------------------------------------------------------------
(* The frames of a message *)

HeaderOf(d) == [type |-> "Header", of |-> d]
PartOf(d, i) == [type |-> "Body", of |-> d, part |-> i]

\* The number of its body frames in the workload w.
Size(w, d) == w.bodies[d.msg]

Begins(f) == f.type \in {"Deliver", "GetOk"}

\* More frames of the same message follow f, and the next of them.
Partial(w, f) ==
    \/ Begins(f)
    \/ f.type = "Header" /\ Size(w, f.of) # 0
    \/ f.type = "Body" /\ f.part # Size(w, f.of)
Successor(f) == IF Begins(f) THEN HeaderOf(f.delivery)
                ELSE PartOf(f.of, IF f.type = "Header" THEN 1 ELSE f.part + 1)
Follows(w, f, g) == IF Partial(w, f) THEN g = Successor(f) ELSE g.type \notin {"Header", "Body"}

\* The last frame that went into a message msg.
LastTaken(msg) ==
    IF msg = None THEN [type |-> "None"]
    ELSE IF msg.header = None THEN [type |-> "Deliver", delivery |-> msg.delivery]
    ELSE IF msg.bodies = <<>> THEN HeaderOf(msg.header)
    ELSE msg.bodies[Len(msg.bodies)]

Before(msg, in, i) == IF i = 1 THEN LastTaken(msg) ELSE in[i - 1]

IsOwn(msg) ==
    msg # None =>
        /\ msg.header \in {None, msg.delivery}
        /\ msg.header = None => msg.bodies = <<>>
        /\ \A i \in DOMAIN msg.bodies : msg.bodies[i] = PartOf(msg.delivery, i)

\* The frames of a message come one after the other, and to the last while the
\* socket holds.
InOrder(w, msg, in, open) ==
    /\ \A i \in DOMAIN in :
          \/ Follows(w, Before(msg, in, i), in[i])
          \/ ~ open /\ i = Len(in) /\ in[i].type = "Disconnected"
    /\ open => ~ Partial(w, Before(msg, in, Len(in) + 1))

Whole(w, msg) ==
    /\ msg.header = msg.delivery
    /\ msg.bodies = [i \in 1..Size(w, msg.delivery) |-> PartOf(msg.delivery, i)]

ContentOK ==
    ~ session.failed =>
        /\ IsOwn(message)
        /\ InOrder(workload, message, inbox, session.transport = "open")
        /\ \A msg \in Arrived \ {None} : Whole(workload, msg)

\* A message is on its way to the application, or there.
InFlight(w, msg, in, arrived, d) ==
    \/ \E i \in DOMAIN in : Begins(in[i]) /\ in[i].delivery = d
    \/ msg # None /\ msg.delivery = d /\ Partial(w, LastTaken(msg))
    \/ \E m \in arrived \ {None} : m.delivery = d

NoneIsEmpty == \A w \in Workloads : \A i \in DOMAIN w.bodies : w.bodies[i] > 0

NoneIsLost ==
    ~ session.failed /\ session.transport = "open" /\ NoneIsEmpty
        => \A d \in broker.delivered : InFlight(workload, message, inbox, Arrived, d)

IInv ==
    /\ ClientTyped /\ BrokerTyped /\ TasksOK /\ AppTyped(app)
    /\ ContentOK /\ NoneIsLost

---------------------------------------------------------------------------
(* The operators of the state manager keep its type *)

Events == SUBSET (ClientState \X Task)

LEMMA ManagersAre ==
    Managers = [state : ClientState, exception : Error \cup {None}, waits : Events,
                ready : Seq(Events), fired : Events]
BY DEF Managers, SM!ManagerWith, SM!Event, Events

LEMMA StatesAre ==
    {"EXCEPTION", "UNINITIALIZED", "BASIC_CONSUME_SENT", "BASIC_CONSUMEOK_RECEIVED",
     "BASIC_CANCEL_SENT", "BASIC_CANCELOK_RECEIVED", "BASIC_GET_SENT",
     "BASIC_GETEMPTY_RECEIVED", "BASIC_GETOK_RECEIVED", "QUEUE_DECLARE_SENT",
     "QUEUE_DECLAREOK_RECEIVED", "BASIC_ACK_SENT", "BASIC_NACK_SENT", "BASIC_REJECT_SENT",
     "BASIC_DELIVER_RECEIVED", "CHANNEL_CLOSE_RECEIVED", "CHANNEL_CLOSEOK_SENT",
     "OPENING_CHANNEL", "CHANNEL_OPEN_SENT", "CHANNEL_OPENOK_RECEIVED",
     "CONTENT_HEADER_RECEIVED", "CONTENT_BODY_RECEIVED", "MESSAGE_ASSEMBLED"}
        \subseteq ClientState
BY DEF ClientState, Steps, Strict, Refusable, IdleWith, IdleAfter

LEMMA SetStateKeepsType ==
    ASSUME NEW m \in Managers, NEW value \in ClientState, NEW exc \in Error \cup {None},
           NEW refusal \in Error
    PROVE  /\ SM!SetState(m, value, exc, refusal) \in Managers
           /\ SM!SetState(m, value, exc, refusal).state \in {m.state, value}
<1>1. SM!Refuse(m, refusal) \in Managers /\ SM!Refuse(m, refusal).state = m.state
  BY ManagersAre DEF SM!Refuse
<1>2. SM!Scheduled(m, value) \in Events
  BY ManagersAre DEF SM!Scheduled, Events
<1>3. (IF SM!Scheduled(m, value) = {} THEN m.ready
       ELSE Append(m.ready, SM!Scheduled(m, value))) \in Seq(Events)
  BY <1>2, ManagersAre
<1>4. SM!Enter(m, value, exc) \in Managers /\ SM!Enter(m, value, exc).state = value
  BY <1>3, ManagersAre DEF SM!Enter
<1> QED BY <1>1, <1>4 DEF SM!SetState

LEMMA EnterKeepsType ==
    ASSUME NEW m \in Managers, NEW value \in ClientState
    PROVE  /\ Enter(m, value) \in Managers /\ Enter(m, value).state \in {m.state, value}
           /\ ~ SM!Refuses(m, value, None) => Enter(m, value).state = value
           /\ SM!Refuses(m, value, None) => Enter(m, value).state = m.state
           /\ SM!Refuse(m, STE) \in Managers /\ SM!Refuse(m, STE).state = m.state
<1>1. STE \in Error
  BY DEF Error
<1>2. SM!Refuse(m, STE) \in Managers /\ SM!Refuse(m, STE).state = m.state
  BY <1>1, ManagersAre DEF SM!Refuse
<1>3. SM!Enter(m, value, None).state = value
  BY ManagersAre DEF SM!Enter
<1>4. /\ ~ SM!Refuses(m, value, None) => Enter(m, value).state = value
      /\ SM!Refuses(m, value, None) => Enter(m, value).state = m.state
  BY <1>2, <1>3 DEF Enter, SM!SetState, SM!Refuses, SM!Unchanged
<1> QED BY <1>1, <1>2, <1>4, SetStateKeepsType DEF Enter

LEMMA RegisterKeepsType ==
    ASSUME NEW m \in Managers, NEW t \in Task, NEW S \in SUBSET ClientState
    PROVE  SM!Register(m, t, S) \in Managers /\ SM!Register(m, t, S).state = m.state
BY ManagersAre DEF SM!Register, Events

LEMMA RunCallbacksKeepsType ==
    ASSUME NEW m \in Managers, m.ready # <<>>
    PROVE  SM!RunCallbacks(m) \in Managers /\ SM!RunCallbacks(m).state = m.state
<1>1. m.ready \in Seq(Events) /\ m.fired \in Events
  BY ManagersAre
<1>2. Head(m.ready) \in Events /\ Tail(m.ready) \in Seq(Events)
  <2> HIDE DEF Events
  <2> QED BY <1>1
<1>3. m.fired \cup Head(m.ready) \in Events
  BY <1>1, <1>2 DEF Events
<1> QED BY <1>2, <1>3, ManagersAre DEF SM!RunCallbacks

LEMMA AfterPollKeepsType ==
    ASSUME NEW m \in Managers, NEW t \in Task
    PROVE  SM!AfterPoll(m, t) \in Managers /\ SM!AfterPoll(m, t).state = m.state
<1>1. /\ m.ready \in Seq(Events) /\ m.fired \in Events /\ m.waits \in Events
  BY ManagersAre
<1>2. [i \in DOMAIN m.ready |-> m.ready[i] \ SM!EventsOf(t)] \in Seq(Events)
  <2>1. /\ Len(m.ready) \in Nat /\ DOMAIN m.ready = 1..Len(m.ready)
        /\ \A i \in DOMAIN m.ready : m.ready[i] \in Events
    BY <1>1
  <2>2. \A i \in DOMAIN m.ready : m.ready[i] \ SM!EventsOf(t) \in Events
    BY <2>1 DEF Events
  <2> HIDE DEF Events
  <2> QED BY <2>1, <2>2
<1>3. m.fired \ SM!EventsOf(t) \in Events /\ m.waits \ SM!EventsOf(t) \in Events
  BY <1>1 DEF Events
<1>4. SM!ClearWaits(m, t) \in Managers /\ SM!ClearWaits(m, t).state = m.state
  BY <1>2, <1>3, ManagersAre DEF SM!ClearWaits
<1> QED BY <1>4, ManagersAre DEF SM!AfterPoll

\* Where the states of a message come from.
LEMMA TransitionsAre ==
    /\ \A s \in DOMAIN Steps : ClientTransitions[s] = Steps[s]
    /\ \A s \in DOMAIN Strict : ClientTransitions[s] = Strict[s]
    /\ \A s \in DOMAIN Refusable :
          ClientTransitions[s] = Refusable[s] \cup {"CHANNEL_CLOSE_RECEIVED"}
    /\ \A s \in DOMAIN IdleWith : ClientTransitions[s] = IdleWith[s] \cup Idle
    /\ \A s \in IdleAfter : ClientTransitions[s] = Idle
<1> DEFINE D1 == DOMAIN Steps
           D2 == DOMAIN Strict
           D3 == DOMAIN Refusable
           D4 == DOMAIN IdleWith
<1>1. /\ D1 \cap D2 = {} /\ D1 \cap D3 = {} /\ D1 \cap D4 = {} /\ D1 \cap IdleAfter = {}
      /\ D2 \cap D3 = {} /\ D2 \cap D4 = {} /\ D2 \cap IdleAfter = {}
      /\ D3 \cap D4 = {} /\ D3 \cap IdleAfter = {} /\ D4 \cap IdleAfter = {}
  BY DEF Steps, Strict, Refusable, IdleWith, IdleAfter
<1>2. ClientTransitions = [s \in D1 \cup D2 \cup D3 \cup D4 \cup IdleAfter |->
                              CASE s \in D1 -> Steps[s]
                                [] s \in D2 -> Strict[s]
                                [] s \in D3 -> Refusable[s] \cup {"CHANNEL_CLOSE_RECEIVED"}
                                [] s \in D4 -> IdleWith[s] \cup Idle
                                [] s \in IdleAfter -> Idle]
  BY DEF ClientTransitions, ClientState
<1> HIDE DEF D1, D2, D3, D4
<1>3. /\ \A s \in D1 : ClientTransitions[s] = Steps[s]
      /\ \A s \in D2 : ClientTransitions[s] = Strict[s]
      /\ \A s \in D3 : ClientTransitions[s] = Refusable[s] \cup {"CHANNEL_CLOSE_RECEIVED"}
      /\ \A s \in D4 : ClientTransitions[s] = IdleWith[s] \cup Idle
      /\ \A s \in IdleAfter : ClientTransitions[s] = Idle
  BY <1>1, <1>2
<1> QED BY <1>3 DEF D1, D2, D3, D4

LEMMA ContentFollows ==
    ASSUME NEW s \in ClientState,
           ClientTransitions[s] \cap {"CONTENT_HEADER_RECEIVED", "CONTENT_BODY_RECEIVED"} # {}
    PROVE  s \in ContentStates
<1> DEFINE parts == {"CONTENT_HEADER_RECEIVED", "CONTENT_BODY_RECEIVED"}
<1>1. /\ \A r \in DOMAIN Strict : Strict[r] \cap parts = {}
      /\ \A r \in DOMAIN Refusable : (Refusable[r] \cup {"CHANNEL_CLOSE_RECEIVED"}) \cap parts = {}
  BY DEF Strict, Refusable
<1>2. Idle \cap parts = {} /\ \A r \in DOMAIN IdleWith : (IdleWith[r] \cup Idle) \cap parts = {}
  BY DEF Idle, IdleWith
<1>3. \A r \in DOMAIN Steps : Steps[r] \cap parts # {} => r \in ContentStates
  BY DEF Steps, ContentStates
<1> HIDE DEF parts
<1>4. ClientTransitions[s] \cap parts # {}
  BY DEF parts
<1>5. CASE s \in DOMAIN Steps
  BY <1>3, <1>4, <1>5, TransitionsAre
<1>6. CASE s \in DOMAIN Strict
  BY <1>1, <1>4, <1>6, TransitionsAre
<1>7. CASE s \in DOMAIN Refusable
  BY <1>1, <1>4, <1>7, TransitionsAre
<1>8. CASE s \in DOMAIN IdleWith
  BY <1>2, <1>4, <1>8, TransitionsAre
<1>9. CASE s \in IdleAfter
  BY <1>2, <1>4, <1>9, TransitionsAre
<1> QED BY <1>5, <1>6, <1>7, <1>8, <1>9 DEF ClientState

LEMMA ContentNeedsMessage ==
    ASSUME ClientTyped,
           NEW value \in {"CONTENT_HEADER_RECEIVED", "CONTENT_BODY_RECEIVED"},
           ~ SM!Refuses(manager, value, None)
    PROVE  message \in Message
<1>1. manager.state \in ClientState /\ value # "EXCEPTION"
  BY ManagersAre DEF ClientTyped
<1>2. value = manager.state \/ value \in ClientTransitions[manager.state]
  BY <1>1 DEF SM!Refuses, SM!Unchanged
<1>3. manager.state \in ContentStates
  <2>1. CASE value = manager.state
    BY <2>1 DEF ContentStates
  <2>2. CASE value \in ClientTransitions[manager.state]
    BY <1>1, <2>2, ContentFollows
  <2> QED BY <1>2, <2>1, <2>2
<1>4. message # None
  BY <1>3 DEF ClientTyped
<1>5. message \in Message \cup {None}
  BY DEF ClientTyped
<1> QED BY <1>4, <1>5

LEMMA AssembledFollows ==
    "MESSAGE_ASSEMBLED" \in ClientTransitions["CONTENT_BODY_RECEIVED"]
<1>1. /\ "CONTENT_BODY_RECEIVED" \in DOMAIN Steps
      /\ Steps["CONTENT_BODY_RECEIVED"] = {"MESSAGE_ASSEMBLED"}
  BY DEF Steps
<1> QED BY <1>1, TransitionsAre

---------------------------------------------------------------------------
(* The lock *)

InLock == {"queued", "waiting"}

LEMMA LockFitsMember ==
    ASSUME NEW l, NEW k, LockFits(l, k), l # <<>>
    PROVE  /\ Head(l) \in Task /\ k[Head(l)].pc \in InLock
           /\ Tail(l) \in Seq(Task) /\ Head(l) = l[1] /\ 1 \in DOMAIN l
<1>1. l \in Seq(Task)
  BY DEF LockFits
<1>2. Head(l) \in Task /\ Tail(l) \in Seq(Task) /\ Head(l) = l[1] /\ 1 \in DOMAIN l
  BY <1>1, TailIs
<1> QED BY <1>2 DEF LockFits, InLock

\* A task outside the lock stays there.
LEMMA LockStays ==
    ASSUME NEW l, NEW k, LockFits(l, k), NEW t \in Task, NEW r \in Record,
           k[t].pc \notin InLock, r.pc \notin InLock
    PROVE  LockFits(l, [k EXCEPT ![t] = r])
BY DEF LockFits, InLock

\* The task at the head of the lock leaves it.
LEMMA LockReleases ==
    ASSUME NEW l, NEW k, LockFits(l, k), l # <<>>, NEW t \in Task, Head(l) = t,
           NEW r \in Record, r.pc \notin InLock
    PROVE  LockFits(Tail(l), [k EXCEPT ![t] = r])
<1> DEFINE n == [k EXCEPT ![t] = r]
<1>1. /\ l \in Seq(Task) /\ k \in [Task -> Record]
      /\ \A i, j \in DOMAIN l : l[i] = l[j] => i = j
      /\ \A u \in Task : k[u].pc = "waiting" => Head(l) = u
      /\ \A u \in Task : k[u].pc \in InLock <=> \E i \in DOMAIN l : l[i] = u
  BY DEF LockFits, InLock
<1>2. /\ Tail(l) \in Seq(Task)
      /\ 1 \in DOMAIN l /\ Head(l) = l[1]
      /\ \A i \in DOMAIN Tail(l) : i + 1 \in DOMAIN l /\ Tail(l)[i] = l[i + 1]
      /\ \A i \in DOMAIN l : i = 1 \/ i - 1 \in DOMAIN Tail(l)
      /\ DOMAIN l \subseteq Nat /\ DOMAIN Tail(l) \subseteq Nat
  BY <1>1, TailIs
<1>3. \A i \in DOMAIN l : i = 1 \/ Tail(l)[i - 1] = l[i]
  BY <1>2
<1>4. \A i \in DOMAIN Tail(l) : i + 1 # 1
  <2>1. \A i \in DOMAIN Tail(l) : i > 0
    BY <1>2
  <2> QED BY <1>2, <2>1
<1>5. n \in [Task -> Record] /\ n[t] = r /\ \A u \in Task : u # t => n[u] = k[u]
  BY <1>1
<1>6. \A i, j \in DOMAIN Tail(l) : Tail(l)[i] = Tail(l)[j] => i = j
  <2>1. \A i, j \in DOMAIN Tail(l) : i + 1 = j + 1 => i = j
    BY <1>2
  <2> QED BY <1>1, <1>2, <2>1
<1> HIDE DEF n
<1>7. \A u \in Task : n[u].pc # "waiting"
  BY <1>1, <1>5 DEF InLock
<1>8. ASSUME NEW u \in Task
      PROVE  n[u].pc \in InLock <=> \E i \in DOMAIN Tail(l) : Tail(l)[i] = u
  <2>1. CASE u = t
    <3>1. n[u].pc \notin InLock
      BY <1>5, <2>1
    <3>2. ASSUME NEW i \in DOMAIN Tail(l), Tail(l)[i] = u
          PROVE  FALSE
      <4>1. i + 1 \in DOMAIN l /\ l[i + 1] = l[1] /\ i + 1 # 1
        BY <1>2, <1>4, <2>1, <3>2
      <4> QED BY <1>1, <1>2, <4>1
    <3> QED BY <3>1, <3>2
  <2>2. CASE u # t
    <3>1. n[u].pc \in InLock <=> \E i \in DOMAIN l : l[i] = u
      BY <1>1, <1>5, <2>2
    <3>2. l[1] # u
      BY <1>2, <2>2
    <3>3. ASSUME NEW i \in DOMAIN l, l[i] = u
          PROVE  \E j \in DOMAIN Tail(l) : Tail(l)[j] = u
      BY <1>2, <1>3, <3>2, <3>3
    <3>4. ASSUME NEW i \in DOMAIN Tail(l), Tail(l)[i] = u
          PROVE  \E j \in DOMAIN l : l[j] = u
      BY <1>2, <3>4
    <3> QED BY <3>1, <3>3, <3>4
  <2> QED BY <2>1, <2>2
<1> QED BY <1>2, <1>5, <1>6, <1>7, <1>8 DEF LockFits, InLock, n

\* A task asks for the lock.
LEMMA LockJoins ==
    ASSUME NEW l, NEW k, LockFits(l, k), NEW t \in Task, NEW r \in Record,
           k[t].pc \notin InLock, r.pc = "queued"
    PROVE  LockFits(Append(l, t), [k EXCEPT ![t] = r])
<1> DEFINE n == [k EXCEPT ![t] = r]
           all == Append(l, t)
           top == Len(l) + 1
<1>1. /\ l \in Seq(Task) /\ k \in [Task -> Record]
      /\ \A i, j \in DOMAIN l : l[i] = l[j] => i = j
      /\ \A u \in Task : k[u].pc = "waiting" => l # <<>> /\ Head(l) = u
      /\ \A u \in Task : k[u].pc \in InLock <=> \E i \in DOMAIN l : l[i] = u
  BY DEF LockFits, InLock
<1>2. /\ all \in Seq(Task) /\ all = l \o <<t>>
      /\ l # <<>> => all # <<>> /\ Head(all) = Head(l)
  BY <1>1
<1>3. /\ top \in DOMAIN all /\ all[top] = t
      /\ \A i \in DOMAIN all : i = top \/ (i < top /\ i \in DOMAIN l)
      /\ \A i \in DOMAIN l : i \in DOMAIN all /\ all[i] = l[i]
  BY <1>1, <1>2, OneMoreIs
<1>4. n \in [Task -> Record] /\ n[t] = r /\ \A u \in Task : u # t => n[u] = k[u]
  BY <1>1
<1> HIDE DEF n, all, top
<1>5. \A i, j \in DOMAIN all : all[i] = all[j] => i = j
  BY <1>1, <1>3
<1>6. ASSUME NEW u \in Task, n[u].pc = "waiting"
      PROVE  all # <<>> /\ Head(all) = u
  BY <1>1, <1>2, <1>4, <1>6
<1>7. \A u \in Task : n[u].pc \in InLock <=> \E i \in DOMAIN all : all[i] = u
  BY <1>1, <1>3, <1>4 DEF InLock
<1> QED BY <1>2, <1>4, <1>5, <1>6, <1>7 DEF LockFits, InLock, n, all

\* The task at the head of the lock begins to wait.
LEMMA LockAcquires ==
    ASSUME NEW l, NEW k, LockFits(l, k), l # <<>>, NEW t \in Task, Head(l) = t,
           NEW r \in Record, r.pc = "waiting"
    PROVE  LockFits(l, [k EXCEPT ![t] = r])
<1> DEFINE n == [k EXCEPT ![t] = r]
<1>1. k[t].pc \in InLock
  BY LockFitsMember
<1>2. n \in [Task -> Record] /\ n[t] = r /\ \A u \in Task : u # t => n[u] = k[u]
  BY DEF LockFits
<1> HIDE DEF n
<1> QED BY <1>1, <1>2 DEF LockFits, InLock, n

---------------------------------------------------------------------------
(* Frames of a type, counted *)

LEMMA PositionsAreFinite ==
    ASSUME NEW S, NEW frames \in Seq(S), NEW types
    PROVE  IsFiniteSet(Positions(frames, types)) /\ Count(frames, types) \in Nat
<1>1. Len(frames) \in Nat /\ DOMAIN frames = 1..Len(frames)
  OBVIOUS
<1>2. IsFiniteSet(1..Len(frames))
  BY <1>1, FS_Interval
<1>3. Positions(frames, types) \in SUBSET (1..Len(frames))
  BY <1>1 DEF Positions
<1>4. IsFiniteSet(Positions(frames, types))
  BY <1>2, <1>3, FS_Subset
<1> QED BY <1>4, FS_CardinalityType DEF Count

LEMMA CountTail ==
    ASSUME NEW S, NEW frames \in Seq(S), frames # <<>>, NEW types
    PROVE  Count(Tail(frames), types) =
               IF Head(frames).type \in types THEN Count(frames, types) - 1
               ELSE Count(frames, types)
<1> DEFINE P == Positions(frames, types)
           Q == Positions(Tail(frames), types)
           f == [i \in Q |-> i + 1]
<1>1. /\ 1 \in DOMAIN frames /\ Head(frames) = frames[1]
      /\ \A i \in DOMAIN Tail(frames) :
            i + 1 \in DOMAIN frames /\ Tail(frames)[i] = frames[i + 1]
      /\ \A i \in DOMAIN frames : i = 1 \/ i - 1 \in DOMAIN Tail(frames)
      /\ DOMAIN frames \subseteq Nat /\ DOMAIN Tail(frames) \subseteq Nat
  BY TailIs
<1>2. Tail(frames) \in Seq(S)
  OBVIOUS
<1>3. \A i \in DOMAIN Tail(frames) : i > 0 /\ i \in Nat
  BY <1>2
<1>4. \A i \in Q : i \in Nat /\ i + 1 \in P \ {1}
  BY <1>1, <1>3 DEF Positions
<1>5. \A i \in P \ {1} : i - 1 \in Q /\ (i - 1) + 1 = i
  <2>1. \A i \in P \ {1} : i \in Nat /\ i - 1 \in DOMAIN Tail(frames) /\ (i - 1) + 1 = i
    BY <1>1 DEF Positions
  <2> QED BY <1>1, <2>1 DEF Positions
<1> HIDE DEF P, Q
<1>6. f \in Bijection(Q, P \ {1})
  <2>1. f \in [Q -> P \ {1}]
    BY <1>4
  <2>2. \A i, j \in Q : f[i] = f[j] => i = j
    BY <1>4
  <2>3. \A j \in P \ {1} : \E i \in Q : f[i] = j
    BY <1>5
  <2> QED BY <2>1, <2>2, <2>3 DEF Bijection, Injection, Surjection, IsInjective
<1>7. IsFiniteSet(P) /\ IsFiniteSet(Q)
  BY <1>2, PositionsAreFinite DEF P, Q
<1>8. Cardinality(P \ {1}) = Cardinality(Q)
  BY <1>6, <1>7, FS_Bijection DEF ExistsBijection
<1>9. Cardinality(P \ {1}) = IF 1 \in P THEN Cardinality(P) - 1 ELSE Cardinality(P)
  BY <1>7, FS_RemoveElement
<1>10. 1 \in P <=> Head(frames).type \in types
  BY <1>1 DEF P, Positions
<1> QED BY <1>8, <1>9, <1>10 DEF Count, P, Q

LEMMA CountOneMore ==
    ASSUME NEW S, NEW frames \in Seq(S), NEW frame \in S, NEW types
    PROVE  Count(frames \o <<frame>>, types) =
               IF frame.type \in types THEN Count(frames, types) + 1
               ELSE Count(frames, types)
<1> DEFINE all == frames \o <<frame>>
           top == Len(frames) + 1
           P == Positions(frames, types)
<1>1. /\ top \in DOMAIN all /\ all[top] = frame
      /\ \A i \in DOMAIN all : i = top \/ (i < top /\ i \in DOMAIN frames)
      /\ \A i \in DOMAIN frames : i \in DOMAIN all /\ all[i] = frames[i]
  BY OneMoreIs
<1>2. top \notin P
  <2>1. DOMAIN frames = 1..Len(frames) /\ Len(frames) \in Nat
    OBVIOUS
  <2> QED BY <2>1 DEF Positions
<1> HIDE DEF all, top
<1>3. IsFiniteSet(P)
  BY PositionsAreFinite
<1>4. CASE frame.type \in types
  <2>1. Positions(all, types) = P \cup {top}
    BY <1>1, <1>4 DEF Positions
  <2> QED BY <1>2, <1>3, <1>4, <2>1, FS_AddElement DEF Count, all
<1>5. CASE frame.type \notin types
  <2>1. Positions(all, types) = P
    BY <1>1, <1>5 DEF Positions
  <2> QED BY <1>5, <2>1 DEF Count, all
<1> QED BY <1>4, <1>5

LEMMA CountPrefix ==
    ASSUME NEW S, NEW frames \in Seq(S), NEW n \in 0..Len(frames), NEW types
    PROVE  Count(SubSeq(frames, 1, n), types) <= Count(frames, types)
<1> DEFINE some == SubSeq(frames, 1, n)
<1>1. /\ Len(frames) \in Nat /\ DOMAIN frames = 1..Len(frames)
      /\ DOMAIN some = 1..n /\ \A i \in 1..n : some[i] = frames[i]
  OBVIOUS
<1>2. \A i \in DOMAIN some : i \in DOMAIN frames /\ some[i] = frames[i]
  BY <1>1
<1> HIDE DEF some
<1>3. Positions(some, types) \in SUBSET Positions(frames, types)
  BY <1>2 DEF Positions
<1>4. Cardinality(Positions(some, types)) <= Cardinality(Positions(frames, types))
  BY <1>3, PositionsAreFinite, FS_Subset
<1> QED BY <1>4 DEF Count, some

LEMMA CountConcatNone ==
    ASSUME NEW S, NEW frames \in Seq(S), NEW more \in Seq(S), NEW types,
           \A i \in DOMAIN more : more[i].type \notin types
    PROVE  Count(frames \o more, types) = Count(frames, types)
<1> DEFINE all == frames \o more
<1>1. /\ Len(frames) \in Nat /\ Len(more) \in Nat
      /\ DOMAIN frames = 1..Len(frames) /\ DOMAIN more = 1..Len(more)
      /\ DOMAIN all = 1..(Len(frames) + Len(more))
      /\ \A i \in 1..Len(frames) : all[i] = frames[i]
      /\ \A i \in 1..Len(more) : all[Len(frames) + i] = more[i]
  OBVIOUS
<1> HIDE DEF all
<1>2. \A i \in DOMAIN frames : i \in DOMAIN all /\ all[i] = frames[i]
  BY <1>1
<1>3. \A i \in DOMAIN all : i \in DOMAIN frames \/ all[i].type \notin types
  <2>1. \A i \in DOMAIN all : i \in DOMAIN frames
            \/ (i - Len(frames) \in DOMAIN more /\ all[i] = more[i - Len(frames)])
    BY <1>1
  <2> QED BY <2>1
<1>4. Positions(all, types) = Positions(frames, types)
  BY <1>2, <1>3 DEF Positions
<1> QED BY <1>4 DEF Count, all

---------------------------------------------------------------------------
(* The calls and their futures *)

LEMMA QueueingPut ==
    ASSUME NEW k \in [Task -> Record], IsFiniteSet(Queueing(k)), NEW t \in Task,
           NEW r \in Record
    PROVE  LET n == [k EXCEPT ![t] = r] IN
           /\ IsFiniteSet(Queueing(n))
           /\ Cardinality(Queueing(k)) \in Nat /\ Cardinality(Queueing(n)) \in Nat
           /\ WillConsume(k[t]) /\ ~ WillConsume(r) =>
                 Cardinality(Queueing(n)) = Cardinality(Queueing(k)) - 1
           /\ ~ WillConsume(k[t]) /\ WillConsume(r) =>
                 Cardinality(Queueing(n)) = Cardinality(Queueing(k)) + 1
           /\ ~ WillConsume(k[t]) /\ ~ WillConsume(r) => Queueing(n) = Queueing(k)
<1> DEFINE n == [k EXCEPT ![t] = r]
           rest == Queueing(k) \ {t}
<1>1. n[t] = r /\ \A u \in Task : u # t => n[u] = k[u]
  OBVIOUS
<1> HIDE DEF n
<1>2. /\ WillConsume(r) => Queueing(n) = rest \cup {t}
      /\ ~ WillConsume(r) => Queueing(n) = rest
      /\ WillConsume(k[t]) <=> t \in Queueing(k)
  BY <1>1 DEF Queueing
<1> HIDE DEF rest
<1>3. /\ IsFiniteSet(rest)
      /\ Cardinality(rest) = IF t \in Queueing(k) THEN Cardinality(Queueing(k)) - 1
                             ELSE Cardinality(Queueing(k))
  BY FS_RemoveElement DEF rest
<1>4. /\ IsFiniteSet(rest \cup {t})
      /\ Cardinality(rest \cup {t}) = Cardinality(rest) + 1
  <2>1. t \notin rest
    BY DEF rest
  <2> QED BY <1>3, <2>1, FS_AddElement
<1>5. Cardinality(Queueing(k)) \in Nat /\ Cardinality(rest) \in Nat
  BY <1>3, FS_CardinalityType
<1>6. t \notin Queueing(k) => rest = Queueing(k)
  BY DEF rest
<1>7. IsFiniteSet(Queueing(n)) /\ Cardinality(Queueing(n)) \in Nat
  BY <1>2, <1>3, <1>4, FS_CardinalityType
<1>8. ASSUME WillConsume(k[t]), ~ WillConsume(r)
      PROVE  Cardinality(Queueing(n)) = Cardinality(Queueing(k)) - 1
  BY <1>2, <1>3, <1>8
<1>9. ASSUME ~ WillConsume(k[t]), WillConsume(r)
      PROVE  Cardinality(Queueing(n)) = Cardinality(Queueing(k)) + 1
  BY <1>2, <1>3, <1>4, <1>9
<1>10. ASSUME ~ WillConsume(k[t]), ~ WillConsume(r)
       PROVE  Queueing(n) = Queueing(k)
  BY <1>2, <1>6, <1>10
<1> QED BY <1>5, <1>7, <1>8, <1>9, <1>10 DEF n

LEMMA CallIs ==
    ASSUME NEW k \in [Task -> Record], NEW t \in Task
    PROVE  /\ k[t].left \in Nat /\ <<t, k[t].left>> \in Calls
           /\ \A call \in Calls : call[1] \in Task /\ call[2] \in Nat
           /\ \A call \in Calls : call = <<call[1], call[2]>>
BY DEF Record, Calls

LEMMA FutureIs ==
    ASSUME NEW f, FuturesTyped(f)
    PROVE  /\ f.pending \in Seq(Awaiting) /\ f.get \in Calls \cup {None}
           /\ DOMAIN f = {"pending", "get", "done"}
           /\ \A call \in DOMAIN f.done : call \in Calls
           /\ \A i \in DOMAIN f.pending : f.pending[i].call \in Calls
           /\ f = [pending |-> f.pending, get |-> f.get, done |-> f.done]
<1>1. f \in [pending : Seq(Awaiting), get : Calls \cup {None}, done : {f.done}]
  BY DEF FuturesTyped
<1>2. \A i \in DOMAIN f.pending : f.pending[i] \in Awaiting
  BY <1>1
<1> QED BY <1>1, <1>2 DEF FuturesTyped, Awaiting

\* A call that has begun goes on.
LEMMA OwnGoes ==
    ASSUME NEW k, NEW f, CallsOwn(k, f), NEW t \in Task, NEW r \in Record, RecordOK(r),
           Active(k[t]), Active(r), r.left = k[t].left,
           r.call = k[t].call \/ r.call = "basic_cancel"
    PROVE  CallsOwn([k EXCEPT ![t] = r], f)
<1> DEFINE n == [k EXCEPT ![t] = r]
<1>1. k \in [Task -> Record]
  BY DEF CallsOwn
<1>2. n \in [Task -> Record] /\ n[t] = r /\ \A u \in Task : u # t => n[u] = k[u]
  BY <1>1
<1>3. IsFiniteSet(Queueing(n))
  BY <1>1, QueueingPut DEF CallsOwn
<1> HIDE DEF n
<1>4. \A call \in Calls : Begun(k, call) => Begun(n, call)
  BY <1>1, <1>2, CallIs DEF Begun
<1>5. ASSUME NEW u \in Task
      PROVE  /\ n[u].left = k[u].left /\ Active(n[u]) => Active(k[u])
             /\ Consumes(n[u].call) => Consumes(k[u].call)
             /\ n[u].call = "basic_get" => k[u].call = "basic_get"
  BY <1>2 DEF Consumes
<1>6. \A u \in Task : Active(n[u]) => Active(k[u])
  BY <1>2
<1>7. \A u \in Task : n[u].left = k[u].left
  BY <1>2
<1>8. FuturesOwn(n, f)
  BY <1>4, <1>5, <1>6, <1>7 DEF CallsOwn, FuturesOwn
<1>9. \A u \in Task : RecordOK(n[u])
  BY <1>2 DEF CallsOwn
<1> QED BY <1>2, <1>3, <1>8, <1>9 DEF CallsOwn, n

\* A call ends.
LEMMA OwnEnds ==
    ASSUME NEW k, NEW f, CallsOwn(k, f), NEW t \in Task, NEW r \in Record,
           Active(k[t]), ~ Active(r), r.left = k[t].left - 1
    PROVE  CallsOwn([k EXCEPT ![t] = r], f)
<1> DEFINE n == [k EXCEPT ![t] = r]
<1>1. k \in [Task -> Record]
  BY DEF CallsOwn
<1>2. n \in [Task -> Record] /\ n[t] = r /\ \A u \in Task : u # t => n[u] = k[u]
  BY <1>1
<1>3. IsFiniteSet(Queueing(n))
  BY <1>1, QueueingPut DEF CallsOwn
<1>4. RecordOK(r)
  BY DEF RecordOK, Active
<1> HIDE DEF n
<1>5. ASSUME NEW call \in Calls, Begun(k, call)
      PROVE  Begun(n, call)
  <2>1. call[1] \in Task /\ call[2] \in Nat /\ k[call[1]].left \in Nat
    BY <1>1, CallIs
  <2>2. CASE call[1] = t
    BY <1>2, <1>5, <2>1, <2>2 DEF Begun
  <2>3. CASE call[1] # t
    BY <1>2, <1>5, <2>1, <2>3 DEF Begun
  <2> QED BY <2>2, <2>3
<1>6. \A u \in Task : Active(n[u]) => u # t
  BY <1>2
<1>7. FuturesOwn(n, f)
  BY <1>2, <1>5, <1>6 DEF CallsOwn, FuturesOwn
<1>8. \A u \in Task : RecordOK(n[u])
  BY <1>2, <1>4 DEF CallsOwn
<1> QED BY <1>2, <1>3, <1>7, <1>8 DEF CallsOwn, n

\* basic_get forgets its future.
LEMMA OwnForgets ==
    ASSUME NEW k, NEW f, CallsOwn(k, f)
    PROVE  /\ CallsOwn(k, [f EXCEPT !.get = None])
           /\ [f EXCEPT !.get = None].pending = f.pending
           /\ [f EXCEPT !.get = None].done = f.done
<1> DEFINE g == [f EXCEPT !.get = None]
<1>1. /\ f.pending \in Seq(Awaiting) /\ DOMAIN f = {"pending", "get", "done"}
      /\ f = [pending |-> f.pending, get |-> f.get, done |-> f.done]
  BY FutureIs DEF CallsOwn
<1>2. g = [pending |-> f.pending, get |-> None, done |-> f.done]
  BY <1>1
<1>3. g.pending = f.pending /\ g.done = f.done /\ g.get = None
  BY <1>2
<1>4. FuturesTyped(g)
  <2>1. g \in [pending : Seq(Awaiting), get : Calls \cup {None}, done : {g.done}]
    BY <1>1, <1>2, <1>3
  <2> QED BY <1>3, <2>1 DEF FuturesTyped, CallsOwn
<1>5. \A call \in Calls : call # None
  BY ConsumersAssumption
<1> HIDE DEF g
<1>6. \A call \in Calls : IsPending(g, call) = IsPending(f, call)
  BY <1>3 DEF IsPending
<1>7. \A t \in Task : Active(k[t]) => <<t, k[t].left>> \in Calls
  BY CallIs DEF CallsOwn
<1>8. FuturesOwn(k, g)
  BY <1>3, <1>5, <1>6, <1>7 DEF CallsOwn, FuturesOwn
<1> QED BY <1>3, <1>4, <1>8 DEF CallsOwn, g

\* What a call c leaves in f for its answer.
PreparedFor(f, c, m) ==
    IF Consumes(m) THEN [f EXCEPT !.pending = Append(@, [call |-> c, method |-> m])]
    ELSE IF m = "basic_get" THEN [f EXCEPT !.get = c]
    ELSE f

LEMMA PreparedIs ==
    ASSUME NEW t, NEW m
    PROVE  Prepared(t, m) = PreparedFor(futures, Call(t), m)
<1>1. CASE Consumes(m)
  <2>1. m # "basic_get"
    BY <1>1 DEF Consumes
  <2> QED BY <1>1, <2>1 DEF Prepared, PreparedFor
<1>2. CASE ~ Consumes(m) /\ m = "basic_get"
  BY <1>2 DEF Prepared, PreparedFor
<1>3. CASE ~ Consumes(m) /\ m # "basic_get"
  BY <1>3 DEF Prepared, PreparedFor
<1> QED BY <1>1, <1>2, <1>3

LEMMA PreparedTyped ==
    ASSUME NEW f, FuturesTyped(f), NEW c \in Calls, NEW m
    PROVE  LET g == PreparedFor(f, c, m) IN
           /\ FuturesTyped(g) /\ g.done = f.done
           /\ g.get = IF m = "basic_get" THEN c ELSE f.get
           /\ Len(f.pending) \in Nat
           /\ Len(g.pending) = IF Consumes(m) THEN Len(f.pending) + 1 ELSE Len(f.pending)
           /\ \A i \in DOMAIN f.pending : i \in DOMAIN g.pending /\ g.pending[i] = f.pending[i]
           /\ \A i \in DOMAIN g.pending :
                 \/ i \in DOMAIN f.pending
                 \/ /\ Consumes(m) /\ i = Len(f.pending) + 1
                    /\ g.pending[i].call = c
<1> DEFINE p == [call |-> c, method |-> m]
           g == PreparedFor(f, c, m)
<1>1. /\ f.pending \in Seq(Awaiting) /\ DOMAIN f = {"pending", "get", "done"}
      /\ f.get \in Calls \cup {None}
      /\ f = [pending |-> f.pending, get |-> f.get, done |-> f.done]
  BY FutureIs
<1>2. CASE Consumes(m)
  <2>1. p \in Awaiting /\ m # "basic_get"
    BY <1>2 DEF Awaiting, Consumes, ConsumeMethods
  <2>2. p.call = c
    OBVIOUS
  <2> HIDE DEF p
  <2> DEFINE all == Append(f.pending, p)
  <2>3. /\ all \in Seq(Awaiting) /\ all = f.pending \o <<p>> /\ Len(f.pending) \in Nat
        /\ Len(all) = Len(f.pending) + 1
    BY <1>1, <2>1
  <2>4. LET top == Len(f.pending) + 1 IN
        /\ top \in DOMAIN all /\ all[top] = p
        /\ \A i \in DOMAIN all : i = top \/ (i < top /\ i \in DOMAIN f.pending)
        /\ \A i \in DOMAIN f.pending : i \in DOMAIN all /\ all[i] = f.pending[i]
    BY <1>1, <2>1, <2>3, OneMoreIs
  <2> HIDE DEF all
  <2>5. g = [pending |-> all, get |-> f.get, done |-> f.done]
    BY <1>1, <1>2 DEF PreparedFor, all, p
  <2> HIDE DEF g
  <2>6. g.pending = all /\ g.get = f.get /\ g.done = f.done
    BY <2>5
  <2>7. g \in [pending : Seq(Awaiting), get : Calls \cup {None}, done : {g.done}]
    BY <1>1, <2>3, <2>5, <2>6
  <2>8. FuturesTyped(g)
    BY <2>6, <2>7 DEF FuturesTyped
  <2> QED BY <1>2, <2>1, <2>2, <2>3, <2>4, <2>6, <2>8 DEF g
<1>3. CASE ~ Consumes(m)
  <2> DEFINE get == IF m = "basic_get" THEN c ELSE f.get
  <2>1. g = [pending |-> f.pending, get |-> get, done |-> f.done]
    BY <1>1, <1>3 DEF PreparedFor
  <2>2. get \in Calls \cup {None}
    BY <1>1
  <2>3. get = IF m = "basic_get" THEN c ELSE f.get
    OBVIOUS
  <2> HIDE DEF g, get
  <2>4. g.pending = f.pending /\ g.get = get /\ g.done = f.done
    BY <2>1
  <2>5. g \in [pending : Seq(Awaiting), get : Calls \cup {None}, done : {g.done}]
    BY <1>1, <2>1, <2>2, <2>4
  <2>6. FuturesTyped(g)
    BY <2>4, <2>5 DEF FuturesTyped
  <2>7. Len(f.pending) \in Nat
    BY <1>1
  <2> QED BY <1>3, <2>3, <2>4, <2>6, <2>7 DEF g
<1> QED BY <1>2, <1>3

\* A call begins.
LEMMA OwnBegins ==
    ASSUME NEW k, NEW f, CallsOwn(k, f), NEW t \in Task, NEW r \in Record, RecordOK(r),
           ~ Active(k[t]), Active(r), r.left = k[t].left, NEW m, r.call = m
    PROVE  CallsOwn([k EXCEPT ![t] = r], PreparedFor(f, <<t, k[t].left>>, m))
<1> DEFINE n == [k EXCEPT ![t] = r]
           c == <<t, k[t].left>>
           g == PreparedFor(f, c, m)
<1>1. k \in [Task -> Record] /\ FuturesTyped(f)
  BY DEF CallsOwn
<1>2. n \in [Task -> Record] /\ n[t] = r /\ \A u \in Task : u # t => n[u] = k[u]
  BY <1>1
<1>3. IsFiniteSet(Queueing(n))
  BY <1>1, QueueingPut DEF CallsOwn
<1>4. c \in Calls /\ c[1] = t /\ c[2] = k[t].left /\ k[t].left \in Nat
  BY <1>1, CallIs
<1>5. /\ FuturesTyped(g) /\ g.done = f.done
      /\ g.get = IF m = "basic_get" THEN c ELSE f.get
      /\ \A i \in DOMAIN f.pending : i \in DOMAIN g.pending /\ g.pending[i] = f.pending[i]
      /\ \A i \in DOMAIN g.pending :
            \/ i \in DOMAIN f.pending
            \/ /\ Consumes(m) /\ i = Len(f.pending) + 1
               /\ g.pending[i].call = c
  BY <1>1, <1>4, PreparedTyped
<1>6. \A u \in Task : u # t => <<u, k[u].left>> # c
  BY <1>4
<1> HIDE DEF n, c, g
<1>7. ~ Begun(k, c)
  BY <1>4 DEF Begun
<1>8. Begun(n, c)
  BY <1>2, <1>4 DEF Begun
<1>9. \A call \in Calls : Begun(k, call) => Begun(n, call)
  BY <1>1, <1>2, CallIs DEF Begun
<1>10. ~ IsPending(f, c) /\ c \notin DOMAIN f.done /\ c # f.get
  BY <1>4, <1>7 DEF CallsOwn, FuturesOwn
<1>11. \A call \in Calls :
          /\ IsPending(g, call) => IsPending(f, call) \/ (Consumes(m) /\ call = c)
          /\ IsPending(f, call) => IsPending(g, call)
  BY <1>5 DEF IsPending
<1>12. m = "basic_get" => ~ Consumes(m)
  BY DEF Consumes
<1>13. \A call \in Calls :
          IsPending(g, call) \/ call \in DOMAIN g.done \/ call = g.get => Begun(n, call)
  BY <1>5, <1>8, <1>9, <1>11 DEF CallsOwn, FuturesOwn
<1>14. \A i, j \in DOMAIN g.pending : g.pending[i].call = g.pending[j].call => i = j
  <2>1. \A i \in DOMAIN f.pending : g.pending[i].call # c
    BY <1>5, <1>10 DEF IsPending
  <2>2. \A i, j \in DOMAIN f.pending : f.pending[i].call = f.pending[j].call => i = j
    BY DEF CallsOwn, FuturesOwn
  <2> QED BY <1>5, <2>1, <2>2
<1>15. ASSUME NEW call \in Calls, IsPending(g, call)
       PROVE  call \notin DOMAIN g.done /\ call # g.get
  <2>1. CASE IsPending(f, call)
    <3>1. call \notin DOMAIN f.done /\ call # f.get
      BY <2>1 DEF CallsOwn, FuturesOwn
    <3> QED BY <1>5, <1>10, <2>1, <3>1
  <2>2. CASE Consumes(m) /\ call = c
    BY <1>5, <1>10, <1>12, <2>2
  <2> QED BY <1>11, <1>15, <2>1, <2>2
<1>16. ASSUME NEW u \in Task, Active(n[u])
       PROVE  LET call == <<u, n[u].left>> IN
              /\ Consumes(n[u].call) =>
                    call # g.get /\ (call \in DOMAIN g.done => g.done[call] \in TagResult)
              /\ n[u].call = "basic_get" =>
                    /\ ~ IsPending(g, call)
                    /\ call \in DOMAIN g.done => g.done[call] \in GetResults
  <2>1. CASE u = t
    <3>1. n[u].call = m /\ <<u, n[u].left>> = c
      BY <1>2, <2>1 DEF c
    <3>2. Consumes(m) => c # g.get
      BY <1>5, <1>10, <1>12
    <3>3. m = "basic_get" => ~ IsPending(g, c)
      BY <1>4, <1>10, <1>11, <1>12
    <3> QED BY <1>5, <1>10, <3>1, <3>2, <3>3
  <2>2. CASE u # t
    <3> DEFINE call == <<u, k[u].left>>
    <3>1. n[u] = k[u] /\ call # c /\ call \in Calls
      BY <1>1, <1>2, <1>6, <2>2, CallIs
    <3>2. /\ Consumes(k[u].call) =>
                call # f.get /\ (call \in DOMAIN f.done => f.done[call] \in TagResult)
          /\ k[u].call = "basic_get" =>
                /\ ~ IsPending(f, call)
                /\ call \in DOMAIN f.done => f.done[call] \in GetResults
      BY <1>16, <3>1 DEF CallsOwn, FuturesOwn
    <3> HIDE DEF call
    <3>3. call # f.get => call # g.get
      BY <1>5, <3>1
    <3>4. ~ IsPending(f, call) => ~ IsPending(g, call)
      BY <1>11, <3>1
    <3> QED BY <1>5, <3>1, <3>2, <3>3, <3>4 DEF call
  <2> QED BY <2>1, <2>2
<1>17. FuturesOwn(n, g)
  BY <1>13, <1>14, <1>15, <1>16 DEF FuturesOwn
<1>18. \A u \in Task : RecordOK(n[u])
  BY <1>2 DEF CallsOwn
<1> QED BY <1>2, <1>3, <1>5, <1>17, <1>18 DEF CallsOwn, n, g, c

---------------------------------------------------------------------------
(* What the application has *)

\* What arrived, in the application a and the results d.
HandedIn(a) == {h.message : h \in a.handed}
MailedIn(a) == UNION {Range(a.mailbox[call]) : call \in DOMAIN a.mailbox}
DoneIn(d) == {d[call].message : call \in {c \in DOMAIN d : DOMAIN d[c] = {"message"}}}
ArrivedIn(a, d) == HandedIn(a) \cup MailedIn(a) \cup DoneIn(d)

LEMMA ArrivedIs == Arrived = ArrivedIn(app, futures.done)
BY DEF Arrived, ArrivedIn, HandedIn, MailedIn, DoneIn

AppOf(held, fresh, handed, settled, mailbox) ==
    [held |-> held, fresh |-> fresh, handed |-> handed, settled |-> settled,
     mailbox |-> mailbox]

LEMMA AppIs ==
    ASSUME NEW a, AppTyped(a)
    PROVE  /\ a = AppOf(a.held, a.fresh, a.handed, a.settled, a.mailbox)
           /\ a.held \in SUBSET Message /\ a.fresh \in Message \cup {None}
           /\ a.handed \in SUBSET [to : Calls, message : Message]
           /\ a.settled \in SUBSET (Nat \X Nat)
           /\ DOMAIN a.mailbox \subseteq Calls
           /\ \A call \in DOMAIN a.mailbox : a.mailbox[call] \in Seq(Message)
BY DEF AppTyped, AppOf

LEMMA AppMade ==
    ASSUME NEW held \in SUBSET Message, NEW fresh \in Message \cup {None},
           NEW handed \in SUBSET [to : Calls, message : Message],
           NEW settled \in SUBSET (Nat \X Nat), NEW mailbox,
           DOMAIN mailbox \subseteq Calls,
           \A call \in DOMAIN mailbox : mailbox[call] \in Seq(Message)
    PROVE  LET a == AppOf(held, fresh, handed, settled, mailbox) IN
           /\ AppTyped(a) /\ a.held = held /\ a.fresh = fresh /\ a.handed = handed
           /\ a.settled = settled /\ a.mailbox = mailbox
BY DEF AppTyped, AppOf

LEMMA FreshKeeps ==
    ASSUME NEW a, AppTyped(a)
    PROVE  LET b == [a EXCEPT !.fresh = None] IN
           AppTyped(b) /\ b.handed = a.handed /\ b.mailbox = a.mailbox
<1>1. [a EXCEPT !.fresh = None] = AppOf(a.held, None, a.handed, a.settled, a.mailbox)
  <2>1. a = AppOf(a.held, a.fresh, a.handed, a.settled, a.mailbox)
    BY AppIs
  <2> QED BY <2>1 DEF AppOf
<1> QED BY <1>1, AppIs, AppMade

LEMMA HandIs ==
    ASSUME NEW a, AppTyped(a), NEW to \in Calls, NEW msg \in Message
    PROVE  LET b == Hand(a, to, msg) IN
           /\ AppTyped(b) /\ b.mailbox = a.mailbox
           /\ b.handed = a.handed \cup {[to |-> to, message |-> msg]}
<1> DEFINE h == [to |-> to, message |-> msg]
           held == a.held \cup {msg}
           handed == a.handed \cup {h}
<1>1. Hand(a, to, msg) = [a EXCEPT !.held = held, !.fresh = msg, !.handed = handed]
  BY DEF Hand
<1>2. h \in [to : Calls, message : Message]
  OBVIOUS
<1> HIDE DEF h
<1>3. held \in SUBSET Message /\ handed \in SUBSET [to : Calls, message : Message]
  BY <1>2, AppIs
<1> HIDE DEF held, handed
<1>4. Hand(a, to, msg) = AppOf(held, msg, handed, a.settled, a.mailbox)
  <2>1. a = AppOf(a.held, a.fresh, a.handed, a.settled, a.mailbox)
    BY AppIs
  <2>2. DOMAIN a = {"held", "fresh", "handed", "settled", "mailbox"}
    BY <2>1 DEF AppOf
  <2>3. Hand(a, to, msg) = [x \in {"held", "fresh", "handed", "settled", "mailbox"} |->
                               IF x = "held" THEN held ELSE IF x = "fresh" THEN msg
                               ELSE IF x = "handed" THEN handed ELSE a[x]]
    BY <1>1, <2>2
  <2> QED BY <2>3 DEF AppOf
<1>5. /\ AppTyped(Hand(a, to, msg)) /\ Hand(a, to, msg).mailbox = a.mailbox
      /\ Hand(a, to, msg).handed = handed
  BY <1>3, <1>4, AppIs, AppMade
<1> QED BY <1>5 DEF handed, h

LEMMA DoneArrives ==
    ASSUME NEW a, NEW d, NEW c \in DOMAIN d, DOMAIN d[c] = {"message"}
    PROVE  d[c].message \in ArrivedIn(a, d)
<1>1. c \in {e \in DOMAIN d : DOMAIN d[e] = {"message"}}
  OBVIOUS
<1>2. d[c].message \in DoneIn(d)
  BY <1>1 DEF DoneIn
<1> QED BY <1>2 DEF ArrivedIn

\* A message that is handed, and had arrived before.
LEMMA HandedArrives ==
    ASSUME NEW a, AppTyped(a), NEW to \in Calls, NEW msg \in Message, NEW d
    PROVE  ArrivedIn(Hand(a, to, msg), d) = ArrivedIn(a, d) \cup {msg}
<1> DEFINE b == Hand(a, to, msg)
           h == [to |-> to, message |-> msg]
<1>1. b.mailbox = a.mailbox /\ b.handed = a.handed \cup {h} /\ h.message = msg
  BY HandIs
<1> HIDE DEF b, h
<1>2. {g.message : g \in b.handed} = {g.message : g \in a.handed} \cup {msg}
  BY <1>1
<1>3. HandedIn(b) = HandedIn(a) \cup {msg} /\ MailedIn(b) = MailedIn(a)
  BY <1>1, <1>2 DEF HandedIn, MailedIn
<1> QED BY <1>3 DEF ArrivedIn, b

---------------------------------------------------------------------------
(* The turn of a task.  A request that is made and answered in one turn goes    *)
(* through the records k: those of the tasks, with the call of t under way.     *)

Behind(k, t) ==
    /\ task \in [Task -> Record] /\ k \in [Task -> Record]
    /\ \A u \in Task : u # t => k[u] = task[u]
    /\ k[t].left = task[t].left

LEMMA GoesIs ==
    ASSUME NEW k, NEW t \in Task, Behind(k, t), NEW m \in DOMAIN Request,
           NEW tag \in Calls \cup {None}, NEW pc \in Pcs, Goes(t, m, tag, pc)
    PROVE  \E r \in Record :
              /\ task' = [k EXCEPT ![t] = r]
              /\ r.pc = pc /\ r.call = m /\ r.tag = tag /\ r.left = k[t].left
<1> DEFINE r == [task[t] EXCEPT !.pc = pc, !.call = m, !.tag = tag]
<1>1. task[t] \in Record
  BY DEF Behind
<1>2. /\ r \in Record
      /\ r.pc = pc /\ r.call = m /\ r.tag = tag /\ r.left = task[t].left
  BY <1>1 DEF Record
<1>3. task' = [task EXCEPT ![t] = r]
  BY DEF Goes, Behind
<1> HIDE DEF r
<1>4. task' = [k EXCEPT ![t] = r]
  BY <1>3 DEF Behind
<1>5. r.left = k[t].left
  BY <1>2 DEF Behind
<1> QED BY <1>2, <1>4, <1>5

LEMMA EndIs ==
    ASSUME NEW k, NEW t \in Task, Behind(k, t), k[t].left > 0, NEW m \in DOMAIN Request,
           NEW result \in Results, End(t, m, result)
    PROVE  \E r \in Record :
              /\ task' = [k EXCEPT ![t] = r]
              /\ r.pc = "idle" /\ r.call = m /\ r.result = result
              /\ r.left = k[t].left - 1
<1> DEFINE left == task[t].left - 1
           r == [pc |-> "idle", call |-> m, result |-> result, tag |-> None, left |-> left]
<1>1. task[t].left \in Nat /\ task[t].left > 0
  BY CallIs DEF Behind
<1>2. left \in Nat
  BY <1>1
<1>3. task' = [task EXCEPT ![t] = r]
  BY DEF End, Behind
<1>4. left = k[t].left - 1
  BY DEF Behind
<1> HIDE DEF left
<1>5. /\ r \in Record
      /\ r.pc = "idle" /\ r.call = m /\ r.result = result /\ r.left = left
  BY <1>2 DEF Record, Pcs
<1> HIDE DEF r
<1>6. task' = [k EXCEPT ![t] = r]
  BY <1>3 DEF Behind
<1> QED BY <1>4, <1>5, <1>6

\* A turn that leaves the lock, or stays outside: the calls and their futures are as
\* they should be, no future is made or gets a result, and what had arrived has.
Leaves(k, t, f, a) ==
    /\ \E r \in Record : task' = [k EXCEPT ![t] = r] /\ r.pc \notin InLock
    /\ CallsOwn(task', futures')
    /\ futures'.pending = f.pending /\ futures'.done = f.done
    /\ AppTyped(app') /\ ArrivedIn(app', f.done) = ArrivedIn(a, f.done)

LEMMA EndLeaves ==
    ASSUME NEW k, NEW f, NEW a, CallsOwn(k, f), AppTyped(a), NEW t \in Task, Behind(k, t),
           Active(k[t]), NEW m \in DOMAIN Request, NEW result \in Results,
           End(t, m, result), futures' = f, app' = a
    PROVE  Leaves(k, t, f, a)
<1>1. k[t].left > 0
  BY DEF CallsOwn, RecordOK
<1>2. PICK r \in Record : /\ task' = [k EXCEPT ![t] = r]
                          /\ r.pc = "idle" /\ r.left = k[t].left - 1
  BY <1>1, EndIs
<1>3. ~ Active(r) /\ r.pc \notin InLock
  BY <1>2 DEF Active, InLock
<1>4. CallsOwn([k EXCEPT ![t] = r], f)
  BY <1>2, <1>3, OwnEnds
<1> QED BY <1>2, <1>3, <1>4 DEF Leaves

LEMMA GoesLeaves ==
    ASSUME NEW k, NEW f, NEW a, CallsOwn(k, f), AppTyped(a), NEW t \in Task, Behind(k, t),
           Active(k[t]), NEW tag \in Calls \cup {None}, NEW pc \in Pcs,
           Goes(t, k[t].call, tag, pc), pc \notin InLock \cup {"idle"},
           pc = "iterating" => tag \in Calls /\ k[t].call = "consume",
           futures' = f, app' = a
    PROVE  Leaves(k, t, f, a)
<1>1. k[t].call \in DOMAIN Request /\ k[t].left > 0
  BY DEF CallsOwn, RecordOK
<1>2. PICK r \in Record : /\ task' = [k EXCEPT ![t] = r]
                          /\ r.pc = pc /\ r.call = k[t].call /\ r.tag = tag
                          /\ r.left = k[t].left
  BY <1>1, GoesIs
<1>3. RecordOK(r) /\ Active(r) /\ r.pc \notin InLock
  BY <1>1, <1>2 DEF RecordOK, Active, InLock
<1>4. CallsOwn([k EXCEPT ![t] = r], f)
  BY <1>2, <1>3, OwnGoes
<1> QED BY <1>2, <1>3, <1>4 DEF Leaves

LEMMA AwaitLeaves ==
    ASSUME NEW k, NEW f, NEW a, CallsOwn(k, f), AppTyped(a), NEW t \in Task, Behind(k, t),
           Active(k[t]), NEW m, k[t].call = m, Consumes(m) \/ m = "basic_get",
           Await(t, m, f, a)
    PROVE  Leaves(k, t, f, a)
<1> DEFINE c == <<t, k[t].left>>
           value == f.done[c]
<1>1. Call(t) = c /\ c \in Calls /\ m \in DOMAIN Request
  <2>1. k \in [Task -> Record] /\ Call(t) = c
    BY DEF Behind, Call
  <2>2. m \in DOMAIN Request
    BY DEF CallsOwn, RecordOK
  <2> QED BY <2>1, <2>2, CallIs
<1>2. /\ Consumes(m) /\ c \in DOMAIN f.done => value \in TagResult
      /\ m = "basic_get" /\ c \in DOMAIN f.done => value \in GetResults
  BY DEF CallsOwn, FuturesOwn
<1> HIDE DEF c
<1>3. CASE c \notin DOMAIN f.done
  <2>1. Goes(t, k[t].call, None, "future") /\ futures' = f /\ app' = a
    BY <1>1, <1>3 DEF Await
  <2>2. "future" \in Pcs /\ "future" \notin InLock \cup {"idle"}
    BY DEF Pcs, InLock
  <2> QED BY <2>1, <2>2, GoesLeaves
<1>4. CASE c \in DOMAIN f.done /\ m = "consume"
  <2>1. Goes(t, k[t].call, value.tag, "iterating") /\ futures' = f /\ app' = a
    BY <1>1, <1>4 DEF Await
  <2>2. value.tag \in Calls
    BY <1>2, <1>4 DEF Consumes, TagResult
  <2>3. "iterating" \in Pcs /\ "iterating" \notin InLock \cup {"idle"}
    BY DEF Pcs, InLock
  <2> HIDE DEF value
  <2> QED BY <1>4, <2>1, <2>2, <2>3, GoesLeaves
<1>5. CASE c \in DOMAIN f.done /\ m = "basic_consume"
  <2>1. End(t, m, "answered") /\ futures' = f /\ app' = a
    BY <1>1, <1>5 DEF Await
  <2>2. "answered" \in Results
    BY DEF Results
  <2> QED BY <1>1, <2>1, <2>2, EndLeaves
<1>6. CASE c \in DOMAIN f.done /\ m = "basic_get"
  <2> DEFINE g == [f EXCEPT !.get = None]
             b == IF value.message # None THEN Hand(a, c, value.message) ELSE a
  <2>1. End(t, m, "answered") /\ futures' = g /\ app' = b
    BY <1>1, <1>6 DEF Await
  <2>2. CallsOwn(k, g) /\ g.pending = f.pending /\ g.done = f.done
    BY OwnForgets
  <2>3. value \in GetResults
    BY <1>2, <1>6
  <2>4. AppTyped(b) /\ ArrivedIn(b, f.done) = ArrivedIn(a, f.done)
    <3>1. CASE value.message = None
      BY <3>1
    <3>2. CASE value.message # None
      <4>1. value.message \in Message /\ DOMAIN f.done[c] = {"message"}
        BY <2>3, <3>2 DEF GetResults
      <4>2. value.message \in ArrivedIn(a, f.done)
        BY <1>6, <4>1, DoneArrives
      <4>3. b = Hand(a, c, value.message)
        BY <3>2
      <4>4. AppTyped(Hand(a, c, value.message))
        BY <1>1, <4>1, HandIs
      <4>5. ArrivedIn(Hand(a, c, value.message), f.done)
               = ArrivedIn(a, f.done) \cup {value.message}
        BY <1>1, <4>1, HandedArrives
      <4> QED BY <4>2, <4>3, <4>4, <4>5
    <3> QED BY <3>1, <3>2
  <2>5. "answered" \in Results
    BY DEF Results
  <2> HIDE DEF g, b, value
  <2>6. Leaves(k, t, g, b)
    BY <1>1, <2>1, <2>2, <2>4, <2>5, EndLeaves
  <2> QED BY <2>2, <2>4, <2>6 DEF Leaves
<1> QED BY <1>3, <1>4, <1>5, <1>6 DEF Consumes

LEMMA ReturnLeaves ==
    ASSUME NEW k, NEW f, NEW a, CallsOwn(k, f), AppTyped(a), NEW t \in Task, Behind(k, t),
           Active(k[t]), NEW m, k[t].call = m, NEW result \in Results,
           Return(t, m, result, f, a)
    PROVE  Leaves(k, t, f, a)
<1> DEFINE end == IF m = "queue_declare" /\ last # "DeclareOk" THEN "AttributeError"
                  ELSE result
<1>1. m \in DOMAIN Request
  BY DEF CallsOwn, RecordOK
<1>2. CASE Consumes(m) \/ m = "basic_get"
  BY <1>2, AwaitLeaves DEF Return
<1>3. CASE ~ (Consumes(m) \/ m = "basic_get")
  <2>1. End(t, m, end) /\ futures' = f /\ app' = a
    BY <1>3 DEF Return
  <2>2. end \in Results
    BY DEF Results
  <2> HIDE DEF end
  <2> QED BY <1>1, <2>1, <2>2, EndLeaves
<1> QED BY <1>2, <1>3

---------------------------------------------------------------------------
(* Requests *)

LEMMA RequestIs ==
    ASSUME NEW m \in DOMAIN Request
    PROVE  /\ Sent(m) \in ClientState \ ContentStates
           /\ Range(WaitsOn(m)) \in SUBSET ClientState
<1> DEFINE S == {"BASIC_CONSUME_SENT", "BASIC_CONSUMEOK_RECEIVED", "BASIC_CANCEL_SENT",
                 "BASIC_CANCELOK_RECEIVED", "BASIC_GET_SENT", "BASIC_GETEMPTY_RECEIVED",
                 "BASIC_GETOK_RECEIVED", "QUEUE_DECLARE_SENT", "QUEUE_DECLAREOK_RECEIVED",
                 "CHANNEL_CLOSE_RECEIVED"}
           R == {<<"BASIC_CONSUME_SENT", "BASIC_CONSUMEOK_RECEIVED">>,
                 <<"BASIC_CANCEL_SENT", "BASIC_CANCELOK_RECEIVED">>,
                 <<"BASIC_GET_SENT", "BASIC_GETEMPTY_RECEIVED", "BASIC_GETOK_RECEIVED">>,
                 <<"QUEUE_DECLARE_SENT", "QUEUE_DECLAREOK_RECEIVED">>}
<1>1. Request[m] \in R
  BY DEF Request
<1>2. S \subseteq ClientState
  BY StatesAre
<1>3. /\ \A r \in R : r \in Seq(S) /\ r # <<>>
      /\ \A r \in R : r[1] \in {"BASIC_CONSUME_SENT", "BASIC_CANCEL_SENT", "BASIC_GET_SENT",
                                "QUEUE_DECLARE_SENT"}
  OBVIOUS
<1>4. Sent(m) \in S \ ContentStates
  BY <1>1, <1>3 DEF Sent, ContentStates
<1>5. "CHANNEL_CLOSE_RECEIVED" \in S
  OBVIOUS
<1> HIDE DEF R, S
<1>6. Append(Tail(Request[m]), "CHANNEL_CLOSE_RECEIVED") \in Seq(S)
  BY <1>1, <1>3, <1>5
<1>7. Range(WaitsOn(m)) \subseteq S
  BY <1>6 DEF Range, WaitsOn
<1> QED BY <1>2, <1>4, <1>7

LEMMA WriteKeeps ==
    ASSUME outbox \in Seq(OutFrame), NEW frame \in OutFrame, Write(<<frame>>)
    PROVE  /\ outbox' \in Seq(OutFrame)
           /\ Count(outbox, ConsumeMethods) \in Nat /\ Count(outbox', ConsumeMethods) \in Nat
           /\ frame.type \in ConsumeMethods =>
                 Count(outbox', ConsumeMethods) <= Count(outbox, ConsumeMethods) + 1
           /\ frame.type \notin ConsumeMethods =>
                 Count(outbox', ConsumeMethods) = Count(outbox, ConsumeMethods)
<1> DEFINE more == outbox \o <<frame>>
<1>1. more \in Seq(OutFrame)
  BY OneMore
<1>2. Count(more, ConsumeMethods) = IF frame.type \in ConsumeMethods
                                    THEN Count(outbox, ConsumeMethods) + 1
                                    ELSE Count(outbox, ConsumeMethods)
  BY CountOneMore
<1>3. outbox' = more \/ outbox' = outbox
  BY DEF Write
<1> HIDE DEF more
<1>4. Count(outbox, ConsumeMethods) \in Nat /\ Count(more, ConsumeMethods) \in Nat
  BY <1>1, PositionsAreFinite
<1> QED BY <1>1, <1>2, <1>3, <1>4

\* The state of the client does not become one of those in which a message is collected.
Collects == manager'.state \in ContentStates => manager'.state = manager.state

\* A turn of a task: d are the results that are there, and a is the application.
TurnOK(d, a) ==
    /\ LockFits(lock', task') /\ CallsFit(task', futures', inbox, outbox')
    /\ AppTyped(app') /\ ArrivedIn(app', futures'.done) = ArrivedIn(a, d)
    /\ manager' \in Managers /\ Collects
    /\ outbox' \in Seq(OutFrame)

\* What it takes for the futures to be enough after a turn of t.
NoMoreAsked(k, t, out, next) ==
    /\ Count(next, ConsumeMethods) \in Nat /\ Count(out, ConsumeMethods) \in Nat
    /\ \/ Count(next, ConsumeMethods) <= Count(out, ConsumeMethods)
       \/ /\ WillConsume(k[t])
          /\ Count(next, ConsumeMethods) <= Count(out, ConsumeMethods) + 1

\* No answer is asked for, and the futures stay.
LEMMA FitsAfter ==
    ASSUME NEW k, NEW f, NEW in \in Seq(InFrame), NEW out, CallsFit(k, f, in, out),
           NEW t \in Task, NEW r \in Record, ~ WillConsume(r), NEW n, n = [k EXCEPT ![t] = r],
           NEW g, CallsOwn(n, g), g.pending = f.pending,
           NEW next, NoMoreAsked(k, t, out, next)
    PROVE  CallsFit(n, g, in, next)
<1>1. k \in [Task -> Record] /\ IsFiniteSet(Queueing(k))
  BY DEF CallsFit, CallsOwn
<1>2. /\ Cardinality(Queueing(k)) \in Nat /\ Cardinality(Queueing(n)) \in Nat
      /\ WillConsume(k[t]) => Cardinality(Queueing(n)) = Cardinality(Queueing(k)) - 1
      /\ ~ WillConsume(k[t]) => Queueing(n) = Queueing(k)
  BY <1>1, QueueingPut
<1>3. Count(in, {"ConsumeOk"}) \in Nat
  BY PositionsAreFinite
<1>4. Len(f.pending) \in Nat
  <2>1. f.pending \in Seq(Awaiting)
    BY FutureIs DEF CallsFit, CallsOwn
  <2> QED BY <2>1
<1>5. Count(in, {"ConsumeOk"}) + Count(out, ConsumeMethods) + Cardinality(Queueing(k))
         <= Len(f.pending)
  BY DEF CallsFit
<1>6. Count(in, {"ConsumeOk"}) + Count(next, ConsumeMethods) + Cardinality(Queueing(n))
         <= Len(f.pending)
  BY <1>2, <1>3, <1>4, <1>5 DEF NoMoreAsked
<1> QED BY <1>6 DEF CallsFit

\* A request whose task has the lock.
HasLock(k, held, f, a, t, m, tag) ==
    /\ LockFits(held, k) /\ held # <<>> /\ Head(held) = t
    /\ CallsFit(k, f, inbox, outbox) /\ AppTyped(a) /\ Behind(k, t)
    /\ k[t].pc = "queued" /\ k[t].call = m /\ k[t].tag = tag

LEMMA HasLockIs ==
    ASSUME NEW k, NEW held, NEW f, NEW a, NEW t \in Task, NEW m, NEW tag,
           HasLock(k, held, f, a, t, m, tag)
    PROVE  /\ Active(k[t]) /\ CallsOwn(k, f) /\ m \in DOMAIN Request
           /\ tag \in Calls \cup {None} /\ Call(t) \in Calls
           /\ m = "basic_cancel" => tag \in Calls
<1>1. CallsOwn(k, f) /\ Active(k[t]) /\ RecordOK(k[t]) /\ k[t] \in Record
  BY DEF HasLock, CallsFit, CallsOwn, Active
<1>2. Call(t) = <<t, k[t].left>> /\ k \in [Task -> Record]
  BY DEF Call, HasLock, Behind
<1>3. Call(t) \in Calls
  BY <1>2, CallIs
<1>4. tag \in Calls \cup {None}
  BY <1>1 DEF HasLock, Record
<1>5. m \in DOMAIN Request
  BY <1>1 DEF HasLock, RecordOK
<1>6. m = "basic_cancel" => tag \in Calls
  BY <1>1 DEF HasLock, RecordOK
<1> QED BY <1>1, <1>3, <1>4, <1>5, <1>6

LEMMA SendSkippedTurn ==
    ASSUME NEW k, NEW held, NEW f, NEW a, NEW t \in Task, NEW m, NEW tag,
           HasLock(k, held, f, a, t, m, tag), manager \in Managers,
           inbox \in Seq(InFrame), outbox \in Seq(OutFrame),
           SendSkipped(t, m, held, f, a)
    PROVE  TurnOK(f.done, a)
<1>1. "skipped" \in Results
  BY DEF Results
<1>2. Leaves(k, t, f, a)
  BY <1>1, HasLockIs, ReturnLeaves DEF SendSkipped, HasLock
<1>3. PICK r \in Record : task' = [k EXCEPT ![t] = r] /\ r.pc \notin InLock
  BY <1>2 DEF Leaves
<1>4. lock' = Tail(held) /\ outbox' = outbox /\ manager' = manager
  BY DEF SendSkipped
<1>5. LockFits(lock', task')
  BY <1>3, <1>4, LockReleases DEF HasLock
<1>6. ~ WillConsume(r)
  BY <1>3 DEF WillConsume, InLock
<1>7. Count(outbox, ConsumeMethods) \in Nat
  BY PositionsAreFinite
<1>8. CallsFit(task', futures', inbox, outbox')
  <2>1. NoMoreAsked(k, t, outbox, outbox')
    BY <1>4, <1>7 DEF NoMoreAsked
  <2>2. CallsOwn(task', futures') /\ futures'.pending = f.pending
    BY <1>2 DEF Leaves
  <2>3. CallsFit(k, f, inbox, outbox)
    BY DEF HasLock
  <2> QED BY <1>3, <1>6, <2>1, <2>2, <2>3, FitsAfter
<1> QED BY <1>2, <1>4, <1>5, <1>8 DEF TurnOK, Leaves, Collects

LEMMA CallFrameIs ==
    ASSUME NEW k, NEW held, NEW f, NEW a, NEW t \in Task, NEW m, NEW tag,
           HasLock(k, held, f, a, t, m, tag)
    PROVE  /\ CallFrame(t, m, tag) \in OutFrame
           /\ CallFrame(t, m, tag).type = m
           /\ m \in ConsumeMethods <=> WillConsume(k[t])
<1>1. /\ m \in DOMAIN Request /\ tag \in Calls \cup {None} /\ Call(t) \in Calls
      /\ m = "basic_cancel" => tag \in Calls
  BY HasLockIs
<1>2. m \in ConsumeMethods <=> WillConsume(k[t])
  BY DEF ConsumeMethods, WillConsume, Consumes, HasLock
<1>3. CallFrame(t, m, tag) \in OutFrame
  <2>1. CASE m = "basic_cancel"
    BY <1>1, <2>1 DEF CallFrame, OutFrame
  <2>2. CASE m # "basic_cancel"
    BY <1>1, <2>2 DEF CallFrame, OutFrame
  <2> QED BY <2>1, <2>2
<1> QED BY <1>2, <1>3 DEF CallFrame

LEMMA SendRefusedTurn ==
    ASSUME NEW k, NEW held, NEW f, NEW a, NEW t \in Task, NEW m, NEW tag,
           HasLock(k, held, f, a, t, m, tag), manager \in Managers,
           inbox \in Seq(InFrame), outbox \in Seq(OutFrame),
           SendRefused(t, m, tag, held, f, a)
    PROVE  TurnOK(f.done, a)
<1> DEFINE frame == CallFrame(t, m, tag)
<1>1. STE \in Results
  BY DEF Results, Error
<1>2. Leaves(k, t, f, a)
  BY <1>1, HasLockIs, EndLeaves DEF SendRefused, HasLock
<1>3. PICK r \in Record : task' = [k EXCEPT ![t] = r] /\ r.pc \notin InLock
  BY <1>2 DEF Leaves
<1>4. lock' = Tail(held) /\ manager' = SM!Refuse(manager, STE) /\ Write(<<frame>>)
  BY DEF SendRefused
<1>5. LockFits(lock', task')
  BY <1>3, <1>4, LockReleases DEF HasLock
<1>6. ~ WillConsume(r)
  BY <1>3 DEF WillConsume, InLock
<1>7. frame \in OutFrame /\ (frame.type \in ConsumeMethods <=> WillConsume(k[t]))
  BY CallFrameIs
<1> HIDE DEF frame
<1>8. /\ outbox' \in Seq(OutFrame)
      /\ Count(outbox, ConsumeMethods) \in Nat /\ Count(outbox', ConsumeMethods) \in Nat
      /\ WillConsume(k[t]) =>
            Count(outbox', ConsumeMethods) <= Count(outbox, ConsumeMethods) + 1
      /\ ~ WillConsume(k[t]) =>
            Count(outbox', ConsumeMethods) = Count(outbox, ConsumeMethods)
  BY <1>4, <1>7, WriteKeeps
<1>9. CallsFit(task', futures', inbox, outbox')
  <2>1. NoMoreAsked(k, t, outbox, outbox')
    BY <1>8 DEF NoMoreAsked
  <2>2. CallsOwn(task', futures') /\ futures'.pending = f.pending
    BY <1>2 DEF Leaves
  <2>3. CallsFit(k, f, inbox, outbox)
    BY DEF HasLock
  <2> QED BY <1>3, <1>6, <2>1, <2>2, <2>3, FitsAfter
<1>10. manager' \in Managers /\ manager'.state = manager.state
  BY <1>4, EnterKeepsType, StatesAre
<1> QED BY <1>2, <1>5, <1>8, <1>9, <1>10 DEF TurnOK, Leaves, Collects

LEMMA SendWaitsTurn ==
    ASSUME NEW k, NEW held, NEW f, NEW a, NEW t \in Task, NEW m, NEW tag,
           HasLock(k, held, f, a, t, m, tag), manager \in Managers,
           inbox \in Seq(InFrame), outbox \in Seq(OutFrame),
           SendWaits(t, m, tag, held, f, a)
    PROVE  TurnOK(f.done, a)
<1> DEFINE frame == CallFrame(t, m, tag)
           entered == Enter(manager, Sent(m))
<1>1. /\ m \in DOMAIN Request /\ tag \in Calls \cup {None} /\ Active(k[t])
      /\ CallsOwn(k, f)
  BY HasLockIs
<1>2. PICK r \in Record : /\ task' = [k EXCEPT ![t] = r]
                          /\ r.pc = "waiting" /\ r.call = m /\ r.tag = tag
                          /\ r.left = k[t].left
  <2>1. "waiting" \in Pcs
    BY DEF Pcs
  <2> QED BY <1>1, <2>1, GoesIs DEF SendWaits, HasLock
<1>3. RecordOK(r) /\ Active(r) /\ ~ WillConsume(r)
  <2>1. k[t].left > 0
    BY <1>1 DEF CallsOwn, RecordOK
  <2> QED BY <1>1, <1>2, <2>1 DEF RecordOK, Active, WillConsume
<1>4. /\ lock' = held /\ futures' = f /\ app' = a /\ Write(<<frame>>)
      /\ manager' = SM!Register(entered, t, Range(WaitsOn(m)))
  BY DEF SendWaits
<1>5. CallsOwn(task', futures')
  <2>1. k[t].call = m
    BY DEF HasLock
  <2> QED BY <1>1, <1>2, <1>3, <1>4, <2>1, OwnGoes
<1>6. LockFits(lock', task')
  BY <1>2, <1>4, LockAcquires DEF HasLock
<1>7. frame \in OutFrame /\ (frame.type \in ConsumeMethods <=> WillConsume(k[t]))
  BY CallFrameIs
<1> HIDE DEF frame
<1>8. /\ outbox' \in Seq(OutFrame)
      /\ Count(outbox, ConsumeMethods) \in Nat /\ Count(outbox', ConsumeMethods) \in Nat
      /\ WillConsume(k[t]) =>
            Count(outbox', ConsumeMethods) <= Count(outbox, ConsumeMethods) + 1
      /\ ~ WillConsume(k[t]) =>
            Count(outbox', ConsumeMethods) = Count(outbox, ConsumeMethods)
  BY <1>4, <1>7, WriteKeeps
<1>9. CallsFit(task', futures', inbox, outbox')
  <2>1. NoMoreAsked(k, t, outbox, outbox')
    BY <1>8 DEF NoMoreAsked
  <2>2. CallsFit(k, f, inbox, outbox)
    BY DEF HasLock
  <2> QED BY <1>2, <1>3, <1>4, <1>5, <2>1, <2>2, FitsAfter
<1>10. manager' \in Managers /\ Collects
  <2>1. /\ Sent(m) \in ClientState \ ContentStates
        /\ Range(WaitsOn(m)) \in SUBSET ClientState
    BY <1>1, RequestIs
  <2>2. entered \in Managers /\ entered.state \in {manager.state, Sent(m)}
    BY <2>1, EnterKeepsType
  <2> HIDE DEF entered
  <2>3. manager' \in Managers /\ manager'.state = entered.state
    BY <1>4, <2>1, <2>2, RegisterKeepsType
  <2> QED BY <2>1, <2>2, <2>3 DEF Collects
<1> QED BY <1>4, <1>6, <1>8, <1>9, <1>10 DEF TurnOK, HasLock

LEMMA SendTurn ==
    ASSUME NEW k, NEW held, NEW f, NEW a, NEW t \in Task, NEW m, NEW tag,
           HasLock(k, held, f, a, t, m, tag), manager \in Managers,
           inbox \in Seq(InFrame), outbox \in Seq(OutFrame),
           Send(t, m, tag, held, f, a)
    PROVE  TurnOK(f.done, a)
BY SendSkippedTurn, SendRefusedTurn, SendWaitsTurn DEF Send

---------------------------------------------------------------------------
(* The steps of the application and of its calls *)

LEMMA InvIs ==
    ASSUME IInv
    PROVE  /\ manager \in Managers /\ session \in Sessions
           /\ inbox \in Seq(InFrame) /\ outbox \in Seq(OutFrame)
           /\ LockFits(lock, task) /\ CallsFit(task, futures, inbox, outbox)
           /\ CallsOwn(task, futures) /\ AppTyped(app)
           /\ task \in [Task -> Record] /\ \A t \in Task : RecordOK(task[t])
<1>1. manager \in Managers /\ session \in Sessions
  BY DEF IInv, ClientTyped
<1>2. inbox \in Seq(InFrame) /\ outbox \in Seq(OutFrame)
  BY DEF IInv, BrokerTyped
<1>3. LockFits(lock, task) /\ CallsFit(task, futures, inbox, outbox) /\ AppTyped(app)
  BY DEF IInv, TasksOK
<1>4. CallsOwn(task, futures)
  BY <1>3 DEF CallsFit
<1> QED BY <1>1, <1>2, <1>3, <1>4 DEF CallsOwn

\* A call that begins: there is one more future if it will ask for one.
LEMMA FitsBegun ==
    ASSUME NEW k, NEW f, NEW in \in Seq(InFrame), NEW out \in Seq(OutFrame),
           CallsFit(k, f, in, out), NEW t \in Task, ~ WillConsume(k[t]),
           NEW r \in Record, r.pc = "queued", NEW m, r.call = m, NEW c \in Calls,
           CallsOwn([k EXCEPT ![t] = r], PreparedFor(f, c, m))
    PROVE  CallsFit([k EXCEPT ![t] = r], PreparedFor(f, c, m), in, out)
<1> DEFINE n == [k EXCEPT ![t] = r]
           g == PreparedFor(f, c, m)
<1>1. k \in [Task -> Record] /\ IsFiniteSet(Queueing(k)) /\ FuturesTyped(f)
  BY DEF CallsFit, CallsOwn
<1>2. WillConsume(r) <=> Consumes(m)
  BY DEF WillConsume
<1>3. /\ Cardinality(Queueing(k)) \in Nat /\ Cardinality(Queueing(n)) \in Nat
      /\ Consumes(m) => Cardinality(Queueing(n)) = Cardinality(Queueing(k)) + 1
      /\ ~ Consumes(m) => Queueing(n) = Queueing(k)
  BY <1>1, <1>2, QueueingPut
<1>4. /\ Len(f.pending) \in Nat
      /\ Len(g.pending) = IF Consumes(m) THEN Len(f.pending) + 1 ELSE Len(f.pending)
  BY <1>1, PreparedTyped
<1>5. Count(in, {"ConsumeOk"}) \in Nat /\ Count(out, ConsumeMethods) \in Nat
  BY PositionsAreFinite
<1> HIDE DEF n, g
<1>6. Count(in, {"ConsumeOk"}) + Count(out, ConsumeMethods) + Cardinality(Queueing(k))
         <= Len(f.pending)
  BY DEF CallsFit
<1>7. Count(in, {"ConsumeOk"}) + Count(out, ConsumeMethods) + Cardinality(Queueing(n))
         <= Len(g.pending)
  BY <1>3, <1>4, <1>5, <1>6
<1> QED BY <1>7 DEF CallsFit, n, g

\* async with self._rpc_lock: the records, the futures and the application of a task
\* that begins to ask for the lock.
LEMMA RpcPrepares ==
    ASSUME IInv, NEW t \in Task, NEW m \in DOMAIN Request, NEW tag \in Calls \cup {None},
           m = "basic_cancel" => tag \in Calls,
           task[t].pc \in {"idle", "iterating"}, task[t].left > 0,
           task[t].pc = "iterating" => m = "basic_cancel"
    PROVE  LET r == [task[t] EXCEPT !.pc = "queued", !.call = m, !.tag = tag]
               k == [task EXCEPT ![t] = r]
               c == <<t, task[t].left>>
               f == PreparedFor(futures, c, m)
               a == [app EXCEPT !.fresh = None]
           IN  /\ r \in Record /\ r.pc = "queued" /\ r.call = m /\ r.left = task[t].left
               /\ c \in Calls /\ Call(t) = c /\ Prepared(t, m) = f
               /\ task[t].pc \notin InLock
               /\ LockFits(Append(lock, t), k) /\ CallsFit(k, f, inbox, outbox)
               /\ AppTyped(a) /\ a.handed = app.handed /\ a.mailbox = app.mailbox
               /\ f.done = futures.done
               /\ lock = <<>> => HasLock(k, <<t>>, f, a, t, m, tag)
<1> DEFINE r == [task[t] EXCEPT !.pc = "queued", !.call = m, !.tag = tag]
           k == [task EXCEPT ![t] = r]
           c == <<t, task[t].left>>
           f == PreparedFor(futures, c, m)
           a == [app EXCEPT !.fresh = None]
<1>1. task \in [Task -> Record] /\ task[t] \in Record
  BY InvIs
<1>2. /\ r \in Record
      /\ r.pc = "queued" /\ r.call = m /\ r.tag = tag /\ r.left = task[t].left
  BY <1>1 DEF Record, Pcs
<1>3. c \in Calls
  BY <1>1, CallIs
<1>4. Call(t) = c /\ Prepared(t, m) = f
  BY PreparedIs DEF Call
<1>5. k \in [Task -> Record] /\ k[t] = r /\ \A u \in Task : u # t => k[u] = task[u]
  BY <1>1, <1>2
<1> HIDE DEF r
<1>6. /\ RecordOK(r) /\ Active(r) /\ ~ WillConsume(task[t])
      /\ task[t].pc \notin InLock
  <2>1. RecordOK(r) /\ Active(r)
    BY <1>2 DEF RecordOK, Active
  <2> QED BY <2>1 DEF WillConsume, InLock
<1>7. CallsOwn(k, f)
  <2>1. CallsOwn(task, futures)
    BY InvIs
  <2>2. CASE task[t].pc = "idle"
    <3>1. ~ Active(task[t])
      BY <2>2 DEF Active
    <3> QED BY <1>2, <1>6, <2>1, <3>1, OwnBegins
  <2>3. CASE task[t].pc = "iterating"
    <3>1. m = "basic_cancel" /\ Active(task[t])
      BY <2>3 DEF Active
    <3>2. f = futures
      BY <3>1 DEF PreparedFor, Consumes
    <3>3. CallsOwn(k, futures)
      BY <1>2, <1>6, <2>1, <3>1, OwnGoes
    <3> QED BY <3>2, <3>3
  <2> QED BY <2>2, <2>3
<1>8. CallsFit(k, f, inbox, outbox)
  BY <1>2, <1>3, <1>6, <1>7, InvIs, FitsBegun
<1>9. LockFits(Append(lock, t), k)
  BY <1>2, <1>6, InvIs, LockJoins
<1>10. AppTyped(a) /\ a.handed = app.handed /\ a.mailbox = app.mailbox
  BY InvIs, FreshKeeps
<1>11. f.done = futures.done
  <2>1. FuturesTyped(futures)
    BY InvIs DEF CallsOwn
  <2> QED BY <1>3, <2>1, PreparedTyped
<1>12. lock = <<>> => HasLock(k, <<t>>, f, a, t, m, tag)
  <2>1. SUFFICES ASSUME lock = <<>>
                 PROVE  HasLock(k, <<t>>, f, a, t, m, tag)
    OBVIOUS
  <2>2. Append(lock, t) = <<t>> /\ <<t>> # <<>> /\ Head(<<t>>) = t
    BY <2>1
  <2>3. Behind(k, t)
    BY <1>1, <1>2, <1>5 DEF Behind
  <2> QED BY <1>2, <1>5, <1>8, <1>9, <1>10, <2>2, <2>3 DEF HasLock
<1> QED BY <1>2, <1>3, <1>4, <1>6, <1>8, <1>9, <1>10, <1>11, <1>12 DEF r

LEMMA RpcTurn ==
    ASSUME IInv, NEW t \in Task, NEW m \in DOMAIN Request, NEW tag \in Calls \cup {None},
           m = "basic_cancel" => tag \in Calls,
           task[t].pc \in {"idle", "iterating"}, task[t].left > 0,
           task[t].pc = "iterating" => m = "basic_cancel",
           Rpc(t, m, tag)
    PROVE  TurnOK(futures.done, app)
<1> DEFINE r == [task[t] EXCEPT !.pc = "queued", !.call = m, !.tag = tag]
           k == [task EXCEPT ![t] = r]
           c == <<t, task[t].left>>
           f == PreparedFor(futures, c, m)
           a == [app EXCEPT !.fresh = None]
<1>1. /\ Prepared(t, m) = f
      /\ LockFits(Append(lock, t), k) /\ CallsFit(k, f, inbox, outbox)
      /\ AppTyped(a) /\ a.handed = app.handed /\ a.mailbox = app.mailbox
      /\ f.done = futures.done
      /\ lock = <<>> => HasLock(k, <<t>>, f, a, t, m, tag)
  BY RpcPrepares
<1>2. \A d : ArrivedIn(a, d) = ArrivedIn(app, d)
  BY <1>1 DEF ArrivedIn, HandedIn, MailedIn
<1>3. CASE lock = <<>>
  <2>1. Send(t, m, tag, <<t>>, f, a)
    BY <1>1, <1>3 DEF Rpc
  <2> HIDE DEF k, f, a
  <2>2. TurnOK(f.done, a)
    BY <1>1, <1>3, <2>1, InvIs, SendTurn
  <2> QED BY <1>1, <1>2, <2>2 DEF TurnOK
<1>4. CASE lock # <<>>
  <2>1. /\ lock' = Append(lock, t) /\ Goes(t, m, tag, "queued")
        /\ futures' = f /\ app' = a /\ manager' = manager /\ outbox' = outbox
    BY <1>1, <1>4 DEF Rpc
  <2>2. task' = k
    BY <2>1 DEF Goes, k, r
  <2> HIDE DEF k, f, a
  <2> QED BY <1>1, <1>2, <2>1, <2>2, InvIs DEF TurnOK, Collects
<1> QED BY <1>3, <1>4

LEMMA BeginTurn ==
    ASSUME IInv, NEW t \in Task, Begin(t)
    PROVE  TurnOK(futures.done, app) /\ session' = session
<1>1. task[t].pc = "idle" /\ task[t].left > 0 /\ session' = session
  BY DEF Begin
<1>2. PICK m \in workload.methods :
         IF m = "basic_cancel" THEN \E tag \in Cancellable : Rpc(t, m, tag)
         ELSE Rpc(t, m, None)
  BY DEF Begin
<1>3. m \in DOMAIN Request
  BY ConsumersAssumption DEF IInv, BrokerTyped, IsWorkload
<1>4. CASE m = "basic_cancel"
  <2>1. PICK tag \in Cancellable : Rpc(t, m, tag)
    BY <1>2, <1>4
  <2>2. tag \in Calls
    BY DEF Cancellable, IInv, ClientTyped
  <2> QED BY <1>1, <1>3, <2>1, <2>2, RpcTurn
<1>5. CASE m # "basic_cancel"
  BY <1>1, <1>2, <1>3, <1>5, RpcTurn
<1> QED BY <1>1, <1>4, <1>5

\* A turn that keeps out of the lock, or leaves it to the next.
LEMMA LeavesTurn ==
    ASSUME IInv, NEW t \in Task, Leaves(task, t, futures, app),
           \/ task[t].pc \notin InLock /\ lock' = lock
           \/ lock # <<>> /\ Head(lock) = t /\ lock' = Tail(lock),
           manager' \in Managers, Collects, outbox' \in Seq(OutFrame),
           Count(outbox', ConsumeMethods) = Count(outbox, ConsumeMethods)
    PROVE  TurnOK(futures.done, app)
<1>1. PICK r \in Record : task' = [task EXCEPT ![t] = r] /\ r.pc \notin InLock
  BY DEF Leaves
<1>2. LockFits(lock', task')
  <2>1. LockFits(lock, task)
    BY InvIs
  <2>2. CASE task[t].pc \notin InLock /\ lock' = lock
    <3>1. LockFits(lock, [task EXCEPT ![t] = r])
      BY <1>1, <2>1, <2>2, LockStays
    <3> QED BY <1>1, <2>2, <3>1
  <2>3. CASE lock # <<>> /\ Head(lock) = t /\ lock' = Tail(lock)
    <3>1. LockFits(Tail(lock), [task EXCEPT ![t] = r])
      BY <1>1, <2>1, <2>3, LockReleases
    <3> QED BY <1>1, <2>3, <3>1
  <2> QED BY <2>2, <2>3
<1>3. ~ WillConsume(r)
  BY <1>1 DEF WillConsume, InLock
<1>4. CallsOwn(task', futures') /\ futures'.pending = futures.pending
  BY DEF Leaves
<1>5. NoMoreAsked(task, t, outbox, outbox')
  <2>1. Count(outbox, ConsumeMethods) \in Nat
    BY InvIs, PositionsAreFinite
  <2> QED BY <2>1 DEF NoMoreAsked
<1>6. CallsFit(task', futures', inbox, outbox')
  <2>1. CallsFit(task, futures, inbox, outbox) /\ inbox \in Seq(InFrame)
    BY InvIs
  <2> QED BY <1>1, <1>3, <1>4, <1>5, <2>1, FitsAfter
<1> QED BY <1>2, <1>6 DEF TurnOK, Leaves

LEMMA BehindItself ==
    ASSUME IInv, NEW t \in Task
    PROVE  Behind(task, t) /\ CallsOwn(task, futures) /\ AppTyped(app)
BY InvIs DEF Behind

LEMMA StateIs ==
    ASSUME IInv
    PROVE  manager.exception \in Results /\ STE \in Results /\ Collects \in BOOLEAN
BY InvIs, ManagersAre DEF Results, Error, Collects

LEMMA LeaveTurn ==
    ASSUME IInv, NEW t \in Task, Leave(t)
    PROVE  TurnOK(futures.done, app) /\ session' = session
<1>1. task[t].pc = "iterating" /\ session' = session
  BY DEF Leave
<1>2. RecordOK(task[t]) /\ Active(task[t]) /\ task[t].pc \notin InLock
  BY <1>1, InvIs DEF Active, InLock
<1>3. task[t].left > 0 /\ task[t].tag \in Calls /\ task[t].call = "consume"
  BY <1>1, <1>2 DEF RecordOK
<1>4. CASE manager.exception # None \/ IsClosed
  <2> DEFINE result == IF manager.exception = None THEN "answered" ELSE manager.exception
  <2>1. /\ End(t, "consume", result) /\ futures' = futures /\ app' = app
        /\ lock' = lock /\ manager' = manager /\ outbox' = outbox
    BY <1>4 DEF Leave
  <2>2. result \in Results
    BY StateIs DEF Results
  <2>3. "consume" \in DOMAIN Request
    BY DEF Request
  <2> HIDE DEF result
  <2>4. Leaves(task, t, futures, app)
    BY <1>2, <2>1, <2>2, <2>3, BehindItself, EndLeaves
  <2> QED BY <1>1, <1>2, <2>1, <2>4, InvIs, LeavesTurn DEF Collects
<1>5. CASE ~ (manager.exception # None \/ IsClosed)
  <2>1. Rpc(t, "basic_cancel", task[t].tag)
    BY <1>5 DEF Leave
  <2>2. "basic_cancel" \in DOMAIN Request
    BY DEF Request
  <2> QED BY <1>1, <1>3, <2>1, <2>2, RpcTurn
<1> QED BY <1>4, <1>5

LEMMA AcquireTurn ==
    ASSUME IInv, NEW t \in Task, Acquire(t)
    PROVE  TurnOK(futures.done, app) /\ session' = session
<1>1. /\ task[t].pc = "queued" /\ Head(lock) = t /\ session' = session
      /\ Send(t, task[t].call, task[t].tag, lock, futures, app)
  BY DEF Acquire
<1>2. lock # <<>>
  BY <1>1, InvIs DEF LockFits
<1>3. HasLock(task, lock, futures, app, t, task[t].call, task[t].tag)
  BY <1>1, <1>2, InvIs, BehindItself DEF HasLock
<1> QED BY <1>1, <1>3, InvIs, SendTurn

LEMMA FutureLeaves ==
    ASSUME IInv, NEW t \in Task, FutureIsDone(t)
    PROVE  Leaves(task, t, futures, app)
<1>1. task[t].pc = "future" /\ Call(t) \in DOMAIN futures.done
      /\ Await(t, task[t].call, futures, app)
  BY DEF FutureIsDone
<1>2. Active(task[t]) /\ RecordOK(task[t])
  BY <1>1, InvIs DEF Active
<1> DEFINE m == task[t].call
<1>3. CASE Consumes(m) \/ m = "basic_get"
  BY <1>1, <1>2, <1>3, BehindItself, AwaitLeaves
<1>4. CASE ~ (Consumes(m) \/ m = "basic_get")
  <2>1. End(t, m, "answered") /\ futures' = futures /\ app' = app
    BY <1>1, <1>4 DEF Await, Consumes
  <2>2. m \in DOMAIN Request /\ "answered" \in Results
    BY <1>2 DEF RecordOK, Results
  <2> HIDE DEF m
  <2> QED BY <1>2, <2>1, <2>2, BehindItself, EndLeaves
<1> QED BY <1>3, <1>4

LEMMA FutureIsDoneTurn ==
    ASSUME IInv, NEW t \in Task, FutureIsDone(t)
    PROVE  TurnOK(futures.done, app) /\ session' = session
<1>1. /\ task[t].pc = "future" /\ Call(t) \in DOMAIN futures.done
      /\ Await(t, task[t].call, futures, app)
      /\ manager' = manager /\ lock' = lock /\ session' = session /\ outbox' = outbox
  BY DEF FutureIsDone
<1>2. Active(task[t]) /\ task[t].pc \notin InLock /\ RecordOK(task[t])
  BY <1>1, InvIs DEF Active, InLock
<1>3. Leaves(task, t, futures, app)
  BY FutureLeaves
<1> QED BY <1>1, <1>2, <1>3, InvIs, LeavesTurn DEF Collects

LEMMA WaitsIs ==
    ASSUME IInv, NEW t \in Task, Waits(t)
    PROVE  /\ lock # <<>> /\ Head(lock) = t /\ Active(task[t]) /\ RecordOK(task[t])
           /\ task[t].call \in DOMAIN Request
           /\ SM!AfterPoll(manager, t) \in Managers
           /\ SM!AfterPoll(manager, t).state = manager.state
<1>1. LockFits(lock, task) /\ RecordOK(task[t]) /\ manager \in Managers
  BY InvIs
<1>2. lock # <<>> /\ Head(lock) = t /\ Active(task[t])
  BY <1>1 DEF LockFits, Active, Waits
<1> QED BY <1>1, <1>2, AfterPollKeepsType DEF RecordOK

LEMMA AnsweredLeaves ==
    ASSUME IInv, NEW t \in Task, PollAnswered(t)
    PROVE  Leaves(task, t, futures, app)
<1>1. Waits(t) /\ Return(t, task[t].call, "answered", futures, app)
  BY DEF PollAnswered
<1>2. "answered" \in Results
  BY DEF Results
<1> QED BY <1>1, <1>2, WaitsIs, BehindItself, ReturnLeaves

LEMMA PollAnsweredTurn ==
    ASSUME IInv, NEW t \in Task, PollAnswered(t)
    PROVE  TurnOK(futures.done, app) /\ session' = session
<1>1. /\ Waits(t) /\ manager' = SM!AfterPoll(manager, t) /\ lock' = Tail(lock)
      /\ session' = session /\ outbox' = outbox
  BY DEF PollAnswered
<1>2. Leaves(task, t, futures, app)
  BY AnsweredLeaves
<1>3. Collects /\ manager' \in Managers
  BY <1>1, WaitsIs DEF Collects
<1> QED BY <1>1, <1>2, <1>3, WaitsIs, InvIs, LeavesTurn

LEMMA RaisesLeaves ==
    ASSUME IInv, NEW t \in Task, PollRaises(t)
    PROVE  Leaves(task, t, futures, app)
<1>1. /\ Waits(t) /\ futures' = futures /\ app' = app
      /\ IF manager.exception = "RuntimeError" THEN End(t, task[t].call, "RuntimeError")
         ELSE Goes(t, task[t].call, None, "reconnecting")
  BY DEF PollRaises
<1>2. CASE manager.exception = "RuntimeError"
  <2>1. "RuntimeError" \in Results
    BY DEF Results, Error
  <2> QED BY <1>1, <1>2, <2>1, WaitsIs, BehindItself, EndLeaves
<1>3. CASE manager.exception # "RuntimeError"
  <2>1. "reconnecting" \in Pcs /\ "reconnecting" \notin InLock \cup {"idle"}
    BY DEF Pcs, InLock
  <2> QED BY <1>1, <1>3, <2>1, WaitsIs, BehindItself, GoesLeaves
<1> QED BY <1>2, <1>3

LEMMA PollRaisesTurn ==
    ASSUME IInv, NEW t \in Task, PollRaises(t)
    PROVE  TurnOK(futures.done, app) /\ session' = session
<1>1. /\ Waits(t) /\ manager' = SM!AfterPoll(manager, t) /\ lock' = Tail(lock)
      /\ session' = session /\ outbox' = outbox
  BY DEF PollRaises
<1>2. Leaves(task, t, futures, app)
  BY RaisesLeaves
<1>3. Collects /\ manager' \in Managers
  BY <1>1, WaitsIs DEF Collects
<1> QED BY <1>1, <1>2, <1>3, WaitsIs, InvIs, LeavesTurn

LEMMA ClosedLeaves ==
    ASSUME IInv, NEW t \in Task, PollChannelClosed(t)
    PROVE  Leaves(task, t, futures, app)
<1> DEFINE pc == IF session.channelOpen THEN "raising" ELSE "opening"
<1>1. /\ Waits(t) /\ futures' = futures /\ app' = app
      /\ End(t, task[t].call, STE) \/ Goes(t, task[t].call, None, pc)
  BY DEF PollChannelClosed
<1>2. CASE End(t, task[t].call, STE)
  BY <1>1, <1>2, WaitsIs, StateIs, BehindItself, EndLeaves
<1>3. CASE Goes(t, task[t].call, None, pc)
  <2>1. pc \in Pcs /\ pc \notin InLock \cup {"idle"} /\ pc # "iterating"
    BY DEF Pcs, InLock
  <2> HIDE DEF pc
  <2> QED BY <1>1, <1>3, <2>1, WaitsIs, BehindItself, GoesLeaves
<1> QED BY <1>1, <1>2, <1>3

LEMMA PollChannelClosedTurn ==
    ASSUME IInv, NEW t \in Task, PollChannelClosed(t)
    PROVE  TurnOK(futures.done, app) /\ session' = session
<1> DEFINE m == SM!AfterPoll(manager, t)
           opening == Enter(m, "OPENING_CHANNEL")
<1>1. /\ Waits(t) /\ lock' = Tail(lock)
      /\ IF SM!Refuses(m, "OPENING_CHANNEL", None)
         THEN manager' = SM!Refuse(m, STE) /\ outbox' = outbox
         ELSE /\ manager' = Enter(opening, "CHANNEL_OPEN_SENT")
              /\ Write(<<[type |-> "Channel.Open"]>>)
      /\ session' = session
  BY DEF PollChannelClosed
<1>2. m \in Managers /\ m.state = manager.state
  BY <1>1, WaitsIs
<1> HIDE DEF m
<1>3. CASE SM!Refuses(m, "OPENING_CHANNEL", None)
  <2>1. Leaves(task, t, futures, app)
    BY ClosedLeaves
  <2>2. manager' \in Managers /\ Collects
    BY <1>1, <1>2, <1>3, EnterKeepsType, StatesAre DEF Collects
  <2> QED BY <1>1, <1>3, <2>1, <2>2, WaitsIs, InvIs, LeavesTurn
<1>4. CASE ~ SM!Refuses(m, "OPENING_CHANNEL", None)
  <2>1. manager' \in Managers /\ Collects
    <3>1. /\ {"OPENING_CHANNEL", "CHANNEL_OPEN_SENT"} \subseteq ClientState
          /\ {"OPENING_CHANNEL", "CHANNEL_OPEN_SENT"} \cap ContentStates = {}
      BY StatesAre DEF ContentStates
    <3>2. opening \in Managers /\ opening.state \in {m.state, "OPENING_CHANNEL"}
      BY <1>2, <3>1, EnterKeepsType
    <3>3. manager' = Enter(opening, "CHANNEL_OPEN_SENT")
      BY <1>1, <1>4
    <3> HIDE DEF opening
    <3>4. manager' \in Managers /\ manager'.state \in {opening.state, "CHANNEL_OPEN_SENT"}
      BY <3>1, <3>2, <3>3, EnterKeepsType
    <3> QED BY <1>2, <3>1, <3>2, <3>4 DEF Collects
  <2>2. Leaves(task, t, futures, app)
    BY ClosedLeaves
  <2> DEFINE frame == [type |-> "Channel.Open"]
  <2>3. frame \in OutFrame /\ frame.type \notin ConsumeMethods
    BY DEF OutFrame, ConsumeMethods
  <2>4. Write(<<frame>>)
    BY <1>1, <1>4
  <2> HIDE DEF frame
  <2>5. /\ outbox' \in Seq(OutFrame)
        /\ Count(outbox', ConsumeMethods) = Count(outbox, ConsumeMethods)
    BY <2>3, <2>4, InvIs, WriteKeeps
  <2> QED BY <1>1, <2>1, <2>2, <2>5, WaitsIs, LeavesTurn
<1> QED BY <1>3, <1>4

LEMMA LastErrorLeaves ==
    ASSUME IInv, NEW t \in Task, RaiseLastError(t)
    PROVE  Leaves(task, t, futures, app)
<1> DEFINE error == IF session.lastError = None THEN "UnknownError" ELSE session.lastError
<1>1. /\ task[t].pc = "raising" /\ End(t, task[t].call, error)
      /\ futures' = futures /\ app' = app
  BY DEF RaiseLastError
<1>2. Active(task[t]) /\ RecordOK(task[t])
  BY <1>1, InvIs DEF Active
<1>3. error \in Results /\ task[t].call \in DOMAIN Request
  BY <1>2, InvIs DEF Results, Sessions, RecordOK
<1> HIDE DEF error
<1> QED BY <1>1, <1>2, <1>3, BehindItself, EndLeaves

LEMMA RaiseLastErrorTurn ==
    ASSUME IInv, NEW t \in Task, RaiseLastError(t)
    PROVE  /\ TurnOK(futures.done, app) /\ session' \in Sessions
           /\ session'.failed = session.failed /\ session'.transport = session.transport
<1>1. /\ task[t].pc = "raising" /\ session' = [session EXCEPT !.lastError = None]
      /\ manager' = manager /\ lock' = lock /\ outbox' = outbox
  BY DEF RaiseLastError
<1>2. /\ session' \in Sessions
      /\ session'.failed = session.failed /\ session'.transport = session.transport
  BY <1>1, InvIs DEF Sessions
<1>3. task[t].pc \notin InLock
  BY <1>1 DEF InLock
<1>4. Leaves(task, t, futures, app)
  BY LastErrorLeaves
<1> QED BY <1>1, <1>2, <1>3, <1>4, InvIs, LeavesTurn DEF Collects

---------------------------------------------------------------------------
(* The queues of the generators *)

\* The messages in the queues of box.
Queued(box) == UNION {Range(box[call]) : call \in DOMAIN box}

LEMMA QueuedWith ==
    ASSUME NEW box, NEW c, NEW q
    PROVE  Queued(With(box, c, q)) = Range(q) \cup UNION {Range(box[x]) : x \in DOMAIN box \ {c}}
<1> DEFINE n == With(box, c, q)
<1>1. /\ DOMAIN n = DOMAIN box \cup {c} /\ n[c] = q
      /\ \A x \in DOMAIN box \ {c} : n[x] = box[x]
  BY DEF With
<1> HIDE DEF n
<1> QED BY <1>1 DEF Queued, n

LEMMA QueuedBut ==
    ASSUME NEW box, NEW c
    PROVE  Queued(box) = (IF c \in DOMAIN box THEN Range(box[c]) ELSE {})
                         \cup UNION {Range(box[x]) : x \in DOMAIN box \ {c}}
BY DEF Queued

LEMMA RangeOfTail ==
    ASSUME NEW S, NEW q \in Seq(S), q # <<>>
    PROVE  Range(Tail(q)) \cup {Head(q)} = Range(q)
<1>1. /\ 1 \in DOMAIN q /\ Head(q) = q[1]
      /\ \A i \in DOMAIN Tail(q) : i + 1 \in DOMAIN q /\ Tail(q)[i] = q[i + 1]
      /\ \A i \in DOMAIN q : i = 1 \/ i - 1 \in DOMAIN Tail(q)
      /\ DOMAIN q \subseteq Nat
  BY TailIs
<1>2. \A i \in DOMAIN q : i = 1 \/ (i - 1 \in DOMAIN Tail(q) /\ Tail(q)[i - 1] = q[i])
  <2>1. \A i \in DOMAIN q : (i - 1) + 1 = i
    BY <1>1
  <2> QED BY <1>1, <2>1
<1> QED BY <1>1, <1>2 DEF Range

LEMMA RangeOfAppend ==
    ASSUME NEW S, NEW q \in Seq(S), NEW x \in S
    PROVE  Range(Append(q, x)) = Range(q) \cup {x}
<1> DEFINE all == Append(q, x)
           top == Len(q) + 1
<1>1. all = q \o <<x>>
  OBVIOUS
<1>2. /\ top \in DOMAIN all /\ all[top] = x
      /\ \A i \in DOMAIN all : i = top \/ (i < top /\ i \in DOMAIN q)
      /\ \A i \in DOMAIN q : i \in DOMAIN all /\ all[i] = q[i]
  BY <1>1, OneMoreIs
<1> HIDE DEF all, top
<1> QED BY <1>2 DEF Range, all

\* The application with other queues.
LEMMA MailboxIs ==
    ASSUME NEW a, AppTyped(a), NEW c \in Calls, NEW q \in Seq(Message)
    PROVE  LET b == [a EXCEPT !.mailbox = With(@, c, q)] IN
           AppTyped(b) /\ b.handed = a.handed /\ b.mailbox = With(a.mailbox, c, q)
<1> DEFINE box == With(a.mailbox, c, q)
           b == [a EXCEPT !.mailbox = box]
<1>1. DOMAIN box \subseteq Calls /\ \A call \in DOMAIN box : box[call] \in Seq(Message)
  BY AppIs DEF With
<1> HIDE DEF box
<1>2. a = AppOf(a.held, a.fresh, a.handed, a.settled, a.mailbox)
  BY AppIs
<1>3. b = AppOf(a.held, a.fresh, a.handed, a.settled, box)
  BY <1>2 DEF AppOf
<1> HIDE DEF b
<1>4. AppTyped(b) /\ b.handed = a.handed /\ b.mailbox = box
  BY <1>1, <1>3, AppIs, AppMade
<1> QED BY <1>4 DEF b, box

LEMMA TakeNextTurn ==
    ASSUME IInv, NEW t \in Task, TakeNext(t)
    PROVE  TurnOK(futures.done, app) /\ session' = session
<1> DEFINE c == Call(t)
           q == app.mailbox[c]
           rest == Tail(q)
           b == Hand(app, c, Head(q))
<1>1. MailOf(c) # <<>> /\ app' = [Hand(app, c, Head(MailOf(c))) EXCEPT
                                      !.mailbox = With(@, c, Tail(MailOf(c)))]
  BY DEF TakeNext
<1>2. c \in DOMAIN app.mailbox /\ q # <<>> /\ MailOf(c) = q
  BY <1>1 DEF MailOf
<1>3. app' = [b EXCEPT !.mailbox = With(@, c, rest)]
  BY <1>1, <1>2
<1>4. c \in Calls
  BY InvIs, CallIs DEF Call
<1>5. q \in Seq(Message)
  BY <1>2, InvIs, AppIs
<1>6. Head(q) \in Message /\ rest \in Seq(Message)
  BY <1>2, <1>5, TailElements
<1>7. AppTyped(b) /\ b.mailbox = app.mailbox
  BY <1>4, <1>6, InvIs, HandIs
<1>8. Range(rest) \cup {Head(q)} = Range(q)
  BY <1>2, <1>5, RangeOfTail
<1> HIDE DEF c, q, rest, b
<1>9. AppTyped(app') /\ app'.handed = b.handed /\ app'.mailbox = With(app.mailbox, c, rest)
  BY <1>3, <1>4, <1>6, <1>7, MailboxIs
<1>10. Queued(app'.mailbox) \cup {Head(q)} = Queued(app.mailbox)
  <2>1. Queued(app.mailbox) =
           Range(q) \cup UNION {Range(app.mailbox[x]) : x \in DOMAIN app.mailbox \ {c}}
    BY <1>2, QueuedBut DEF q
  <2>2. Queued(app'.mailbox) =
           Range(rest) \cup UNION {Range(app.mailbox[x]) : x \in DOMAIN app.mailbox \ {c}}
    BY <1>9, QueuedWith
  <2> QED BY <1>8, <2>1, <2>2
<1>11. HandedIn(app') = HandedIn(app) \cup {Head(q)}
  <2> DEFINE h == [to |-> c, message |-> Head(q)]
  <2>1. b.handed = app.handed \cup {h} /\ h.message = Head(q)
    BY <1>4, <1>6, InvIs, HandIs DEF b
  <2> HIDE DEF h
  <2> QED BY <1>9, <2>1 DEF HandedIn
<1>12. \A d : ArrivedIn(app', d) = ArrivedIn(app, d)
  <2>1. MailedIn(app') = Queued(app'.mailbox) /\ MailedIn(app) = Queued(app.mailbox)
    BY DEF MailedIn, Queued
  <2> QED BY <1>10, <1>11, <2>1 DEF ArrivedIn
<1>13. /\ manager' = manager /\ lock' = lock /\ task' = task /\ futures' = futures
       /\ session' = session /\ outbox' = outbox
  BY DEF TakeNext
<1> QED BY <1>9, <1>12, <1>13, InvIs DEF TurnOK, Collects

LEMMA FailsIs ==
    ASSUME session \in Sessions, NEW raised \in BOOLEAN, Fails(raised)
    PROVE  /\ session' \in Sessions /\ session'.transport = session.transport
           /\ session'.failed <=> session.failed \/ raised
<1>1. session' = [session EXCEPT !.failed = session.failed \/ raised]
  BY DEF Fails
<1> QED BY <1>1 DEF Sessions

LEMMA SettleTurn ==
    ASSUME IInv, Settle
    PROVE  /\ TurnOK(futures.done, app) /\ session' \in Sessions
           /\ session'.transport = session.transport
           /\ session.failed => session'.failed
<1>1. PICK msg \in app.held, how \in workload.settlements :
         /\ Write(<<[type |-> how.type, tag |-> msg.delivery.id[2],
                     multiple |-> how.multiple, requeue |-> how.requeue]>>)
         /\ manager' = Enter(manager, SettledState[how.type])
         /\ app' = [app EXCEPT !.held = @ \ {msg}, !.fresh = None,
                               !.settled = @ \cup {msg.delivery.id}]
         /\ \E handled \in BOOLEAN :
               Fails(~ handled /\ SM!Refuses(manager, SettledState[how.type], None))
  BY DEF Settle
<1> DEFINE frame == [type |-> how.type, tag |-> msg.delivery.id[2],
                     multiple |-> how.multiple, requeue |-> how.requeue]
           held == app.held \ {msg}
           settled == app.settled \cup {msg.delivery.id}
<1>2. how \in Settlement
  BY ConsumersAssumption DEF IInv, BrokerTyped, IsWorkload
<1>3. msg \in Message /\ msg.delivery.id \in Nat \X Nat
  <2>1. msg \in Message
    BY InvIs, AppIs
  <2> QED BY <2>1 DEF Message, Delivery
<1>4. frame \in OutFrame /\ frame.type \notin ConsumeMethods
  BY <1>2, <1>3 DEF OutFrame, Settlement, SettledState, ConsumeMethods
<1>5. Write(<<frame>>)
  BY <1>1
<1> HIDE DEF frame
<1>6. /\ outbox' \in Seq(OutFrame)
      /\ Count(outbox', ConsumeMethods) = Count(outbox, ConsumeMethods)
  BY <1>4, <1>5, InvIs, WriteKeeps
<1>7. AppTyped(app') /\ app'.handed = app.handed /\ app'.mailbox = app.mailbox
  <2>1. held \in SUBSET Message /\ settled \in SUBSET (Nat \X Nat)
    BY <1>3, InvIs, AppIs
  <2>2. app' = [app EXCEPT !.held = held, !.fresh = None, !.settled = settled]
    BY <1>1
  <2> HIDE DEF held, settled
  <2>3. app = AppOf(app.held, app.fresh, app.handed, app.settled, app.mailbox)
    BY InvIs, AppIs
  <2>4. DOMAIN app = {"held", "fresh", "handed", "settled", "mailbox"}
    BY <2>3 DEF AppOf
  <2>5. app' = [x \in {"held", "fresh", "handed", "settled", "mailbox"} |->
                   IF x = "held" THEN held ELSE IF x = "fresh" THEN None
                   ELSE IF x = "settled" THEN settled ELSE app[x]]
    BY <2>2, <2>4
  <2>6. app' = AppOf(held, None, app.handed, settled, app.mailbox)
    BY <2>5 DEF AppOf
  <2> QED BY <2>1, <2>6, InvIs, AppIs, AppMade
<1>8. ArrivedIn(app', futures.done) = ArrivedIn(app, futures.done)
  BY <1>7 DEF ArrivedIn, HandedIn, MailedIn
<1>9. /\ session' \in Sessions /\ session'.transport = session.transport
      /\ session.failed => session'.failed
  <2>1. PICK raised \in BOOLEAN : Fails(raised)
    <3>1. PICK handled \in BOOLEAN :
             Fails(~ handled /\ SM!Refuses(manager, SettledState[how.type], None))
      BY <1>1
    <3>2. (~ handled /\ SM!Refuses(manager, SettledState[how.type], None)) \in BOOLEAN
      OBVIOUS
    <3> QED BY <3>1, <3>2
  <2> QED BY <2>1, InvIs, FailsIs
<1>10. manager' \in Managers /\ Collects
  <2> DEFINE state == SettledState[how.type]
  <2>1. state \in {"BASIC_ACK_SENT", "BASIC_NACK_SENT", "BASIC_REJECT_SENT"}
    BY <1>2 DEF Settlement, SettledState
  <2>2. state \in ClientState /\ state \notin ContentStates
    BY <2>1, StatesAre DEF ContentStates
  <2>3. manager' = Enter(manager, state)
    BY <1>1
  <2> HIDE DEF state
  <2>4. manager' \in Managers /\ manager'.state \in {manager.state, state}
    BY <2>2, <2>3, InvIs, EnterKeepsType
  <2> QED BY <2>2, <2>4 DEF Collects
<1>11. lock' = lock /\ task' = task /\ futures' = futures
  BY DEF Settle
<1>12. CallsFit(task', futures', inbox, outbox')
  BY <1>6, <1>11, InvIs DEF CallsFit
<1> QED BY <1>6, <1>7, <1>8, <1>9, <1>10, <1>11, <1>12, InvIs DEF TurnOK

LEMMA RunReadyTurn ==
    ASSUME IInv, RunReady
    PROVE  TurnOK(futures.done, app) /\ session' = session
<1>1. /\ manager.ready # <<>> /\ manager' = SM!RunCallbacks(manager)
      /\ lock' = lock /\ task' = task /\ futures' = futures /\ session' = session
      /\ app' = app /\ outbox' = outbox
  BY DEF RunReady
<1>2. manager' \in Managers /\ manager'.state = manager.state
  BY <1>1, InvIs, RunCallbacksKeepsType
<1> QED BY <1>1, <1>2, InvIs DEF TurnOK, Collects

---------------------------------------------------------------------------
(* A step that takes no frame and sends none to the client keeps the invariant *)

LEMMA ArrivedNext == Arrived' = ArrivedIn(app', futures'.done)
BY DEF Arrived, ArrivedIn, HandedIn, MailedIn, DoneIn

LEMMA LocalStep ==
    ASSUME IInv, TurnOK(futures.done, app), FramesUnchanged, session' \in Sessions,
           session'.transport = session.transport, session.failed => session'.failed
    PROVE  IInv'
<1>1. /\ workload' = workload /\ consumers' = consumers /\ message' = message
      /\ last' = last /\ inbox' = inbox /\ broker' = broker
  BY DEF FramesUnchanged
<1>2. ClientTyped'
  <2>1. manager' \in Managers /\ Collects
    BY DEF TurnOK
  <2>2. manager'.state \in ContentStates => message' # None
    BY <1>1, <2>1 DEF Collects, IInv, ClientTyped
  <2> QED BY <1>1, <2>1, <2>2 DEF IInv, ClientTyped, Managers
<1>3. BrokerTyped'
  <2>1. Messages' = Messages
    BY <1>1 DEF Messages
  <2> QED BY <1>1, <2>1 DEF IInv, BrokerTyped, TurnOK
<1>4. TasksOK' /\ AppTyped(app')
  BY <1>1 DEF TurnOK, TasksOK
<1>5. Arrived' = Arrived
  BY ArrivedIs, ArrivedNext DEF TurnOK
<1>6. ContentOK'
  BY <1>1, <1>5 DEF ContentOK, IInv
<1>7. NoneIsLost'
  BY <1>1, <1>5 DEF NoneIsLost, IInv
<1> QED BY <1>2, <1>3, <1>4, <1>6, <1>7 DEF IInv

LEMMA ApplicationStep ==
    ASSUME IInv, Application
    PROVE  IInv'
<1>1. CASE Settle
  BY <1>1, SettleTurn, LocalStep DEF Application
<1>2. ASSUME NEW t \in Task, Begin(t) \/ TakeNext(t) \/ Leave(t)
      PROVE  IInv'
  <2>1. TurnOK(futures.done, app) /\ session' = session
    BY <1>2, BeginTurn, TakeNextTurn, LeaveTurn
  <2> QED BY <2>1, InvIs, LocalStep DEF Application
<1> QED BY <1>1, <1>2 DEF Application

LEMMA ProceedsStep ==
    ASSUME IInv, NEW t \in Task, Proceeds(t)
    PROVE  IInv'
<1>1. CASE RaiseLastError(t)
  BY <1>1, RaiseLastErrorTurn, LocalStep DEF Proceeds
<1>2. CASE \/ Acquire(t) \/ FutureIsDone(t)
           \/ PollAnswered(t) \/ PollChannelClosed(t) \/ PollRaises(t)
  <2>1. TurnOK(futures.done, app) /\ session' = session
    BY <1>2, AcquireTurn, FutureIsDoneTurn, PollAnsweredTurn, PollChannelClosedTurn,
       PollRaisesTurn
  <2> QED BY <2>1, InvIs, LocalStep DEF Proceeds
<1> QED BY <1>1, <1>2 DEF Proceeds

LEMMA RunReadyStep ==
    ASSUME IInv, RunReady, FramesUnchanged
    PROVE  IInv'
BY RunReadyTurn, InvIs, LocalStep

---------------------------------------------------------------------------
(* What the frames of the broker change *)

LEMMA FrameIs ==
    ASSUME NEW g \in InFrame
    PROVE  /\ g.type \in {"ConsumeOk", "CancelOk"} => g.tag \in Calls
           /\ Begins(g) => g.delivery \in Delivery
           /\ g.type = "Header" => g.of \in Delivery
           /\ g.type = "Body" => g \in BodyFrame
           /\ g.type \in {"ConsumeOk", "CancelOk", "Deliver", "GetOk", "Header", "Body",
                          "GetEmpty", "DeclareOk", "Cancel", "Channel.Close",
                          "Channel.OpenOk", "Disconnected"}
BY DEF InFrame, BodyFrame, Begins

LEMMA MessageIs ==
    /\ \A msg \in Message : msg # None
    /\ \A d \in Delivery : d # None
    /\ \A call \in Calls : call # None
BY ConsumersAssumption

LEMMA TakesIs ==
    ASSUME IInv, NEW type, Takes(type)
    PROVE  /\ inbox # <<>> /\ Head(inbox) \in InFrame /\ Head(inbox).type = type
           /\ inbox' = Tail(inbox) /\ inbox' \in Seq(InFrame)
<1>1. inbox # <<>> /\ Head(inbox).type = type /\ inbox' = Tail(inbox)
  BY DEF Takes
<1> QED BY <1>1, InvIs, TailElements

\* A frame of another type than ConsumeOk is taken.
LEMMA FitsTaken ==
    ASSUME NEW k, NEW f, NEW in \in Seq(InFrame), in # <<>>, Head(in).type # "ConsumeOk",
           NEW out \in Seq(OutFrame), CallsFit(k, f, in, out),
           NEW n, NEW g, CallsOwn(n, g), Queueing(n) = Queueing(k), g.pending = f.pending,
           NEW next, Count(next, ConsumeMethods) = Count(out, ConsumeMethods)
    PROVE  CallsFit(n, g, Tail(in), next)
<1>1. Count(Tail(in), {"ConsumeOk"}) = Count(in, {"ConsumeOk"})
  BY CountTail
<1> QED BY <1>1 DEF CallsFit

\* basic_get gets its result.
LEMMA OwnResult ==
    ASSUME NEW k, NEW f, CallsOwn(k, f), f.get # None, f.get \notin DOMAIN f.done,
           NEW msg \in Message \cup {None}
    PROVE  LET g == [f EXCEPT !.done = With(@, f.get, [message |-> msg])] IN
           /\ CallsOwn(k, g) /\ g.pending = f.pending
           /\ g.done = With(f.done, f.get, [message |-> msg])
<1> DEFINE r == [message |-> msg]
           done == With(f.done, f.get, r)
           g == [f EXCEPT !.done = done]
<1>1. /\ f.pending \in Seq(Awaiting) /\ DOMAIN f = {"pending", "get", "done"}
      /\ f = [pending |-> f.pending, get |-> f.get, done |-> f.done]
      /\ f.get \in Calls
  BY FutureIs DEF CallsOwn
<1>2. r \in GetResults
  BY DEF GetResults
<1>3. /\ DOMAIN done = DOMAIN f.done \cup {f.get} /\ done[f.get] = r
      /\ \A call \in DOMAIN f.done : done[call] = f.done[call]
  BY DEF With
<1> HIDE DEF r, done
<1>4. g = [pending |-> f.pending, get |-> f.get, done |-> done]
  BY <1>1
<1> HIDE DEF g
<1>5. g.pending = f.pending /\ g.get = f.get /\ g.done = done
  BY <1>4
<1>6. FuturesTyped(g)
  <2>1. g \in [pending : Seq(Awaiting), get : Calls \cup {None}, done : {g.done}]
    BY <1>1, <1>4, <1>5
  <2>2. \A call \in DOMAIN done : call \in Calls /\ done[call] \in TagResult \cup GetResults
    BY <1>1, <1>2, <1>3 DEF CallsOwn, FuturesTyped
  <2> QED BY <1>5, <2>1, <2>2 DEF FuturesTyped
<1>7. \A call \in Calls : IsPending(g, call) = IsPending(f, call)
  BY <1>5 DEF IsPending
<1>8. \A t \in Task : <<t, k[t].left>> \in Calls
  BY CallIs DEF CallsOwn
<1>9. FuturesOwn(k, g)
  <2>1. \A call \in Calls :
           IsPending(g, call) \/ call \in DOMAIN g.done \/ call = g.get => Begun(k, call)
    BY <1>3, <1>5, <1>7 DEF CallsOwn, FuturesOwn
  <2>2. \A i, j \in DOMAIN g.pending : g.pending[i].call = g.pending[j].call => i = j
    BY <1>5 DEF CallsOwn, FuturesOwn
  <2>3. \A call \in Calls : IsPending(g, call) => call \notin DOMAIN g.done /\ call # g.get
    BY <1>3, <1>5, <1>7 DEF CallsOwn, FuturesOwn
  <2>4. ASSUME NEW t \in Task, Active(k[t])
        PROVE  LET call == <<t, k[t].left>> IN
               /\ Consumes(k[t].call) =>
                     call # g.get /\ (call \in DOMAIN g.done => g.done[call] \in TagResult)
               /\ k[t].call = "basic_get" =>
                     /\ ~ IsPending(g, call)
                     /\ call \in DOMAIN g.done => g.done[call] \in GetResults
    <3> DEFINE call == <<t, k[t].left>>
    <3>1. /\ Consumes(k[t].call) =>
                call # f.get /\ (call \in DOMAIN f.done => f.done[call] \in TagResult)
          /\ k[t].call = "basic_get" =>
                /\ ~ IsPending(f, call)
                /\ call \in DOMAIN f.done => f.done[call] \in GetResults
      BY <2>4 DEF CallsOwn, FuturesOwn
    <3>2. call \in Calls
      BY <1>8
    <3> HIDE DEF call
    <3>3. ASSUME Consumes(k[t].call)
          PROVE  call # g.get /\ (call \in DOMAIN g.done => g.done[call] \in TagResult)
      BY <1>3, <1>5, <3>1, <3>3
    <3>4. ASSUME k[t].call = "basic_get"
          PROVE  /\ ~ IsPending(g, call)
                 /\ call \in DOMAIN g.done => g.done[call] \in GetResults
      BY <1>2, <1>3, <1>5, <1>7, <3>1, <3>2, <3>4
    <3> QED BY <3>3, <3>4 DEF call
  <2> QED BY <2>1, <2>2, <2>3, <2>4 DEF FuturesOwn
<1> QED BY <1>5, <1>6, <1>9 DEF CallsOwn, g, done, r

\* The oldest consume gets its tag.
LEMMA OwnConsumed ==
    ASSUME NEW k, NEW f, CallsOwn(k, f), f.pending # <<>>, NEW tag \in Calls
    PROVE  LET by == Head(f.pending)
               g == [f EXCEPT !.pending = Tail(@), !.done = With(@, by.call, [tag |-> tag])]
           IN  /\ CallsOwn(k, g) /\ by \in Awaiting /\ by.call \notin DOMAIN f.done
               /\ g.pending = Tail(f.pending)
               /\ g.done = With(f.done, by.call, [tag |-> tag])
<1> DEFINE by == Head(f.pending)
           c == by.call
           r == [tag |-> tag]
           done == With(f.done, c, r)
           rest == Tail(f.pending)
           g == [f EXCEPT !.pending = rest, !.done = done]
<1>1. /\ f.pending \in Seq(Awaiting) /\ DOMAIN f = {"pending", "get", "done"}
      /\ f.get \in Calls \cup {None}
      /\ f = [pending |-> f.pending, get |-> f.get, done |-> f.done]
  BY FutureIs DEF CallsOwn
<1>2. r \in TagResult
  BY DEF TagResult
<1>3. /\ 1 \in DOMAIN f.pending /\ by = f.pending[1]
      /\ \A i \in DOMAIN rest : i + 1 \in DOMAIN f.pending /\ rest[i] = f.pending[i + 1]
      /\ DOMAIN f.pending \subseteq Nat /\ DOMAIN rest \subseteq Nat
  BY <1>1, TailIs
<1>4. by \in Awaiting /\ c \in Calls /\ rest \in Seq(Awaiting)
  <2>1. by \in Awaiting /\ rest \in Seq(Awaiting)
    BY <1>1, TailElements
  <2> QED BY <2>1 DEF Awaiting
<1>5. /\ DOMAIN done = DOMAIN f.done \cup {c} /\ done[c] = r
      /\ \A call \in DOMAIN f.done \ {c} : done[call] = f.done[call]
  BY DEF With
<1> HIDE DEF r, done, rest, by
<1>6. g = [pending |-> rest, get |-> f.get, done |-> done]
  <2>1. g = [x \in {"pending", "get", "done"} |->
                IF x = "pending" THEN rest ELSE IF x = "done" THEN done ELSE f[x]]
    BY <1>1
  <2> QED BY <2>1
<1> HIDE DEF g
<1>7. g.pending = rest /\ g.get = f.get /\ g.done = done
  BY <1>6
<1>8. IsPending(f, c)
  BY <1>3 DEF IsPending
<1>9. c \notin DOMAIN f.done /\ c # f.get /\ Begun(k, c)
  BY <1>4, <1>8 DEF CallsOwn, FuturesOwn
<1>10. FuturesTyped(g)
  <2>1. g \in [pending : Seq(Awaiting), get : Calls \cup {None}, done : {g.done}]
    BY <1>1, <1>4, <1>6, <1>7
  <2>2. \A call \in DOMAIN f.done : call \in Calls /\ f.done[call] \in TagResult \cup GetResults
    BY DEF CallsOwn, FuturesTyped
  <2>3. \A call \in DOMAIN done : call \in Calls /\ done[call] \in TagResult \cup GetResults
    BY <1>2, <1>4, <1>5, <2>2
  <2> QED BY <1>7, <2>1, <2>3 DEF FuturesTyped
<1>11. \A i, j \in DOMAIN f.pending : f.pending[i].call = f.pending[j].call => i = j
  BY DEF CallsOwn, FuturesOwn
<1>12. \A i, j \in DOMAIN rest : rest[i].call = rest[j].call => i = j
  <2>1. \A i, j \in DOMAIN rest : i + 1 = j + 1 => i = j
    BY <1>3
  <2> QED BY <1>3, <1>11, <2>1
<1>13. \A call \in Calls : IsPending(g, call) => IsPending(f, call) /\ call # c
  <2>1. \A i \in DOMAIN rest : i + 1 # 1
    <3>1. \A i \in DOMAIN rest : i # 0
      BY <1>4
    <3> QED BY <1>3, <3>1
  <2>2. \A i \in DOMAIN rest : rest[i].call # c
    BY <1>3, <1>11, <2>1
  <2> QED BY <1>3, <1>7, <2>2 DEF IsPending
<1>14. \A t \in Task : <<t, k[t].left>> \in Calls
  BY CallIs DEF CallsOwn
<1>15. FuturesOwn(k, g)
  <2>1. \A call \in Calls :
           IsPending(g, call) \/ call \in DOMAIN g.done \/ call = g.get => Begun(k, call)
    BY <1>5, <1>7, <1>9, <1>13 DEF CallsOwn, FuturesOwn
  <2>2. \A call \in Calls : IsPending(g, call) => call \notin DOMAIN g.done /\ call # g.get
    BY <1>5, <1>7, <1>13 DEF CallsOwn, FuturesOwn
  <2>3. ASSUME NEW t \in Task, Active(k[t])
        PROVE  LET call == <<t, k[t].left>> IN
               /\ Consumes(k[t].call) =>
                     call # g.get /\ (call \in DOMAIN g.done => g.done[call] \in TagResult)
               /\ k[t].call = "basic_get" =>
                     /\ ~ IsPending(g, call)
                     /\ call \in DOMAIN g.done => g.done[call] \in GetResults
    <3> DEFINE call == <<t, k[t].left>>
    <3>1. /\ Consumes(k[t].call) =>
                call # f.get /\ (call \in DOMAIN f.done => f.done[call] \in TagResult)
          /\ k[t].call = "basic_get" =>
                /\ ~ IsPending(f, call)
                /\ call \in DOMAIN f.done => f.done[call] \in GetResults
      BY <2>3 DEF CallsOwn, FuturesOwn
    <3>2. call \in Calls
      BY <1>14
    <3> HIDE DEF call
    <3>3. ASSUME Consumes(k[t].call)
          PROVE  call # g.get /\ (call \in DOMAIN g.done => g.done[call] \in TagResult)
      BY <1>2, <1>5, <1>7, <3>1, <3>3
    <3>4. ASSUME k[t].call = "basic_get"
          PROVE  /\ ~ IsPending(g, call)
                 /\ call \in DOMAIN g.done => g.done[call] \in GetResults
      <4>1. call # c
        BY <1>8, <3>1, <3>4
      <4> QED BY <1>5, <1>7, <1>13, <3>1, <3>2, <3>4, <4>1
    <3> QED BY <3>3, <3>4 DEF call
  <2> QED BY <1>7, <1>12, <2>1, <2>2, <2>3 DEF FuturesOwn
<1> QED BY <1>4, <1>7, <1>9, <1>10, <1>15 DEF CallsOwn, g, done, r, rest, by

LEMMA DoneWith ==
    ASSUME NEW d, NEW c, c \notin DOMAIN d, NEW r
    PROVE  DoneIn(With(d, c, r)) =
               DoneIn(d) \cup (IF DOMAIN r = {"message"} THEN {r.message} ELSE {})
<1> DEFINE n == With(d, c, r)
<1>1. /\ DOMAIN n = DOMAIN d \cup {c} /\ n[c] = r
      /\ \A x \in DOMAIN d : n[x] = d[x]
  BY DEF With
<1> HIDE DEF n
<1>2. \A x \in DOMAIN d : x # c
  OBVIOUS
<1> QED BY <1>1, <1>2 DEF DoneIn, n

---------------------------------------------------------------------------
(* The order of the frames *)

\* x stands for the frame g: the same frame may follow.
Absorbs(w, x, g) ==
    /\ Partial(w, x) <=> Partial(w, g)
    /\ Partial(w, g) => Successor(x) = Successor(g)

LEMMA AbsorbsFollows ==
    ASSUME NEW w, NEW x, NEW g, Absorbs(w, x, g), NEW h
    PROVE  Follows(w, g, h) => Follows(w, x, h)
BY DEF Absorbs, Follows

LEMMA OrderTaken ==
    ASSUME NEW w, NEW msg, NEW in \in Seq(InFrame), in # <<>>, NEW open \in BOOLEAN,
           InOrder(w, msg, in, open), NEW next,
           Follows(w, LastTaken(msg), Head(in)) => Absorbs(w, LastTaken(next), Head(in))
    PROVE  InOrder(w, next, Tail(in), open)
<1> DEFINE rest == Tail(in)
<1>1. /\ Len(in) \in Nat /\ Len(in) > 0 /\ DOMAIN in = 1..Len(in) /\ Head(in) = in[1]
      /\ Len(rest) = Len(in) - 1 /\ DOMAIN rest = 1..(Len(in) - 1)
      /\ \A i \in 1..(Len(in) - 1) : rest[i] = in[i + 1]
  OBVIOUS
<1> HIDE DEF rest
<1>2. /\ \A i \in 1..Len(in) :
            \/ Follows(w, Before(msg, in, i), in[i])
            \/ ~ open /\ i = Len(in) /\ in[i].type = "Disconnected"
      /\ open => ~ Partial(w, Before(msg, in, Len(in) + 1))
  BY <1>1 DEF InOrder
<1>3. CASE ~ Follows(w, LastTaken(msg), Head(in))
  <2>1. Before(msg, in, 1) = LastTaken(msg) /\ 1 \in 1..Len(in)
    BY <1>1 DEF Before
  <2>2. ~ open /\ Len(in) = 1
    BY <1>1, <1>2, <1>3, <2>1
  <2>3. DOMAIN rest = {}
    BY <1>1, <2>2
  <2> QED BY <2>2, <2>3 DEF InOrder, rest
<1>4. CASE Follows(w, LastTaken(msg), Head(in))
  <2>1. Absorbs(w, LastTaken(next), in[1])
    BY <1>1, <1>4
  <2>2. /\ Before(next, rest, 1) = LastTaken(next)
        /\ Before(msg, in, 2) = in[1]
        /\ \A i \in 2..Len(in) : Before(next, rest, i) = rest[i - 1]
                                 /\ Before(msg, in, i + 1) = in[i]
    BY DEF Before
  <2>3. \A i \in 2..Len(in) : rest[i - 1] = in[i]
    BY <1>1
  <2>4. ASSUME NEW i \in 1..(Len(in) - 1)
        PROVE  \/ Follows(w, Before(next, rest, i), rest[i])
               \/ ~ open /\ i = Len(rest) /\ rest[i].type = "Disconnected"
    <3>1. /\ i + 1 \in 1..Len(in) /\ rest[i] = in[i + 1]
          /\ i + 1 = Len(in) => i = Len(rest)
      <4>1. i \in Nat /\ i + 1 \in 1..Len(in)
        BY <1>1
      <4>2. rest[i] = in[i + 1]
        BY <1>1
      <4>3. Len(in) \in Nat /\ Len(rest) = Len(in) - 1
        BY <1>1
      <4>4. i + 1 = Len(in) => i = Len(rest)
        BY <4>1, <4>3
      <4> QED BY <4>1, <4>2, <4>4
    <3>2. CASE ~ open /\ i + 1 = Len(in) /\ in[i + 1].type = "Disconnected"
      BY <3>1, <3>2
    <3>3. CASE Follows(w, Before(msg, in, i + 1), in[i + 1])
      <4>1. CASE i = 1
        <5>1. Follows(w, in[1], in[2])
          BY <2>2, <3>3, <4>1
        <5>2. Follows(w, LastTaken(next), in[2])
          BY <2>1, <5>1, AbsorbsFollows
        <5> QED BY <2>2, <3>1, <4>1, <5>2
      <4>2. CASE i # 1
        <5>1. i \in 2..Len(in)
          BY <1>1, <4>2
        <5>2. Before(next, rest, i) = Before(msg, in, i + 1)
          BY <2>2, <2>3, <5>1
        <5> QED BY <3>1, <3>3, <5>2
      <4> QED BY <4>1, <4>2
    <3> QED BY <1>2, <3>1, <3>2, <3>3
  <2>5. open => ~ Partial(w, Before(next, rest, Len(rest) + 1))
    <3>1. Len(rest) + 1 = Len(in)
      BY <1>1
    <3>2. CASE Len(in) = 1
      <4>1. open => ~ Partial(w, in[1])
        BY <1>2, <2>2, <3>2
      <4> QED BY <2>1, <2>2, <3>1, <3>2, <4>1 DEF Absorbs
    <3>3. CASE Len(in) # 1
      <4>1. Len(in) \in 2..Len(in)
        BY <1>1, <3>3
      <4>2. Before(next, rest, Len(in)) = Before(msg, in, Len(in) + 1)
        BY <2>2, <2>3, <4>1
      <4> QED BY <1>2, <3>1, <4>2
    <3> QED BY <3>2, <3>3
  <2> QED BY <1>1, <2>4, <2>5 DEF InOrder, rest
<1> QED BY <1>3, <1>4

\* The first frame follows what is in the message, but for the loss of the socket.
LEMMA FirstFollows ==
    ASSUME NEW w, NEW msg, NEW in \in Seq(InFrame), in # <<>>, NEW open,
           InOrder(w, msg, in, open), open \/ Head(in).type # "Disconnected"
    PROVE  Follows(w, LastTaken(msg), Head(in))
<1>1. 1 \in DOMAIN in /\ Head(in) = in[1]
  BY TailIs
<1>2. Before(msg, in, 1) = LastTaken(msg)
  BY DEF Before
<1> QED BY <1>1, <1>2 DEF InOrder

LEMMA SuccessorIs ==
    ASSUME NEW f
    PROVE  /\ Begins(f) => Successor(f).type = "Header" /\ Successor(f).of = f.delivery
           /\ ~ Begins(f) => Successor(f).type = "Body"
BY DEF Successor, HeaderOf, PartOf

LEMMA QuietAbsorbs ==
    ASSUME NEW w, NEW x, NEW g, g.type \notin Content, Follows(w, x, g)
    PROVE  ~ Partial(w, x) /\ Absorbs(w, x, g)
<1>1. ~ Partial(w, g)
  BY DEF Partial, Begins, Content
<1>2. ~ Partial(w, x)
  BY SuccessorIs DEF Follows, Content
<1> QED BY <1>1, <1>2 DEF Absorbs

\* What is known of a message by its last frame.
LEMMA LastTakenIs ==
    ASSUME NEW msg \in Message \cup {None}, IsOwn(msg), NEW w, Partial(w, LastTaken(msg))
    PROVE  /\ msg \in Message
           /\ Begins(LastTaken(msg)) =>
                 /\ msg.header = None /\ msg.bodies = <<>>
                 /\ Successor(LastTaken(msg)) = HeaderOf(msg.delivery)
           /\ ~ Begins(LastTaken(msg)) =>
                 /\ msg.header = msg.delivery
                 /\ Successor(LastTaken(msg)) = PartOf(msg.delivery, Len(msg.bodies) + 1)
<1> DEFINE f == LastTaken(msg)
<1>1. msg # None /\ msg \in Message
  <2>1. CASE msg = None
    <3>1. f.type = "None"
      BY <2>1 DEF LastTaken
    <3> QED BY <3>1 DEF Partial, Begins
  <2> QED BY <2>1
<1>2. /\ msg.header \in {None, msg.delivery} /\ msg.delivery # None
      /\ msg.header = None => msg.bodies = <<>>
      /\ \A i \in DOMAIN msg.bodies : msg.bodies[i] = PartOf(msg.delivery, i)
      /\ msg.bodies \in Seq(BodyFrame)
  <2>1. msg.delivery \in Delivery /\ msg.bodies \in Seq(BodyFrame)
    BY <1>1 DEF Message
  <2> QED BY <1>1, <2>1, MessageIs DEF IsOwn
<1>3. CASE msg.header = None
  <2>1. f = [type |-> "Deliver", delivery |-> msg.delivery]
    BY <1>1, <1>3 DEF LastTaken
  <2>2. Begins(f) /\ Successor(f) = HeaderOf(msg.delivery)
    BY <2>1 DEF Begins, Successor
  <2> QED BY <1>1, <1>2, <1>3, <2>2
<1>4. CASE msg.header # None /\ msg.bodies = <<>>
  <2>1. f = HeaderOf(msg.delivery) /\ msg.header = msg.delivery
    BY <1>1, <1>2, <1>4 DEF LastTaken
  <2>2. f.type = "Header" /\ f.of = msg.delivery
    BY <2>1 DEF HeaderOf
  <2>3. ~ Begins(f) /\ Successor(f) = PartOf(msg.delivery, 1)
    BY <2>2 DEF Begins, Successor
  <2>4. Len(msg.bodies) + 1 = 1
    BY <1>4
  <2> QED BY <1>1, <2>1, <2>3, <2>4
<1>5. CASE msg.header # None /\ msg.bodies # <<>>
  <2> DEFINE n == Len(msg.bodies)
  <2>1. f = msg.bodies[n] /\ msg.header = msg.delivery
    BY <1>1, <1>2, <1>5 DEF LastTaken
  <2>2. n \in DOMAIN msg.bodies /\ n \in Nat
    BY <1>2, <1>5
  <2> HIDE DEF n
  <2>3. f = PartOf(msg.delivery, n)
    BY <1>2, <2>1, <2>2
  <2>4. f.type = "Body" /\ f.of = msg.delivery /\ f.part = n
    BY <2>3 DEF PartOf
  <2>5. ~ Begins(f) /\ Successor(f) = PartOf(msg.delivery, n + 1)
    BY <2>4 DEF Begins, Successor
  <2> QED BY <1>1, <2>1, <2>5 DEF n
<1> QED BY <1>3, <1>4, <1>5

LEMMA MessageBegins ==
    ASSUME NEW w, NEW g \in InFrame, Begins(g), NEW next,
           next = [delivery |-> g.delivery, header |-> None, bodies |-> <<>>]
    PROVE  /\ next \in Message /\ IsOwn(next) /\ Absorbs(w, LastTaken(next), g)
           /\ Partial(w, LastTaken(next)) /\ next.delivery = g.delivery
<1>1. next \in Message /\ next # None
  <2>1. g.delivery \in Delivery
    BY FrameIs
  <2>2. next \in Message
    BY <2>1 DEF Message
  <2> QED BY <2>2, MessageIs
<1>2. LastTaken(next) = [type |-> "Deliver", delivery |-> g.delivery]
  BY <1>1 DEF LastTaken
<1>3. Begins(LastTaken(next)) /\ LastTaken(next).delivery = g.delivery
  BY <1>2 DEF Begins
<1>4. Absorbs(w, LastTaken(next), g) /\ Partial(w, LastTaken(next))
  BY <1>3 DEF Absorbs, Partial, Successor
<1>5. IsOwn(next)
  BY DEF IsOwn
<1> QED BY <1>1, <1>4, <1>5

LEMMA HeaderTaken ==
    ASSUME NEW w, NEW msg \in Message \cup {None}, IsOwn(msg), NEW g \in InFrame,
           g.type = "Header", Follows(w, LastTaken(msg), g),
           NEW next, next = [msg EXCEPT !.header = g.of]
    PROVE  /\ msg \in Message /\ next \in Message /\ IsOwn(next) /\ LastTaken(next) = g
           /\ next.delivery = msg.delivery /\ g.of = msg.delivery
<1>1. Partial(w, LastTaken(msg)) /\ g = Successor(LastTaken(msg))
  BY DEF Follows
<1>2. Begins(LastTaken(msg))
  BY <1>1, SuccessorIs
<1>3. msg \in Message /\ msg.header = None /\ msg.bodies = <<>> /\ g = HeaderOf(msg.delivery)
  BY <1>1, <1>2, LastTakenIs
<1>4. g.of = msg.delivery /\ msg.delivery \in Delivery
  BY <1>3 DEF HeaderOf, Message
<1>5. /\ next \in Message
      /\ next.delivery = msg.delivery /\ next.header = msg.delivery /\ next.bodies = <<>>
  BY <1>3, <1>4 DEF Message
<1>6. next # None /\ next.header # None
  BY <1>4, <1>5, MessageIs
<1>7. LastTaken(next) = g
  BY <1>3, <1>5, <1>6 DEF LastTaken
<1>8. IsOwn(next)
  BY <1>5, <1>6 DEF IsOwn
<1> QED BY <1>3, <1>4, <1>5, <1>7, <1>8

LEMMA BodyTaken ==
    ASSUME NEW w, NEW msg \in Message \cup {None}, IsOwn(msg), NEW g \in InFrame,
           g.type = "Body", Follows(w, LastTaken(msg), g),
           NEW all, all = Append(msg.bodies, g), NEW next,
           msg \in Message => next = [delivery |-> msg.delivery, header |-> msg.header,
                                     bodies |-> all]
    PROVE  /\ msg \in Message /\ next \in Message /\ IsOwn(next) /\ LastTaken(next) = g
           /\ next.delivery = msg.delivery /\ next.header = msg.delivery
           /\ next.bodies \in Seq(BodyFrame)
           /\ g = PartOf(msg.delivery, Len(next.bodies))
<1> DEFINE top == Len(msg.bodies) + 1
<1>1. Partial(w, LastTaken(msg)) /\ g = Successor(LastTaken(msg))
  BY DEF Follows
<1>2. ~ Begins(LastTaken(msg))
  BY <1>1, SuccessorIs
<1>3. msg \in Message /\ msg.header = msg.delivery /\ g = PartOf(msg.delivery, top)
  BY <1>1, <1>2, LastTakenIs
<1>4. msg.delivery \in Delivery /\ msg.bodies \in Seq(BodyFrame) /\ g \in BodyFrame
  BY <1>3, FrameIs DEF Message
<1>5. /\ all \in Seq(BodyFrame) /\ Len(all) = top /\ all = msg.bodies \o <<g>>
      /\ all # <<>>
  BY <1>4
<1>6. /\ top \in DOMAIN all /\ all[top] = g
      /\ \A i \in DOMAIN all : i = top \/ (i < top /\ i \in DOMAIN msg.bodies)
      /\ \A i \in DOMAIN msg.bodies : i \in DOMAIN all /\ all[i] = msg.bodies[i]
  BY <1>4, <1>5, OneMoreIs
<1> HIDE DEF top
<1>7. /\ next \in Message
      /\ next.delivery = msg.delivery /\ next.header = msg.delivery /\ next.bodies = all
  <2>1. next = [delivery |-> msg.delivery, header |-> msg.header, bodies |-> all]
    BY <1>3
  <2>2. /\ next.delivery = msg.delivery /\ next.header = msg.delivery /\ next.bodies = all
    BY <1>3, <2>1
  <2>3. next \in Message
    BY <1>3, <1>4, <1>5, <2>1 DEF Message
  <2> QED BY <2>2, <2>3
<1>8. next # None /\ next.header # None /\ msg # None
  BY <1>3, <1>4, <1>7, MessageIs
<1>9. LastTaken(next) = g
  BY <1>5, <1>6, <1>7, <1>8 DEF LastTaken
<1>10. \A i \in DOMAIN all : all[i] = PartOf(msg.delivery, i)
  <2>1. \A i \in DOMAIN msg.bodies : msg.bodies[i] = PartOf(msg.delivery, i)
    BY <1>8 DEF IsOwn
  <2> QED BY <1>3, <1>6, <2>1
<1>11. IsOwn(next)
  BY <1>7, <1>8, <1>10 DEF IsOwn
<1> QED BY <1>3, <1>5, <1>7, <1>9, <1>11

\* A message with as many body frames as it has is whole.
LEMMA CompleteIsWhole ==
    ASSUME NEW w, NEW msg \in Message, IsOwn(msg), msg.header = msg.delivery,
           Len(msg.bodies) = Size(w, msg.delivery)
    PROVE  Whole(w, msg)
<1> DEFINE parts == [i \in 1..Size(w, msg.delivery) |-> PartOf(msg.delivery, i)]
<1>1. msg # None /\ msg.bodies \in Seq(BodyFrame)
  BY MessageIs DEF Message
<1>2. /\ Len(msg.bodies) \in Nat /\ DOMAIN msg.bodies = 1..Len(msg.bodies)
      /\ msg.bodies = [i \in DOMAIN msg.bodies |-> msg.bodies[i]]
  BY <1>1
<1>3. \A i \in DOMAIN msg.bodies : msg.bodies[i] = PartOf(msg.delivery, i)
  BY <1>1 DEF IsOwn
<1>4. msg.bodies = parts
  BY <1>2, <1>3
<1> QED BY <1>4 DEF Whole

\* A message that has begun stays in flight when another frame is taken.
LEMMA FlightTaken ==
    ASSUME NEW w, NEW msg, NEW in \in Seq(InFrame), in # <<>>, NEW arrived, NEW d,
           InFlight(w, msg, in, arrived, d), NEW next, NEW more, arrived \subseteq more,
           \/ ~ Begins(Head(in)) /\ next = msg
           \/ /\ Begins(Head(in)) /\ ~ Partial(w, LastTaken(msg))
              /\ next # None /\ next.delivery = Head(in).delivery
              /\ Partial(w, LastTaken(next))
           \/ /\ ~ Begins(Head(in)) /\ next # None /\ msg # None
              /\ next.delivery = msg.delivery
              /\ msg.delivery = d => Partial(w, LastTaken(next))
           \/ /\ ~ Begins(Head(in)) /\ msg # None
              /\ \E m \in more \ {None} : m.delivery = msg.delivery
    PROVE  InFlight(w, next, Tail(in), more, d)
<1>1. CASE \E m \in arrived \ {None} : m.delivery = d
  BY <1>1 DEF InFlight
<1>2. CASE \E i \in DOMAIN in : Begins(in[i]) /\ in[i].delivery = d
  <2>1. PICK i \in DOMAIN in : Begins(in[i]) /\ in[i].delivery = d
    BY <1>2
  <2>2. CASE i = 1
    <3>1. Begins(Head(in)) /\ Head(in).delivery = d
      BY <2>1, <2>2, TailIs
    <3> QED BY <3>1 DEF InFlight
  <2>3. CASE i # 1
    <3>1. i - 1 \in DOMAIN Tail(in) /\ Tail(in)[i - 1] = in[(i - 1) + 1] /\ (i - 1) + 1 = i
      BY <2>1, <2>3, TailIs
    <3> QED BY <2>1, <3>1 DEF InFlight
  <2> QED BY <2>2, <2>3
<1>3. CASE msg # None /\ msg.delivery = d /\ Partial(w, LastTaken(msg))
  BY <1>3 DEF InFlight
<1> QED BY <1>1, <1>2, <1>3 DEF InFlight

---------------------------------------------------------------------------
(* The client takes a frame *)

LEMMA ReceivesIs ==
    ASSUME IInv, NEW s \in ClientState, Receives(s)
    PROVE  /\ manager' \in Managers /\ session' \in Sessions
           /\ session'.transport = session.transport
           /\ session.failed => session'.failed
           /\ SM!Refuses(manager, s, None) => session'.failed
           /\ SM!Refuses(manager, s, None) => manager'.state = manager.state
           /\ ~ SM!Refuses(manager, s, None) => manager'.state = s
<1>1. manager' = Enter(manager, s) /\ Fails(SM!Refuses(manager, s, None))
  BY DEF Receives
<1>2. SM!Refuses(manager, s, None) \in BOOLEAN
  BY DEF SM!Refuses
<1>3. /\ session' \in Sessions /\ session'.transport = session.transport
      /\ session'.failed <=> session.failed \/ SM!Refuses(manager, s, None)
  BY <1>1, <1>2, InvIs, FailsIs
<1> QED BY <1>1, <1>3, InvIs, EnterKeepsType

\* A frame that carries no content is taken, and the message stays as it is.
LEMMA QuietKeeps ==
    ASSUME IInv, NEW type, type \notin Content, Takes(type),
           workload' = workload, broker' = broker, message' = message,
           session'.transport = session.transport, session.failed => session'.failed,
           Arrived \subseteq Arrived', Arrived' \subseteq Arrived \cup {None}
    PROVE  ContentOK' /\ NoneIsLost'
<1> DEFINE open == session.transport = "open"
<1>1. /\ inbox \in Seq(InFrame) /\ inbox # <<>> /\ inbox' = Tail(inbox)
      /\ Head(inbox).type \notin Content
  BY InvIs, TakesIs
<1>2. ContentOK'
  <2> SUFFICES ASSUME ~ session'.failed
               PROVE  /\ IsOwn(message)
                      /\ InOrder(workload, message, inbox', open)
                      /\ \A msg \in Arrived' \ {None} : Whole(workload, msg)
    BY DEF ContentOK
  <2>1. /\ IsOwn(message) /\ InOrder(workload, message, inbox, open)
        /\ \A msg \in Arrived \ {None} : Whole(workload, msg)
    BY DEF IInv, ContentOK
  <2>2. InOrder(workload, message, Tail(inbox), open)
    <3>1. open \in BOOLEAN
      OBVIOUS
    <3>2. Follows(workload, LastTaken(message), Head(inbox))
             => Absorbs(workload, LastTaken(message), Head(inbox))
      BY <1>1, QuietAbsorbs
    <3> HIDE DEF open
    <3> QED BY <1>1, <2>1, <3>1, <3>2, OrderTaken
  <2> QED BY <1>1, <2>1, <2>2
<1>3. NoneIsLost'
  <2> SUFFICES ASSUME ~ session'.failed, session'.transport = "open", NoneIsEmpty,
                      NEW d \in broker.delivered
               PROVE  InFlight(workload, message, inbox', Arrived', d)
    BY DEF NoneIsLost
  <2>1. InFlight(workload, message, inbox, Arrived, d)
    BY DEF IInv, NoneIsLost
  <2>2. ~ Begins(Head(inbox))
    BY <1>1 DEF Begins, Content
  <2>3. InFlight(workload, message, Tail(inbox), Arrived', d)
    BY <1>1, <2>1, <2>2, FlightTaken
  <2> QED BY <1>1, <2>3
<1> QED BY <1>2, <1>3

LEMMA TakesStep ==
    ASSUME IInv, NEW type, Takes(type),
           workload' = workload, lock' = lock, broker' = broker,
           manager' \in Managers, session' \in Sessions, message' \in Message \cup {None},
           manager'.state \in ContentStates => message' # None,
           DOMAIN consumers' \subseteq Calls,
           \A tag \in DOMAIN consumers' : consumers'[tag] \in Awaiting,
           LockFits(lock, task'), CallsFit(task', futures', inbox', outbox'),
           AppTyped(app'), outbox' \in Seq(OutFrame), ContentOK', NoneIsLost'
    PROVE  IInv'
<1>1. ClientTyped'
  BY DEF ClientTyped, Managers
<1>2. BrokerTyped'
  <2>1. Messages' = Messages
    BY DEF Messages
  <2>2. inbox' \in Seq(InFrame)
    BY TakesIs
  <2> QED BY <2>1, <2>2 DEF IInv, BrokerTyped
<1>3. TasksOK' /\ AppTyped(app')
  BY DEF TasksOK
<1> QED BY <1>1, <1>2, <1>3 DEF IInv

\* The same, for a frame that leaves the application as it is.
LEMMA QuietStep ==
    ASSUME IInv, NEW type, type \notin Content, Takes(type),
           workload' = workload, lock' = lock, broker' = broker, message' = message,
           app' = app, manager' \in Managers, Collects, session' \in Sessions,
           session'.transport = session.transport, session.failed => session'.failed,
           DOMAIN consumers' \subseteq Calls,
           \A tag \in DOMAIN consumers' : consumers'[tag] \in Awaiting,
           LockFits(lock, task'), CallsFit(task', futures', inbox', outbox'),
           outbox' \in Seq(OutFrame),
           DoneIn(futures.done) \subseteq DoneIn(futures'.done),
           DoneIn(futures'.done) \subseteq DoneIn(futures.done) \cup {None}
    PROVE  IInv'
<1>1. Arrived \subseteq Arrived' /\ Arrived' \subseteq Arrived \cup {None}
  BY ArrivedIs, ArrivedNext DEF ArrivedIn
<1>2. ContentOK' /\ NoneIsLost'
  BY <1>1, QuietKeeps
<1>3. manager'.state \in ContentStates => message' # None
  BY DEF Collects, IInv, ClientTyped
<1>4. message' \in Message \cup {None} /\ AppTyped(app')
  BY InvIs DEF IInv, ClientTyped
<1> QED BY <1>2, <1>3, <1>4, TakesStep

LEMMA ConsumersAre ==
    ASSUME IInv
    PROVE  /\ DOMAIN consumers \subseteq Calls
           /\ \A tag \in DOMAIN consumers : consumers[tag] \in Awaiting
           /\ message \in Message \cup {None}
           /\ FuturesTyped(futures)
BY InvIs DEF IInv, ClientTyped, CallsOwn

\* The calls and their futures fit, when the futures may only have got a result.
LEMMA FitsQuietly ==
    ASSUME IInv, NEW type, Takes(type), type # "ConsumeOk", task' = task,
           CallsOwn(task, futures'), futures'.pending = futures.pending,
           outbox' = outbox
    PROVE  CallsFit(task', futures', inbox', outbox')
<1>1. /\ inbox \in Seq(InFrame) /\ inbox # <<>> /\ Head(inbox).type # "ConsumeOk"
      /\ inbox' = Tail(inbox) /\ outbox \in Seq(OutFrame)
      /\ CallsFit(task, futures, inbox, outbox)
  BY InvIs, TakesIs
<1>2. CallsFit(task, futures', Tail(inbox), outbox)
  BY <1>1, FitsTaken
<1> QED BY <1>1, <1>2

LEMMA ReceiveConsumeOkStep ==
    ASSUME IInv, ReceiveConsumeOk, workload' = workload, lock' = lock, broker' = broker
    PROVE  IInv'
<1> DEFINE by == Head(futures.pending)
           tag == Head(inbox).tag
           r == [tag |-> tag]
<1>1. /\ Takes("ConsumeOk") /\ Receives("BASIC_CONSUMEOK_RECEIVED")
      /\ futures' = [futures EXCEPT !.pending = Tail(@),
                                    !.done = With(@, by.call, [tag |-> Head(inbox).tag])]
      /\ consumers' = With(consumers, tag, by)
      /\ task' = task /\ message' = message /\ app' = app /\ outbox' = outbox
  BY DEF ReceiveConsumeOk
<1>2. /\ inbox # <<>> /\ Head(inbox).type = "ConsumeOk" /\ inbox' = Tail(inbox)
      /\ tag \in Calls /\ inbox \in Seq(InFrame) /\ outbox \in Seq(OutFrame)
  BY <1>1, InvIs, TakesIs, FrameIs
<1>3. /\ Count(inbox', {"ConsumeOk"}) = Count(inbox, {"ConsumeOk"}) - 1
      /\ Count(inbox, {"ConsumeOk"}) \in Nat /\ Count(inbox', {"ConsumeOk"}) \in Nat
      /\ Count(outbox, ConsumeMethods) \in Nat /\ Cardinality(Queueing(task)) \in Nat
  <2>1. Count(Tail(inbox), {"ConsumeOk"}) = Count(inbox, {"ConsumeOk"}) - 1
    BY <1>2, CountTail
  <2>2. inbox' \in Seq(InFrame)
    BY <1>1, TakesIs
  <2>3. Count(inbox', {"ConsumeOk"}) \in Nat
    BY <2>2, PositionsAreFinite
  <2>4. Count(inbox, {"ConsumeOk"}) \in Nat /\ Count(outbox, ConsumeMethods) \in Nat
    BY <1>2, PositionsAreFinite
  <2>5. Cardinality(Queueing(task)) \in Nat
    BY InvIs, FS_CardinalityType DEF CallsOwn
  <2> QED BY <1>2, <2>1, <2>3, <2>4, <2>5
<1>4. /\ CallsOwn(task, futures)
      /\ Count(inbox, {"ConsumeOk"}) + Count(outbox, ConsumeMethods)
            + Cardinality(Queueing(task)) <= Len(futures.pending)
  BY InvIs DEF CallsFit
<1>5. futures.pending \in Seq(Awaiting) /\ Len(futures.pending) \in Nat
  <2>1. futures.pending \in Seq(Awaiting)
    BY ConsumersAre, FutureIs
  <2> QED BY <2>1
<1>6. futures.pending # <<>>
  <2>1. Len(futures.pending) > 0
    BY <1>3, <1>4, <1>5
  <2> QED BY <1>5, <2>1
<1>7. /\ CallsOwn(task, futures') /\ by \in Awaiting /\ by.call \notin DOMAIN futures.done
      /\ futures'.pending = Tail(futures.pending)
      /\ futures'.done = With(futures.done, by.call, r)
  BY <1>1, <1>2, <1>4, <1>6, OwnConsumed
<1>8. CallsFit(task', futures', inbox', outbox')
  <2>1. Len(Tail(futures.pending)) = Len(futures.pending) - 1
    BY <1>5, <1>6
  <2>2. Count(inbox', {"ConsumeOk"}) + Count(outbox, ConsumeMethods)
            + Cardinality(Queueing(task)) <= Len(futures'.pending)
    BY <1>3, <1>4, <1>5, <1>7, <2>1
  <2> QED BY <1>1, <1>7, <2>2 DEF CallsFit
<1>9. DoneIn(futures'.done) = DoneIn(futures.done)
  <2>1. DOMAIN r # {"message"}
    OBVIOUS
  <2> HIDE DEF r, by
  <2>2. DoneIn(With(futures.done, by.call, r)) = DoneIn(futures.done) \cup {}
    BY <1>7, <2>1, DoneWith
  <2> QED BY <1>7, <2>2
<1>10. /\ DOMAIN consumers' \subseteq Calls
       /\ \A x \in DOMAIN consumers' : consumers'[x] \in Awaiting
  <2> HIDE DEF by, tag
  <2> QED BY <1>1, <1>2, <1>7, ConsumersAre DEF With
<1>11. "BASIC_CONSUMEOK_RECEIVED" \in ClientState \ ContentStates
  BY StatesAre DEF ContentStates
<1>12. /\ manager' \in Managers /\ Collects /\ session' \in Sessions
       /\ session'.transport = session.transport
       /\ session.failed => session'.failed
  BY <1>1, <1>11, ReceivesIs DEF Collects
<1>13. "ConsumeOk" \notin Content /\ LockFits(lock, task')
  BY <1>1, InvIs DEF Content
<1> QED BY <1>1, <1>2, <1>8, <1>9, <1>10, <1>12, <1>13, QuietStep

\* A quiet frame that changes the state and perhaps the futures' results.
LEMMA SilentStep ==
    ASSUME IInv, NEW type, type \notin Content, type # "ConsumeOk", Takes(type),
           workload' = workload, lock' = lock, broker' = broker, message' = message,
           app' = app, task' = task, outbox' = outbox, futures' = futures,
           manager' \in Managers, Collects, session' \in Sessions,
           session'.transport = session.transport, session.failed => session'.failed,
           DOMAIN consumers' \subseteq Calls,
           \A tag \in DOMAIN consumers' : consumers'[tag] \in Awaiting
    PROVE  IInv'
<1>1. CallsOwn(task, futures') /\ futures'.pending = futures.pending
  BY InvIs
<1>2. CallsFit(task', futures', inbox', outbox')
  BY <1>1, FitsQuietly
<1>3. LockFits(lock, task') /\ outbox' \in Seq(OutFrame)
  BY InvIs
<1> QED BY <1>2, <1>3, QuietStep

LEMMA ReceiveCancelOkStep ==
    ASSUME IInv, ReceiveCancelOk, workload' = workload, lock' = lock, broker' = broker
    PROVE  IInv'
<1> DEFINE tag == Head(inbox).tag
<1>1. /\ Takes("CancelOk") /\ consumers' = Without(consumers, {tag})
      /\ IF tag \in DOMAIN consumers THEN Receives("BASIC_CANCELOK_RECEIVED")
         ELSE Fails(TRUE) /\ manager' = manager
      /\ task' = task /\ futures' = futures /\ message' = message /\ app' = app
      /\ outbox' = outbox
  BY DEF ReceiveCancelOk
<1>2. /\ DOMAIN consumers' \subseteq Calls
      /\ \A x \in DOMAIN consumers' : consumers'[x] \in Awaiting
  BY <1>1, ConsumersAre DEF Without, Restrict
<1>3. /\ manager' \in Managers /\ Collects /\ session' \in Sessions
      /\ session'.transport = session.transport
      /\ session.failed => session'.failed
  <2>1. CASE tag \in DOMAIN consumers
    <3>1. "BASIC_CANCELOK_RECEIVED" \in ClientState \ ContentStates
      BY StatesAre DEF ContentStates
    <3> QED BY <1>1, <2>1, <3>1, ReceivesIs DEF Collects
  <2>2. CASE tag \notin DOMAIN consumers
    BY <1>1, <2>2, InvIs, FailsIs DEF Collects
  <2> QED BY <2>1, <2>2
<1>4. "CancelOk" \notin Content /\ "CancelOk" # "ConsumeOk"
  BY DEF Content
<1> HIDE DEF tag
<1> QED BY <1>1, <1>2, <1>3, <1>4, SilentStep

LEMMA ReceiveDeclareOkStep ==
    ASSUME IInv, ReceiveDeclareOk, workload' = workload, lock' = lock, broker' = broker,
           consumers' = consumers
    PROVE  IInv'
<1>1. /\ Takes("DeclareOk") /\ Receives("QUEUE_DECLAREOK_RECEIVED")
      /\ task' = task /\ futures' = futures /\ message' = message /\ app' = app
      /\ outbox' = outbox
  BY DEF ReceiveDeclareOk
<1>2. "QUEUE_DECLAREOK_RECEIVED" \in ClientState \ ContentStates
  BY StatesAre DEF ContentStates
<1>3. /\ manager' \in Managers /\ Collects /\ session' \in Sessions
      /\ session'.transport = session.transport
      /\ session.failed => session'.failed
  BY <1>1, <1>2, ReceivesIs DEF Collects
<1>4. "DeclareOk" \notin Content /\ "DeclareOk" # "ConsumeOk"
  BY DEF Content
<1> QED BY <1>1, <1>3, <1>4, ConsumersAre, SilentStep

LEMMA FailedIs ==
    ASSUME IInv, NEW exc \in Error
    PROVE  LET next == SM!SetState(manager, "EXCEPTION", exc, STE) IN
           /\ next \in Managers
           /\ next.state \in ContentStates => next.state = manager.state
<1>1. "EXCEPTION" \in ClientState \ ContentStates /\ STE \in Error
  BY StatesAre DEF ContentStates, Error
<1> QED BY <1>1, InvIs, SetStateKeepsType

LEMMA ReceiveCancelStep ==
    ASSUME IInv, ReceiveCancel, workload' = workload, lock' = lock, broker' = broker
    PROVE  IInv'
<1>1. /\ Takes("Cancel")
      /\ manager' = SM!SetState(manager, "EXCEPTION", "RuntimeError", STE)
      /\ task' = task /\ futures' = futures /\ consumers' = consumers
      /\ message' = message /\ session' = session /\ app' = app /\ outbox' = outbox
  BY DEF ReceiveCancel
<1>2. manager' \in Managers /\ Collects
  <2>1. "RuntimeError" \in Error
    BY DEF Error
  <2> QED BY <1>1, <2>1, FailedIs DEF Collects
<1>3. "Cancel" \notin Content /\ "Cancel" # "ConsumeOk"
  BY DEF Content
<1> QED BY <1>1, <1>2, <1>3, InvIs, ConsumersAre, SilentStep

LEMMA DisconnectedStep ==
    ASSUME IInv, Disconnected, workload' = workload, lock' = lock, broker' = broker
    PROVE  IInv'
<1>1. /\ Takes("Disconnected")
      /\ manager' = IF IsClosed THEN manager
                    ELSE SM!SetState(manager, "EXCEPTION", "ConnectionClosedException", STE)
      /\ task' = task /\ futures' = futures /\ consumers' = consumers
      /\ message' = message /\ session' = session /\ app' = app /\ outbox' = outbox
  BY DEF Disconnected
<1>2. manager' \in Managers /\ Collects
  <2>1. "ConnectionClosedException" \in Error
    BY DEF Error
  <2> QED BY <1>1, <2>1, InvIs, FailedIs DEF Collects
<1>3. "Disconnected" \notin Content /\ "Disconnected" # "ConsumeOk"
  BY DEF Content
<1> QED BY <1>1, <1>2, <1>3, InvIs, ConsumersAre, SilentStep

LEMMA ReceiveGetEmptyStep ==
    ASSUME IInv, ReceiveGetEmpty, workload' = workload, lock' = lock, broker' = broker
    PROVE  IInv'
<1> DEFINE refused == SM!Refuses(manager, "BASIC_GETEMPTY_RECEIVED", None)
           r == [message |-> None]
<1>1. /\ Takes("GetEmpty") /\ manager' = Enter(manager, "BASIC_GETEMPTY_RECEIVED")
      /\ Fails(refused \/ ~ GetIsAwaited)
      /\ futures' = IF refused \/ ~ GetIsAwaited THEN futures ELSE GetResult(None)
      /\ task' = task /\ consumers' = consumers /\ message' = message /\ app' = app
      /\ outbox' = outbox
  BY DEF ReceiveGetEmpty
<1>2. /\ CallsOwn(task, futures') /\ futures'.pending = futures.pending
      /\ DoneIn(futures.done) \subseteq DoneIn(futures'.done)
      /\ DoneIn(futures'.done) \subseteq DoneIn(futures.done) \cup {None}
  <2>1. CASE refused \/ ~ GetIsAwaited
    BY <1>1, <2>1, InvIs
  <2>2. CASE ~ (refused \/ ~ GetIsAwaited)
    <3>1. futures.get # None /\ futures.get \notin DOMAIN futures.done
      BY <2>2 DEF GetIsAwaited
    <3>2. futures' = [futures EXCEPT !.done = With(@, futures.get, [message |-> None])]
      BY <1>1, <2>2 DEF GetResult
    <3>3. CallsOwn(task, futures)
      BY InvIs
    <3>4. /\ CallsOwn(task, futures') /\ futures'.pending = futures.pending
          /\ futures'.done = With(futures.done, futures.get, [message |-> None])
      BY <3>1, <3>2, <3>3, OwnResult
    <3>5. DOMAIN r = {"message"} /\ r.message = None
      OBVIOUS
    <3>6. futures'.done = With(futures.done, futures.get, r)
      BY <3>4
    <3> HIDE DEF r
    <3>7. DoneIn(futures'.done) = DoneIn(futures.done) \cup {None}
      BY <3>1, <3>5, <3>6, DoneWith
    <3> QED BY <3>4, <3>7
  <2> QED BY <2>1, <2>2
<1>3. "GetEmpty" \notin Content /\ "GetEmpty" # "ConsumeOk"
  BY DEF Content
<1>4. CallsFit(task', futures', inbox', outbox')
  BY <1>1, <1>2, <1>3, FitsQuietly
<1>5. manager' \in Managers /\ Collects
  <2>1. "BASIC_GETEMPTY_RECEIVED" \in ClientState \ ContentStates
    BY StatesAre DEF ContentStates
  <2> QED BY <1>1, <2>1, InvIs, EnterKeepsType DEF Collects
<1>6. /\ session' \in Sessions /\ session'.transport = session.transport
      /\ session.failed => session'.failed
  <2>1. (refused \/ ~ GetIsAwaited) \in BOOLEAN
    OBVIOUS
  <2> HIDE DEF refused
  <2> QED BY <1>1, <2>1, InvIs, FailsIs
<1>7. LockFits(lock, task') /\ outbox' \in Seq(OutFrame)
  BY <1>1, InvIs
<1> HIDE DEF refused, r
<1> QED BY <1>1, <1>2, <1>3, <1>4, <1>5, <1>6, <1>7, ConsumersAre, QuietStep

LEMMA ReceiveChannelCloseStep ==
    ASSUME IInv, ReceiveChannelClose, workload' = workload, lock' = lock, broker' = broker
    PROVE  IInv'
<1> DEFINE state == "CHANNEL_CLOSE_RECEIVED"
           entered == Enter(manager, state)
           frame == [type |-> "Channel.CloseOk"]
<1>1. /\ Takes("Channel.Close")
      /\ task' = task /\ futures' = futures /\ consumers' = consumers
      /\ message' = message /\ app' = app
  BY DEF ReceiveChannelClose
<1>2. "Channel.Close" \notin Content /\ "Channel.Close" # "ConsumeOk"
  BY DEF Content
<1>3. {state, "CHANNEL_CLOSEOK_SENT"} \subseteq ClientState \ ContentStates
  BY StatesAre DEF ContentStates
<1>4. CASE SM!Refuses(manager, state, None)
  <2>1. Receives(state) /\ outbox' = outbox
    BY <1>4 DEF ReceiveChannelClose
  <2>2. /\ manager' \in Managers /\ Collects /\ session' \in Sessions
        /\ session'.transport = session.transport
        /\ session.failed => session'.failed
    BY <1>3, <2>1, ReceivesIs DEF Collects
  <2> QED BY <1>1, <1>2, <2>1, <2>2, ConsumersAre, SilentStep
<1>5. CASE ~ SM!Refuses(manager, state, None)
  <2>1. /\ manager' = Enter(entered, "CHANNEL_CLOSEOK_SENT") /\ Write(<<frame>>)
        /\ session' = [session EXCEPT !.lastError = "NotFound", !.channelOpen = FALSE]
    BY <1>5 DEF ReceiveChannelClose
  <2>2. manager' \in Managers /\ Collects
    <3>1. entered \in Managers /\ entered.state \in {manager.state, state}
      BY <1>3, InvIs, EnterKeepsType
    <3> HIDE DEF entered
    <3>2. /\ manager' \in Managers
          /\ manager'.state \in {entered.state, "CHANNEL_CLOSEOK_SENT"}
      BY <1>3, <2>1, <3>1, EnterKeepsType
    <3> QED BY <1>3, <3>1, <3>2 DEF Collects
  <2>3. /\ session' \in Sessions /\ session'.transport = session.transport
        /\ session.failed => session'.failed
    BY <2>1, InvIs DEF Sessions
  <2>4. frame \in OutFrame /\ frame.type \notin ConsumeMethods
    BY DEF OutFrame, ConsumeMethods
  <2> HIDE DEF frame
  <2>5. /\ outbox' \in Seq(OutFrame)
        /\ Count(outbox', ConsumeMethods) = Count(outbox, ConsumeMethods)
    BY <2>1, <2>4, InvIs, WriteKeeps
  <2>6. CallsFit(task', futures', inbox', outbox')
    <3>1. /\ inbox \in Seq(InFrame) /\ inbox # <<>> /\ Head(inbox).type # "ConsumeOk"
          /\ inbox' = Tail(inbox) /\ outbox \in Seq(OutFrame)
          /\ CallsFit(task, futures, inbox, outbox) /\ CallsOwn(task, futures)
      BY <1>1, InvIs, TakesIs
    <3>2. CallsFit(task, futures, Tail(inbox), outbox')
      BY <2>5, <3>1, FitsTaken
    <3> QED BY <1>1, <3>1, <3>2
  <2>7. LockFits(lock, task')
    BY <1>1, InvIs
  <2> QED BY <1>1, <1>2, <2>2, <2>3, <2>5, <2>6, <2>7, ConsumersAre, QuietStep
<1> QED BY <1>4, <1>5

\* The tasks that wait for the channel to be open go on.
LEMMA AllRaise ==
    ASSUME NEW l, NEW k, NEW f, LockFits(l, k), CallsOwn(k, f), NEW n,
           n = [t \in Task |-> IF k[t].pc = "opening"
                               THEN [k[t] EXCEPT !.pc = "raising"] ELSE k[t]]
    PROVE  LockFits(l, n) /\ CallsOwn(n, f) /\ Queueing(n) = Queueing(k)
<1>1. k \in [Task -> Record] /\ \A t \in Task : RecordOK(k[t])
  BY DEF CallsOwn
<1>2. ASSUME NEW t \in Task
      PROVE  /\ n[t] \in Record /\ n[t].left = k[t].left /\ n[t].call = k[t].call
             /\ n[t].tag = k[t].tag
             /\ n[t].pc = IF k[t].pc = "opening" THEN "raising" ELSE k[t].pc
  <2>1. k[t] \in Record
    BY <1>1
  <2>2. CASE k[t].pc = "opening"
    <3> DEFINE r == [k[t] EXCEPT !.pc = "raising"]
    <3>1. r \in Record /\ r.left = k[t].left /\ r.call = k[t].call /\ r.tag = k[t].tag
          /\ r.pc = "raising"
      BY <2>1 DEF Record, Pcs
    <3>2. n[t] = r
      BY <2>2
    <3> HIDE DEF r
    <3> QED BY <2>2, <3>1, <3>2
  <2>3. CASE k[t].pc # "opening"
    <3>1. n[t] = k[t]
      BY <2>3
    <3> QED BY <2>1, <2>3, <3>1
  <2> QED BY <2>2, <2>3
<1>3. n \in [Task -> Record]
  <2>1. n = [t \in Task |-> n[t]]
    OBVIOUS
  <2> QED BY <1>2, <2>1
<1>4. ASSUME NEW t \in Task
      PROVE  /\ Active(n[t]) <=> Active(k[t])
             /\ n[t].pc = "waiting" <=> k[t].pc = "waiting"
             /\ n[t].pc = "queued" <=> k[t].pc = "queued"
             /\ n[t].pc = "iterating" <=> k[t].pc = "iterating"
  BY <1>2 DEF Active
<1>5. LockFits(l, n)
  BY <1>3, <1>4 DEF LockFits
<1>6. Queueing(n) = Queueing(k)
  BY <1>2, <1>4 DEF Queueing, WillConsume
<1>7. \A t \in Task : RecordOK(n[t])
  BY <1>1, <1>2, <1>4 DEF RecordOK
<1>8. \A call \in Calls : Begun(k, call) => Begun(n, call)
  <2>1. \A call \in Calls : call[1] \in Task
    BY DEF Calls
  <2> QED BY <1>2, <1>4, <2>1 DEF Begun
<1>9. \A t \in Task : n[t].left = k[t].left /\ n[t].call = k[t].call
  BY <1>2
<1>10. \A t \in Task : Active(n[t]) => Active(k[t])
  BY <1>4
<1>11. FuturesOwn(n, f)
  BY <1>8, <1>9, <1>10 DEF CallsOwn, FuturesOwn
<1> QED BY <1>3, <1>5, <1>6, <1>7, <1>11 DEF CallsOwn

LEMMA ReceiveChannelOpenOkStep ==
    ASSUME IInv, ReceiveChannelOpenOk, workload' = workload, lock' = lock, broker' = broker
    PROVE  IInv'
<1> DEFINE refused == SM!Refuses(manager, "CHANNEL_OPENOK_RECEIVED", None)
<1>1. /\ Takes("Channel.OpenOk") /\ manager' = Enter(manager, "CHANNEL_OPENOK_RECEIVED")
      /\ session' = [session EXCEPT !.channelOpen = TRUE, !.failed = @ \/ refused]
      /\ task' = [t \in Task |-> IF task[t].pc = "opening"
                                 THEN [task[t] EXCEPT !.pc = "raising"] ELSE task[t]]
      /\ futures' = futures /\ consumers' = consumers /\ message' = message
      /\ app' = app /\ outbox' = outbox
  BY DEF ReceiveChannelOpenOk
<1>2. "Channel.OpenOk" \notin Content /\ "Channel.OpenOk" # "ConsumeOk"
  BY DEF Content
<1>3. manager' \in Managers /\ Collects
  <2>1. "CHANNEL_OPENOK_RECEIVED" \in ClientState \ ContentStates
    BY StatesAre DEF ContentStates
  <2> QED BY <1>1, <2>1, InvIs, EnterKeepsType DEF Collects
<1>4. refused \in BOOLEAN
  BY DEF SM!Refuses
<1> HIDE DEF refused
<1>5. /\ session' \in Sessions /\ session'.transport = session.transport
      /\ session.failed => session'.failed
  <2> DEFINE failed == session.failed \/ refused
  <2>1. failed \in BOOLEAN /\ (session.failed => failed)
    BY <1>4, InvIs DEF Sessions
  <2>2. session' = [session EXCEPT !.channelOpen = TRUE, !.failed = failed]
    BY <1>1
  <2> HIDE DEF failed
  <2> QED BY <2>1, <2>2, InvIs DEF Sessions
<1>6. LockFits(lock, task') /\ CallsOwn(task', futures) /\ Queueing(task') = Queueing(task)
  BY <1>1, InvIs, AllRaise
<1>7. CallsFit(task', futures', inbox', outbox')
  <2>1. /\ inbox \in Seq(InFrame) /\ inbox # <<>> /\ Head(inbox).type # "ConsumeOk"
        /\ inbox' = Tail(inbox) /\ outbox \in Seq(OutFrame)
        /\ CallsFit(task, futures, inbox, outbox)
    BY <1>1, InvIs, TakesIs
  <2>2. CallsFit(task', futures, Tail(inbox), outbox)
    BY <1>6, <2>1, FitsTaken
  <2> QED BY <1>1, <2>1, <2>2
<1>8. outbox' \in Seq(OutFrame)
  BY <1>1, InvIs
<1> QED BY <1>1, <1>2, <1>3, <1>5, <1>6, <1>7, <1>8, ConsumersAre, QuietStep

---------------------------------------------------------------------------
(* The client takes a part of a message *)

LEMMA FailedKeeps ==
    ASSUME session'.failed
    PROVE  ContentOK' /\ NoneIsLost'
BY DEF ContentOK, NoneIsLost

\* A part is taken into the message, and nothing arrives.
LEMMA PartKeeps ==
    ASSUME IInv, NEW type, Takes(type), workload' = workload, broker' = broker,
           app' = app, futures' = futures,
           session'.transport = session.transport, session.failed => session'.failed,
           NEW next, message' = next, type # "Disconnected",
           ASSUME IsOwn(message), Follows(workload, LastTaken(message), Head(inbox))
           PROVE  /\ IsOwn(next) /\ next # None
                  /\ Absorbs(workload, LastTaken(next), Head(inbox))
                  /\ \/ /\ Begins(Head(inbox)) /\ ~ Partial(workload, LastTaken(message))
                        /\ next.delivery = Head(inbox).delivery
                        /\ Partial(workload, LastTaken(next))
                     \/ /\ ~ Begins(Head(inbox)) /\ message # None
                        /\ next.delivery = message.delivery
                        /\ NoneIsEmpty /\ next.delivery.msg \in Messages
                              => Partial(workload, LastTaken(next))
    PROVE  ContentOK' /\ NoneIsLost'
<1> DEFINE open == session.transport = "open"
<1>1. /\ inbox \in Seq(InFrame) /\ inbox # <<>> /\ inbox' = Tail(inbox)
      /\ Head(inbox).type # "Disconnected"
  BY InvIs, TakesIs
<1>2. Arrived' = Arrived
  BY ArrivedIs, ArrivedNext
<1> SUFFICES ASSUME ~ session'.failed
             PROVE  /\ IsOwn(next)
                    /\ InOrder(workload, next, inbox', open)
                    /\ \A msg \in Arrived \ {None} : Whole(workload, msg)
                    /\ open /\ NoneIsEmpty =>
                          \A d \in broker.delivered :
                             InFlight(workload, next, inbox', Arrived, d)
  BY <1>2 DEF ContentOK, NoneIsLost, NoneIsEmpty
<1>3. /\ IsOwn(message) /\ InOrder(workload, message, inbox, open)
      /\ \A msg \in Arrived \ {None} : Whole(workload, msg)
  BY DEF IInv, ContentOK
<1>4. Follows(workload, LastTaken(message), Head(inbox))
  BY <1>1, <1>3, FirstFollows
<1>5. /\ IsOwn(next) /\ next # None
      /\ Absorbs(workload, LastTaken(next), Head(inbox))
      /\ \/ /\ Begins(Head(inbox)) /\ ~ Partial(workload, LastTaken(message))
            /\ next.delivery = Head(inbox).delivery
            /\ Partial(workload, LastTaken(next))
         \/ /\ ~ Begins(Head(inbox)) /\ message # None
            /\ next.delivery = message.delivery
            /\ NoneIsEmpty /\ next.delivery.msg \in Messages
                              => Partial(workload, LastTaken(next))
  BY <1>3, <1>4
<1>6. InOrder(workload, next, Tail(inbox), open)
  <2>1. open \in BOOLEAN
    OBVIOUS
  <2> HIDE DEF open
  <2> QED BY <1>1, <1>3, <1>5, <2>1, OrderTaken
<1>7. ASSUME open, NoneIsEmpty, NEW d \in broker.delivered
      PROVE  InFlight(workload, next, inbox', Arrived, d)
  <2>1. InFlight(workload, message, inbox, Arrived, d)
    BY <1>7 DEF IInv, NoneIsLost
  <2>2. d.msg \in Messages
    BY DEF IInv, BrokerTyped, BrokerIs, Messages
  <2>3. InFlight(workload, next, Tail(inbox), Arrived, d)
    BY <1>1, <1>5, <1>7, <2>1, <2>2, FlightTaken
  <2> QED BY <1>1, <2>3
<1> QED BY <1>1, <1>3, <1>5, <1>6, <1>7

LEMMA ReceiveMessageStep ==
    ASSUME IInv, NEW type \in {"Deliver", "GetOk"},
           NEW state \in {"BASIC_DELIVER_RECEIVED", "BASIC_GETOK_RECEIVED"},
           ReceiveMessage(type, state), workload' = workload, lock' = lock, broker' = broker
    PROVE  IInv'
<1> DEFINE g == Head(inbox)
           next == [delivery |-> g.delivery, header |-> None, bodies |-> <<>>]
           refused == SM!Refuses(manager, state, None)
<1>1. /\ Takes(type) /\ Receives(state)
      /\ message' = IF refused THEN message ELSE next
      /\ task' = task /\ futures' = futures /\ consumers' = consumers /\ app' = app
      /\ outbox' = outbox
  BY DEF ReceiveMessage
<1>2. g \in InFrame /\ g.type = type /\ Begins(g) /\ type # "ConsumeOk" /\ type # "Disconnected"
  BY <1>1, TakesIs DEF Begins
<1>3. state \in ClientState
  BY StatesAre
<1>4. /\ manager' \in Managers /\ session' \in Sessions
      /\ session'.transport = session.transport
      /\ session.failed => session'.failed
      /\ refused => session'.failed
      /\ refused => manager'.state = manager.state
  BY <1>1, <1>3, ReceivesIs
<1>5. /\ next \in Message /\ next # None /\ IsOwn(next)
      /\ Absorbs(workload, LastTaken(next), g) /\ Partial(workload, LastTaken(next))
      /\ next.delivery = g.delivery
  <2> HIDE DEF g
  <2>1. /\ next \in Message /\ IsOwn(next) /\ Absorbs(workload, LastTaken(next), g)
        /\ Partial(workload, LastTaken(next)) /\ next.delivery = g.delivery
    BY <1>2, MessageBegins
  <2> QED BY <2>1, MessageIs
<1>6. CallsFit(task', futures', inbox', outbox')
  BY <1>1, <1>2, InvIs, FitsQuietly
<1>7. LockFits(lock, task') /\ outbox' \in Seq(OutFrame) /\ AppTyped(app')
  BY <1>1, InvIs
<1>8. message' \in Message \cup {None} /\ (manager'.state \in ContentStates => message' # None)
  <2>1. CASE refused
    BY <1>1, <1>4, <2>1, ConsumersAre DEF IInv, ClientTyped
  <2>2. CASE ~ refused
    BY <1>1, <1>5, <2>2
  <2> QED BY <2>1, <2>2
<1>9. ContentOK' /\ NoneIsLost'
  <2>1. CASE refused
    BY <1>4, <2>1, FailedKeeps
  <2>2. CASE ~ refused
    <3>1. message' = next
      BY <1>1, <2>2
    <3>2. ASSUME IsOwn(message), Follows(workload, LastTaken(message), Head(inbox))
          PROVE  /\ IsOwn(next) /\ next # None
                 /\ Absorbs(workload, LastTaken(next), Head(inbox))
                 /\ \/ /\ Begins(Head(inbox)) /\ ~ Partial(workload, LastTaken(message))
                       /\ next.delivery = Head(inbox).delivery
                       /\ Partial(workload, LastTaken(next))
                    \/ /\ ~ Begins(Head(inbox)) /\ message # None
                       /\ next.delivery = message.delivery
                       /\ NoneIsEmpty /\ next.delivery.msg \in Messages
                              => Partial(workload, LastTaken(next))
      <4>1. ~ Partial(workload, LastTaken(message))
        <5>1. g.type \notin {"Header", "Body"}
          BY <1>2
        <5> QED BY <3>2, <5>1, SuccessorIs DEF Follows
      <4> QED BY <1>2, <1>5, <4>1
    <3> HIDE DEF next
    <3> QED BY <1>1, <1>2, <1>4, <3>1, <3>2, PartKeeps
  <2> QED BY <2>1, <2>2
<1> QED BY <1>1, <1>4, <1>6, <1>7, <1>8, <1>9, ConsumersAre, TakesStep

LEMMA ReceiveHeaderStep ==
    ASSUME IInv, ReceiveHeader, workload' = workload, lock' = lock, broker' = broker
    PROVE  IInv'
<1> DEFINE g == Head(inbox)
           state == "CONTENT_HEADER_RECEIVED"
           next == [message EXCEPT !.header = g.of]
           refused == SM!Refuses(manager, state, None)
<1>1. /\ Takes("Header") /\ Receives(state)
      /\ message' = IF refused THEN message ELSE next
      /\ task' = task /\ futures' = futures /\ consumers' = consumers /\ app' = app
      /\ outbox' = outbox
  BY DEF ReceiveHeader
<1>2. g \in InFrame /\ g.type = "Header" /\ g.of \in Delivery
  BY <1>1, TakesIs, FrameIs
<1>3. state \in ClientState
  BY StatesAre
<1>4. /\ manager' \in Managers /\ session' \in Sessions
      /\ session'.transport = session.transport
      /\ session.failed => session'.failed
      /\ refused => session'.failed
      /\ refused => manager'.state = manager.state
  BY <1>1, <1>3, ReceivesIs
<1>5. ~ refused => next \in Message /\ next # None /\ message \in Message
  <2>1. ~ refused => message \in Message
    BY ContentNeedsMessage DEF IInv
  <2>2. message \in Message => next \in Message
    BY <1>2 DEF Message
  <2> QED BY <2>1, <2>2, MessageIs
<1>6. CallsFit(task', futures', inbox', outbox')
  BY <1>1, InvIs, FitsQuietly
<1>7. LockFits(lock, task') /\ outbox' \in Seq(OutFrame) /\ AppTyped(app')
  BY <1>1, InvIs
<1>8. message' \in Message \cup {None} /\ (manager'.state \in ContentStates => message' # None)
  <2>1. CASE refused
    BY <1>1, <1>4, <2>1, ConsumersAre DEF IInv, ClientTyped
  <2>2. CASE ~ refused
    BY <1>1, <1>5, <2>2
  <2> QED BY <2>1, <2>2
<1>9. ContentOK' /\ NoneIsLost'
  <2>1. CASE refused
    BY <1>4, <2>1, FailedKeeps
  <2>2. CASE ~ refused
    <3>1. message' = next
      BY <1>1, <2>2
    <3>2. ASSUME IsOwn(message), Follows(workload, LastTaken(message), Head(inbox))
          PROVE  /\ IsOwn(next) /\ next # None
                 /\ Absorbs(workload, LastTaken(next), Head(inbox))
                 /\ \/ /\ Begins(Head(inbox)) /\ ~ Partial(workload, LastTaken(message))
                       /\ next.delivery = Head(inbox).delivery
                       /\ Partial(workload, LastTaken(next))
                    \/ /\ ~ Begins(Head(inbox)) /\ message # None
                       /\ next.delivery = message.delivery
                       /\ NoneIsEmpty /\ next.delivery.msg \in Messages
                              => Partial(workload, LastTaken(next))
      <4>1. /\ message \in Message /\ next \in Message /\ IsOwn(next) /\ LastTaken(next) = g
            /\ next.delivery = message.delivery /\ g.of = message.delivery
        <5> HIDE DEF g
        <5> QED BY <1>2, <3>2, ConsumersAre, HeaderTaken DEF g
      <4>2. next # None /\ message # None
        BY <4>1, MessageIs
      <4>3. ~ Begins(g)
        BY <1>2 DEF Begins
      <4>4. ASSUME NoneIsEmpty, next.delivery.msg \in Messages
            PROVE  Partial(workload, g)
        <5>1. workload.bodies[next.delivery.msg] > 0
          BY <4>4 DEF NoneIsEmpty, Messages, IInv, BrokerTyped
        <5>2. Size(workload, g.of) > 0
          BY <4>1, <5>1 DEF Size
        <5> QED BY <1>2, <5>2 DEF Partial
      <4> QED BY <4>1, <4>2, <4>3, <4>4 DEF Absorbs
    <3>3. Takes("Header") /\ app' = app /\ futures' = futures /\ "Header" # "Disconnected"
      BY <1>1
    <3> HIDE DEF next, refused, g, state
    <3>4. /\ session'.transport = session.transport
          /\ session.failed => session'.failed
      BY <1>4
    <3> QED BY <3>1, <3>2, <3>3, <3>4, PartKeeps
  <2> QED BY <2>1, <2>2
<1> QED BY <1>1, <1>4, <1>6, <1>7, <1>8, <1>9, ConsumersAre, TakesStep

---------------------------------------------------------------------------
(* The last part of a message *)

LEMMA MailArrives ==
    ASSUME NEW a, AppTyped(a), NEW c \in Calls, NEW msg \in Message, NEW q,
           q = IF c \in DOMAIN a.mailbox THEN a.mailbox[c] ELSE <<>>,
           NEW b, b = [a EXCEPT !.mailbox = With(@, c, Append(q, msg))]
    PROVE  AppTyped(b) /\ \A d : ArrivedIn(b, d) = ArrivedIn(a, d) \cup {msg}
<1> DEFINE all == Append(q, msg)
           others == UNION {Range(a.mailbox[x]) : x \in DOMAIN a.mailbox \ {c}}
<1>1. q \in Seq(Message) /\ all \in Seq(Message)
  BY AppIs
<1>2. Range(all) = Range(q) \cup {msg}
  <2>1. Range(Append(q, msg)) = Range(q) \cup {msg}
    <3>1. PICK S : S = Message
      OBVIOUS
    <3>2. q \in Seq(S) /\ msg \in S
      BY <1>1, <3>1
    <3> HIDE DEF all, others
    <3> QED BY ONLY <3>2, RangeOfAppend
  <2> QED BY <2>1
<1> HIDE DEF all
<1>3. AppTyped(b) /\ b.handed = a.handed /\ b.mailbox = With(a.mailbox, c, all)
  BY <1>1, MailboxIs DEF all
<1>4. Queued(a.mailbox) = Range(q) \cup others
  <2>1. Range(q) = IF c \in DOMAIN a.mailbox THEN Range(a.mailbox[c]) ELSE {}
    <3>1. Range(<<>>) = {}
      BY DEF Range
    <3> QED BY <3>1
  <2> QED BY <2>1, QueuedBut
<1>5. Queued(b.mailbox) = Range(all) \cup others
  BY <1>3, QueuedWith
<1>6. Queued(b.mailbox) = Queued(a.mailbox) \cup {msg}
  BY <1>2, <1>4, <1>5
<1>7. MailedIn(b) = MailedIn(a) \cup {msg} /\ HandedIn(b) = HandedIn(a)
  BY <1>3, <1>6 DEF MailedIn, HandedIn, Queued
<1> QED BY <1>3, <1>7 DEF ArrivedIn

LEMMA IncompleteIsPartial ==
    ASSUME NEW w, NEW msg, msg.header = msg.delivery, NEW g,
           g = PartOf(msg.delivery, Len(msg.bodies)),
           Len(msg.bodies) # w.bodies[msg.header.msg]
    PROVE  Partial(w, g)
BY DEF Partial, PartOf, Size

LEMMA CompleteIsNot ==
    ASSUME NEW w, NEW msg, msg.header = msg.delivery, NEW g,
           g = PartOf(msg.delivery, Len(msg.bodies)),
           Len(msg.bodies) = w.bodies[msg.header.msg]
    PROVE  ~ Partial(w, g) /\ Len(msg.bodies) = Size(w, msg.delivery)
BY DEF Partial, PartOf, Size, Begins

\* A message that is complete arrives, and is no longer collected.
LEMMA CompleteKeeps ==
    ASSUME IInv, Takes("Body"), workload' = workload, broker' = broker,
           session'.transport = session.transport, session.failed => session'.failed,
           NEW next, next \in Message, message \in Message, IsComplete(next),
           IsOwn(message) /\ Follows(workload, LastTaken(message), Head(inbox)) =>
              /\ IsOwn(next) /\ next.delivery = message.delivery
              /\ next.header = message.delivery
              /\ Head(inbox) = PartOf(message.delivery, Len(next.bodies)),
           message' = None,
           Arrived' = Arrived \cup {next}
    PROVE  ContentOK' /\ NoneIsLost'
<1> DEFINE open == session.transport = "open"
           g == Head(inbox)
<1>1. /\ inbox \in Seq(InFrame) /\ inbox # <<>> /\ inbox' = Tail(inbox)
      /\ g \in InFrame /\ g.type = "Body"
  BY InvIs, TakesIs
<1> SUFFICES ASSUME ~ session'.failed
             PROVE  /\ IsOwn(None)
                    /\ InOrder(workload, None, inbox', open)
                    /\ \A msg \in Arrived' \ {None} : Whole(workload, msg)
                    /\ open /\ NoneIsEmpty =>
                          \A d \in broker.delivered :
                             InFlight(workload, None, inbox', Arrived', d)
  BY DEF ContentOK, NoneIsLost, NoneIsEmpty
<1>2. /\ IsOwn(message) /\ InOrder(workload, message, inbox, open)
      /\ \A msg \in Arrived \ {None} : Whole(workload, msg)
  BY DEF IInv, ContentOK
<1>3. Follows(workload, LastTaken(message), g)
  <2>1. g.type # "Disconnected"
    BY <1>1
  <2> HIDE DEF open
  <2> QED BY <1>1, <1>2, <2>1, FirstFollows DEF g
<1>4. /\ message \in Message /\ next \in Message /\ IsOwn(next)
      /\ next.delivery = message.delivery /\ next.header = message.delivery
      /\ g = PartOf(message.delivery, Len(next.bodies))
  BY <1>2, <1>3
<1>5. ~ Partial(workload, g) /\ Len(next.bodies) = Size(workload, next.delivery)
  <2> HIDE DEF g
  <2> QED BY <1>4, CompleteIsNot DEF IsComplete
<1>6. Whole(workload, next) /\ next # None /\ message # None
  BY <1>4, <1>5, CompleteIsWhole, MessageIs
<1>7. ~ Partial(workload, LastTaken(None))
  <2>1. LastTaken(None).type = "None"
    BY DEF LastTaken
  <2> QED BY <2>1 DEF Partial, Begins
<1>8. InOrder(workload, None, Tail(inbox), open)
  <2>1. Absorbs(workload, LastTaken(None), Head(inbox)) /\ open \in BOOLEAN
    BY <1>5, <1>7 DEF Absorbs
  <2> HIDE DEF open
  <2> QED BY <1>1, <1>2, <2>1, OrderTaken
<1>9. ASSUME open, NoneIsEmpty, NEW d \in broker.delivered
      PROVE  InFlight(workload, None, inbox', Arrived', d)
  <2>1. InFlight(workload, message, inbox, Arrived, d)
    BY <1>9 DEF IInv, NoneIsLost
  <2>2. ~ Begins(g) /\ next \in Arrived' \ {None} /\ Arrived \subseteq Arrived'
    BY <1>1, <1>6 DEF Begins
  <2>3. \E m \in Arrived' \ {None} : m.delivery = message.delivery
    BY <1>4, <2>2
  <2>4. PICK arrived, more : arrived = Arrived /\ more = Arrived'
    OBVIOUS
  <2>5. /\ InFlight(workload, message, inbox, arrived, d) /\ arrived \subseteq more
        /\ ~ Begins(Head(inbox)) /\ message # None
        /\ \E m \in more \ {None} : m.delivery = message.delivery
    BY <1>6, <2>1, <2>2, <2>3, <2>4
  <2> HIDE DEF g, open
  <2>6. InFlight(workload, None, Tail(inbox), more, d)
    BY <1>1, <2>5, FlightTaken
  <2> QED BY <1>1, <2>4, <2>6
<1>10. IsOwn(None)
  BY DEF IsOwn
<1> QED BY <1>1, <1>2, <1>6, <1>8, <1>9, <1>10

LEMMA ReceiveBodyStep ==
    ASSUME IInv, ReceiveBody, workload' = workload, lock' = lock, broker' = broker
    PROVE  IInv'
<1> DEFINE g == Head(inbox)
           state == "CONTENT_BODY_RECEIVED"
           next == [message EXCEPT !.bodies = Append(@, g)]
           refused == SM!Refuses(manager, state, None)
           tag == next.delivery.for
<1>1. /\ Takes("Body")
      /\ task' = task /\ consumers' = consumers /\ outbox' = outbox
      /\ IF refused
         THEN Receives(state) /\ message' = message /\ futures' = futures /\ app' = app
         ELSE IF IsComplete(next)
         THEN /\ manager' = Enter(Enter(manager, state), "MESSAGE_ASSEMBLED")
              /\ Complete(next)
         ELSE /\ Receives(state)
              /\ message' = next /\ futures' = futures /\ app' = app
  BY DEF ReceiveBody
<1>2. /\ g \in InFrame /\ g.type = "Body" /\ g \in BodyFrame
      /\ "Body" # "ConsumeOk" /\ "Body" # "Disconnected"
  BY <1>1, TakesIs, FrameIs
<1>3. state \in ClientState /\ "MESSAGE_ASSEMBLED" \in ClientState \ ContentStates
  BY StatesAre DEF ContentStates
<1>4. LockFits(lock, task') /\ outbox' \in Seq(OutFrame)
  BY <1>1, InvIs
<1>5. CASE refused
  <2>1. Receives(state) /\ message' = message /\ futures' = futures /\ app' = app
    BY <1>1, <1>5
  <2>2. /\ manager' \in Managers /\ session' \in Sessions /\ session'.failed
        /\ manager'.state = manager.state
    BY <1>3, <1>5, <2>1, ReceivesIs
  <2>3. CallsFit(task', futures', inbox', outbox')
    BY <1>1, <1>2, <2>1, InvIs, FitsQuietly
  <2>4. message' \in Message \cup {None} /\ (manager'.state \in ContentStates => message' # None)
    BY <2>1, <2>2, ConsumersAre DEF IInv, ClientTyped
  <2>5. AppTyped(app') /\ ContentOK' /\ NoneIsLost'
    BY <2>1, <2>2, InvIs, FailedKeeps
  <2> HIDE DEF state, refused, next, g, tag
  <2> QED BY <1>1, <1>4, <2>2, <2>3, <2>4, <2>5, ConsumersAre, TakesStep
<1>6. CASE ~ refused
  <2>1. message \in Message /\ next \in Message /\ next # None
    <3>1. message \in Message
      BY <1>6, ContentNeedsMessage DEF IInv
    <3>2. message.bodies \in Seq(BodyFrame)
      BY <3>1 DEF Message
    <3>3. Append(message.bodies, g) \in Seq(BodyFrame)
      BY <1>2, <3>2
    <3>4. next \in Message
      <4> DEFINE all == Append(message.bodies, g)
      <4>1. next = [message EXCEPT !.bodies = all]
        OBVIOUS
      <4>2. all \in Seq(BodyFrame)
        BY <3>3
      <4> HIDE DEF all, next
      <4> QED BY <3>1, <4>1, <4>2 DEF Message
    <3> QED BY <3>1, <3>4, MessageIs
  <2>2. ASSUME IsOwn(message), Follows(workload, LastTaken(message), Head(inbox))
        PROVE  /\ IsOwn(next) /\ LastTaken(next) = g
               /\ next.delivery = message.delivery /\ next.header = message.delivery
               /\ g = PartOf(message.delivery, Len(next.bodies))
    <3>1. message \in Message \cup {None} /\ IsOwn(message)
      BY <2>2, ConsumersAre
    <3>2. g \in InFrame /\ g.type = "Body" /\ Follows(workload, LastTaken(message), g)
      BY <1>2, <2>2
    <3>3. PICK n : n = next
      OBVIOUS
    <3>6. PICK all : all = Append(message.bodies, g)
      OBVIOUS
    <3>4. message \in Message => n = [delivery |-> message.delivery,
                                       header |-> message.header, bodies |-> all]
      BY <3>3, <3>6 DEF Message
    <3> HIDE DEF g, next, state, refused, tag
    <3>5. /\ IsOwn(n) /\ LastTaken(n) = g
          /\ n.delivery = message.delivery /\ n.header = message.delivery
          /\ g = PartOf(message.delivery, Len(n.bodies))
      BY <3>1, <3>2, <3>4, <3>6, BodyTaken
    <3> QED BY <3>3, <3>5
  <2>3. CASE ~ IsComplete(next)
    <3>1. Receives(state) /\ message' = next /\ futures' = futures /\ app' = app
      BY <1>1, <1>6, <2>3
    <3>2. /\ manager' \in Managers /\ session' \in Sessions
          /\ session'.transport = session.transport
          /\ session.failed => session'.failed
      BY <1>3, <3>1, ReceivesIs
    <3>3. CallsFit(task', futures', inbox', outbox')
      BY <1>1, <1>2, <3>1, InvIs, FitsQuietly
    <3>4. ASSUME IsOwn(message), Follows(workload, LastTaken(message), Head(inbox))
          PROVE  /\ IsOwn(next) /\ next # None
                 /\ Absorbs(workload, LastTaken(next), Head(inbox))
                 /\ \/ /\ Begins(Head(inbox)) /\ ~ Partial(workload, LastTaken(message))
                       /\ next.delivery = Head(inbox).delivery
                       /\ Partial(workload, LastTaken(next))
                    \/ /\ ~ Begins(Head(inbox)) /\ message # None
                       /\ next.delivery = message.delivery
                       /\ NoneIsEmpty /\ next.delivery.msg \in Messages
                              => Partial(workload, LastTaken(next))
      <4>1. /\ IsOwn(next) /\ LastTaken(next) = g
            /\ next.delivery = message.delivery /\ next.header = message.delivery
            /\ g = PartOf(message.delivery, Len(next.bodies))
        BY <2>2, <3>4
      <4>2. next # None /\ message # None
        BY <2>1, MessageIs
      <4>3. ~ Begins(g)
        BY <1>2 DEF Begins
      <4> HIDE DEF next, g
      <4>4. Partial(workload, g)
        BY <2>3, <4>1, IncompleteIsPartial DEF IsComplete
      <4> QED BY <4>1, <4>2, <4>3, <4>4 DEF Absorbs, g
    <3> HIDE DEF next, refused, g, state
    <3>5. ContentOK' /\ NoneIsLost'
      BY <1>1, <1>2, <3>1, <3>2, <3>4, PartKeeps
    <3>6. AppTyped(app')
      BY <3>1, InvIs
    <3> QED BY <1>1, <1>4, <2>1, <3>1, <3>2, <3>3, <3>5, <3>6, ConsumersAre, TakesStep
  <2>4. CASE IsComplete(next)
    <3>1. manager' = Enter(Enter(manager, state), "MESSAGE_ASSEMBLED") /\ Complete(next)
      BY <1>1, <1>6, <2>4
    <3>2. manager' \in Managers /\ manager'.state \notin ContentStates
      <4> DEFINE m == Enter(manager, state)
      <4>1. m \in Managers /\ m.state = state
        BY <1>3, <1>6, InvIs, EnterKeepsType
      <4> HIDE DEF m
      <4>2. ~ SM!Refuses(m, "MESSAGE_ASSEMBLED", None)
        BY <4>1, AssembledFollows DEF SM!Refuses
      <4>3. manager' = Enter(m, "MESSAGE_ASSEMBLED")
        BY <3>1 DEF m
      <4>4. manager' \in Managers /\ manager'.state = "MESSAGE_ASSEMBLED"
        BY <1>3, <4>1, <4>2, <4>3, EnterKeepsType
      <4> QED BY <1>3, <4>4
    <3>3. next.delivery \in Delivery /\ tag \in Calls
      BY <2>1 DEF Message, Delivery
    <3> HIDE DEF next, refused, state
    <3>4. CASE next.delivery.get
      <4> DEFINE r == [message |-> next]
      <4>1. /\ Fails(~ GetIsAwaited)
            /\ futures' = IF GetIsAwaited THEN GetResult(next) ELSE futures
            /\ message' = IF futures.get = None THEN next ELSE None
            /\ app' = app
        BY <3>1, <3>4 DEF Complete
      <4>2. /\ session' \in Sessions /\ session'.transport = session.transport
            /\ session.failed => session'.failed
            /\ ~ GetIsAwaited => session'.failed
        <5>1. (~ GetIsAwaited) \in BOOLEAN
          OBVIOUS
        <5> QED BY <4>1, <5>1, InvIs, FailsIs
      <4>3. AppTyped(app') /\ message' \in Message \cup {None}
        BY <2>1, <4>1, InvIs
      <4>4. CASE ~ GetIsAwaited
        <5>1. futures' = futures
          BY <4>1, <4>4
        <5>2. CallsFit(task', futures', inbox', outbox')
          BY <1>1, <1>2, <5>1, InvIs, FitsQuietly
        <5>3. ContentOK' /\ NoneIsLost'
          BY <4>2, <4>4, FailedKeeps
        <5> QED BY <1>1, <1>4, <3>2, <4>2, <4>3, <5>2, <5>3, ConsumersAre, TakesStep
      <4>5. CASE GetIsAwaited
        <5>1. futures.get # None /\ futures.get \notin DOMAIN futures.done
          BY <4>5 DEF GetIsAwaited
        <5>2. futures' = [futures EXCEPT !.done = With(@, futures.get, [message |-> next])]
          BY <4>1, <4>5 DEF GetResult
        <5>3. CallsOwn(task, futures)
          BY InvIs
        <5>4. /\ CallsOwn(task, futures') /\ futures'.pending = futures.pending
              /\ futures'.done = With(futures.done, futures.get, [message |-> next])
          BY <2>1, <5>1, <5>2, <5>3, OwnResult
        <5>5. CallsFit(task', futures', inbox', outbox')
          BY <1>1, <1>2, <5>4, FitsQuietly
        <5>6. Arrived' = Arrived \cup {next}
          <6>1. DOMAIN r = {"message"} /\ r.message = next
            OBVIOUS
          <6>2. futures'.done = With(futures.done, futures.get, r)
            BY <5>4
          <6> HIDE DEF r
          <6>3. DoneIn(futures'.done) = DoneIn(futures.done) \cup {next}
            BY <5>1, <6>1, <6>2, DoneWith
          <6> QED BY <4>1, <6>3, ArrivedIs, ArrivedNext DEF ArrivedIn
        <5>7. message' = None
          BY <4>1, <5>1
        <5>9. ContentOK' /\ NoneIsLost'
          BY <1>1, <2>1, <2>4, <2>2, <4>2, <5>6, <5>7, CompleteKeeps DEF g
        <5> QED BY <1>1, <1>4, <3>2, <4>2, <4>3, <5>5, <5>9, ConsumersAre, TakesStep
      <4> QED BY <4>4, <4>5
    <3>5. CASE ~ next.delivery.get
      <4> DEFINE c == consumers[tag].call
      <4>1. /\ Fails(tag \notin DOMAIN consumers)
            /\ app' = IF tag \notin DOMAIN consumers THEN app
                      ELSE IF consumers[tag].method = "consume"
                      THEN [app EXCEPT !.mailbox = With(@, c, Append(MailOf(c), next))]
                      ELSE Hand(app, c, next)
            /\ message' = IF tag \notin DOMAIN consumers THEN next ELSE None
            /\ futures' = futures
        BY <3>1, <3>5 DEF Complete
      <4>2. /\ session' \in Sessions /\ session'.transport = session.transport
            /\ session.failed => session'.failed
            /\ tag \notin DOMAIN consumers => session'.failed
        <5>1. (tag \notin DOMAIN consumers) \in BOOLEAN
          OBVIOUS
        <5> HIDE DEF tag
        <5> QED BY <4>1, <5>1, InvIs, FailsIs
      <4>3. CallsFit(task', futures', inbox', outbox')
        BY <1>1, <1>2, <4>1, InvIs, FitsQuietly
      <4>4. message' \in Message \cup {None}
        BY <2>1, <4>1
      <4>5. CASE tag \notin DOMAIN consumers
        <5>1. AppTyped(app')
          BY <4>1, <4>5, InvIs
        <5>2. ContentOK' /\ NoneIsLost'
          BY <4>2, <4>5, FailedKeeps
        <5> QED BY <1>1, <1>4, <3>2, <4>2, <4>3, <4>4, <5>1, <5>2, ConsumersAre, TakesStep
      <4>6. CASE tag \in DOMAIN consumers
        <5>1. c \in Calls
          BY <4>6, ConsumersAre DEF Awaiting
        <5>2. AppTyped(app') /\ \A d : ArrivedIn(app', d) = ArrivedIn(app, d) \cup {next}
          <6>1. CASE consumers[tag].method = "consume"
            <7> DEFINE q == MailOf(c)
            <7>1. q = IF c \in DOMAIN app.mailbox THEN app.mailbox[c] ELSE <<>>
              BY DEF MailOf
            <7>2. app' = [app EXCEPT !.mailbox = With(@, c, Append(q, next))]
              BY <4>1, <4>6, <6>1
            <7>3. AppTyped(app)
              BY InvIs
            <7> HIDE DEF c, q
            <7> QED BY <2>1, <5>1, <7>1, <7>2, <7>3, MailArrives
          <6>2. CASE consumers[tag].method # "consume"
            <7>1. app' = Hand(app, c, next)
              BY <4>1, <4>6, <6>2
            <7>2. AppTyped(app)
              BY InvIs
            <7> HIDE DEF c
            <7> QED BY <2>1, <5>1, <7>1, <7>2, HandIs, HandedArrives
          <6> QED BY <6>1, <6>2
        <5>3. Arrived' = Arrived \cup {next} /\ message' = None
          BY <4>1, <4>6, <5>2, ArrivedIs, ArrivedNext
        <5>5. ContentOK' /\ NoneIsLost'
          BY <1>1, <2>1, <2>4, <2>2, <4>2, <5>3, CompleteKeeps DEF g
        <5> QED BY <1>1, <1>4, <3>2, <4>2, <4>3, <4>4, <5>2, <5>5, ConsumersAre, TakesStep
      <4> QED BY <4>5, <4>6
    <3> QED BY <3>4, <3>5
  <2> QED BY <2>3, <2>4
<1> QED BY <1>5, <1>6

LEMMA ReceiveStep ==
    ASSUME IInv, Receive
    PROVE  IInv'
<1>1. workload' = workload /\ lock' = lock /\ broker' = broker
  BY DEF Receive
<1>2. CASE ReceiveDeclareOk
  <2>1. consumers' = consumers
    BY <1>2 DEF ReceiveDeclareOk
  <2> QED BY <1>1, <1>2, <2>1, ReceiveDeclareOkStep
<1>3. CASE \/ ReceiveMessage("Deliver", "BASIC_DELIVER_RECEIVED")
           \/ ReceiveMessage("GetOk", "BASIC_GETOK_RECEIVED")
  BY <1>1, <1>3, ReceiveMessageStep
<1>4. CASE ReceiveConsumeOk \/ ReceiveCancelOk \/ ReceiveGetEmpty
  BY <1>1, <1>4, ReceiveConsumeOkStep, ReceiveCancelOkStep, ReceiveGetEmptyStep
<1>5. CASE ReceiveHeader \/ ReceiveBody \/ ReceiveCancel
  BY <1>1, <1>5, ReceiveHeaderStep, ReceiveBodyStep, ReceiveCancelStep
<1>6. CASE ReceiveChannelClose \/ ReceiveChannelOpenOk \/ Disconnected
  BY <1>1, <1>6, ReceiveChannelCloseStep, ReceiveChannelOpenOkStep, DisconnectedStep
<1> QED BY <1>2, <1>3, <1>4, <1>5, <1>6 DEF Receive

---------------------------------------------------------------------------
(* The broker sends frames *)

\* Frames that may follow a whole message, and leave none open.
OrderedFrames(w, more) ==
    /\ more # <<>> =>
          more[1].type \notin {"Header", "Body"} /\ ~ Partial(w, more[Len(more)])
    /\ \A i \in 2..Len(more) : Follows(w, more[i - 1], more[i])

LEMMA ConcatIs ==
    ASSUME NEW S, NEW s \in Seq(S), NEW r \in Seq(S)
    PROVE  /\ s \o r \in Seq(S) /\ Len(s \o r) = Len(s) + Len(r)
           /\ \A i \in 1..Len(s) : (s \o r)[i] = s[i]
           /\ \A i \in 1..Len(r) : (s \o r)[Len(s) + i] = r[i]
OBVIOUS

LEMMA OrderAppends ==
    ASSUME NEW w, NEW msg, NEW in \in Seq(InFrame), InOrder(w, msg, in, TRUE),
           NEW more \in Seq(InFrame), OrderedFrames(w, more)
    PROVE  InOrder(w, msg, in \o more, TRUE)
<1> DEFINE all == in \o more
           n == Len(in)
           k == Len(more)
<1>1. CASE more = <<>>
  <2>1. in \o <<>> = in
    OBVIOUS
  <2> QED BY <1>1, <2>1
<1>2. CASE more # <<>>
  <2>1. /\ n \in Nat /\ k \in Nat /\ k > 0 /\ DOMAIN in = 1..n
        /\ Len(all) = n + k /\ DOMAIN all = 1..(n + k)
        /\ \A i \in 1..n : all[i] = in[i]
        /\ \A i \in 1..k : all[n + i] = more[i]
    BY <1>2
  <2> HIDE DEF all, n, k
  <2>2. /\ \A i \in 1..n : Follows(w, Before(msg, in, i), in[i])
        /\ ~ Partial(w, Before(msg, in, n + 1))
    BY <2>1 DEF InOrder, n
  <2>3. \A i \in 1..(n + 1) : Before(msg, all, i) = Before(msg, in, i)
    <3>1. \A i \in 1..(n + 1) : i = 1 \/ i - 1 \in 1..n
      BY <2>1
    <3> QED BY <2>1, <3>1 DEF Before
  <2>4. \A i \in 2..(k + 1) : Before(msg, all, n + i) = more[i - 1]
    <3>1. ASSUME NEW i \in 2..(k + 1)
          PROVE  Before(msg, all, n + i) = more[i - 1]
      <4>1. n + i # 1 /\ (n + i) - 1 = n + (i - 1) /\ i - 1 \in 1..k
        BY <2>1
      <4>2. all[n + (i - 1)] = more[i - 1]
        BY <2>1, <4>1
      <4> QED BY <4>1, <4>2 DEF Before
    <3> QED BY <3>1
  <2>5. ASSUME NEW i \in 1..(n + k)
        PROVE  Follows(w, Before(msg, all, i), all[i])
    <3>1. CASE i \in 1..n
      <4>1. i \in 1..(n + 1)
        BY <2>1, <3>1
      <4> QED BY <2>1, <2>2, <2>3, <3>1, <4>1
    <3>2. CASE i = n + 1
      <4>1. all[n + 1] = more[1] /\ n + 1 \in 1..(n + 1)
        BY <2>1
      <4>2. Before(msg, all, n + 1) = Before(msg, in, n + 1)
        BY <2>3, <4>1
      <4>3. more[1].type \notin {"Header", "Body"}
        BY <1>2 DEF OrderedFrames
      <4> QED BY <2>2, <3>2, <4>1, <4>2, <4>3 DEF Follows
    <3>3. CASE i \notin 1..(n + 1)
      <4>1. PICK j \in 2..k : i = n + j
        <5>1. i - n \in 2..k /\ i = n + (i - n)
          BY <2>1, <3>3
        <5> QED BY <5>1
      <4>2. j \in 1..k /\ j \in 2..(k + 1)
        BY <2>1
      <4>3. all[n + j] = more[j] /\ Before(msg, all, n + j) = more[j - 1]
        BY <2>1, <2>4, <4>2
      <4>4. Follows(w, more[j - 1], more[j])
        BY DEF OrderedFrames, k
      <4> QED BY <4>1, <4>3, <4>4
    <3>4. i \in 1..n \/ i = n + 1 \/ i \notin 1..(n + 1)
      BY <2>1
    <3> QED BY <3>1, <3>2, <3>3, <3>4
  <2>6. ~ Partial(w, Before(msg, all, Len(all) + 1))
    <3>1. Len(all) + 1 = n + (k + 1) /\ k + 1 \in 2..(k + 1) /\ (k + 1) - 1 = k
      BY <2>1
    <3>2. Before(msg, all, n + (k + 1)) = more[(k + 1) - 1]
      BY <2>4, <3>1
    <3>3. ~ Partial(w, more[k])
      BY <1>2 DEF OrderedFrames, k
    <3> QED BY <3>1, <3>2, <3>3
  <2> QED BY <2>1, <2>5, <2>6 DEF InOrder, all
<1> QED BY <1>1, <1>2

\* The frames of a message that is sent.
FramesOf(w, type, d) ==
    <<[type |-> type, delivery |-> d], HeaderOf(d)>> \o [i \in 1..Size(w, d) |-> PartOf(d, i)]

ContentOf(more, d) ==
    \A i \in DOMAIN more : /\ more[i].type \in Content
                           /\ Begins(more[i]) => more[i].delivery = d

Bears(more, d) == \E i \in DOMAIN more : Begins(more[i]) /\ more[i].delivery = d

LEMMA FramesAre ==
    ASSUME NEW w, NEW type, type = "Deliver" \/ type = "GetOk",
           NEW d \in Delivery, Size(w, d) \in Nat,
           NEW more, more = FramesOf(w, type, d)
    PROVE  /\ more \in Seq(InFrame) /\ OrderedFrames(w, more)
           /\ Bears(more, d) /\ ContentOf(more, d)
<1> DEFINE first == [type |-> type, delivery |-> d]
           two == <<first, HeaderOf(d)>>
           n == Size(w, d)
           parts == [i \in 1..n |-> PartOf(d, i)]
<1>1. /\ first \in InFrame /\ HeaderOf(d) \in InFrame
      /\ \A i \in Nat : PartOf(d, i) \in InFrame
  BY DEF InFrame, HeaderOf, PartOf, BodyFrame
<1>2. /\ Begins(first) /\ first.delivery = d /\ Successor(first) = HeaderOf(d)
      /\ first.type \notin {"ConsumeOk", "Header", "Body"}
  BY DEF Begins, Successor
<1>3. /\ HeaderOf(d).type = "Header" /\ HeaderOf(d).of = d /\ ~ Begins(HeaderOf(d))
      /\ \A i : PartOf(d, i).type = "Body" /\ PartOf(d, i).of = d /\ PartOf(d, i).part = i
      /\ \A i : ~ Begins(PartOf(d, i))
  BY DEF HeaderOf, PartOf, Begins
<1>4. /\ Successor(HeaderOf(d)) = PartOf(d, 1)
      /\ \A i : Successor(PartOf(d, i)) = PartOf(d, i + 1)
  BY <1>3 DEF Successor
<1>5. /\ Partial(w, first) /\ (Partial(w, HeaderOf(d)) <=> n # 0)
      /\ \A i : Partial(w, PartOf(d, i)) <=> i # n
  BY <1>2, <1>3 DEF Partial
<1> HIDE DEF first
<1>6. /\ two \in Seq(InFrame) /\ Len(two) = 2 /\ two[1] = first /\ two[2] = HeaderOf(d)
  BY <1>1
<1>7. /\ parts \in Seq(InFrame) /\ Len(parts) = n
      /\ \A i \in 1..n : parts[i] = PartOf(d, i)
  <2>1. \A i \in 1..n : PartOf(d, i) \in InFrame
    BY <1>1
  <2> HIDE DEF n
  <2>2. n \in Nat
    BY DEF n
  <2> QED BY <2>1, <2>2
<1>8. more = two \o parts
  BY DEF FramesOf, first
<1> HIDE DEF two, parts, n
<1>9. n \in Nat
  BY DEF n
<1>10. /\ more \in Seq(InFrame) /\ Len(more) = n + 2 /\ DOMAIN more = 1..(n + 2)
       /\ more[1] = first /\ more[2] = HeaderOf(d)
       /\ \A i \in 1..n : more[2 + i] = PartOf(d, i)
  <2>1. /\ two \o parts \in Seq(InFrame) /\ Len(two \o parts) = 2 + n
        /\ (two \o parts)[1] = two[1] /\ (two \o parts)[2] = two[2]
        /\ \A i \in 1..n : (two \o parts)[2 + i] = parts[i]
    <3>1. /\ two \o parts \in Seq(InFrame) /\ Len(two \o parts) = Len(two) + Len(parts)
          /\ \A i \in 1..Len(two) : (two \o parts)[i] = two[i]
          /\ \A i \in 1..Len(parts) : (two \o parts)[Len(two) + i] = parts[i]
      <4>1. two \in Seq(InFrame) /\ parts \in Seq(InFrame)
        BY <1>6, <1>7
      <4> QED BY ONLY <4>1, ConcatIs
    <3>2. 1 \in 1..Len(two) /\ 2 \in 1..Len(two)
      BY <1>6
    <3> QED BY <1>6, <1>7, <3>1, <3>2
  <2>2. Len(more) = n + 2 /\ DOMAIN more = 1..(n + 2)
    BY <1>8, <1>9, <2>1
  <2> QED BY <1>6, <1>7, <1>8, <2>1, <2>2
<1>11. \A i \in DOMAIN more : i = 1 \/ i = 2 \/ (i - 2 \in 1..n /\ more[i] = PartOf(d, i - 2))
  <2>1. \A i \in DOMAIN more : i = 1 \/ i = 2 \/ (i - 2 \in 1..n /\ 2 + (i - 2) = i)
    BY <1>9, <1>10
  <2> QED BY <1>10, <2>1
<1>12. 1 \in DOMAIN more /\ Begins(more[1]) /\ more[1].delivery = d
  BY <1>2, <1>9, <1>10
<1>13. Bears(more, d)
  BY <1>12 DEF Bears
<1>16. ContentOf(more, d)
  <2>1. first.type \in Content /\ {"Header", "Body"} \subseteq Content
    BY <1>2 DEF Content, Begins
  <2> QED BY <1>2, <1>3, <1>10, <1>11, <2>1 DEF ContentOf
<1>14. ASSUME NEW i \in 2..Len(more)
       PROVE  Follows(w, more[i - 1], more[i])
  <2>1. CASE i = 2
    <3>1. Follows(w, first, HeaderOf(d))
      BY <1>2, <1>5 DEF Follows
    <3>2. i - 1 = 1
      BY <2>1
    <3> QED BY <1>10, <2>1, <3>1, <3>2
  <2>2. CASE i = 3
    <3>1. n # 0 /\ more[3] = PartOf(d, 1) /\ i - 1 = 2
      <4>1. n # 0 /\ 1 \in 1..n /\ 2 + 1 = 3 /\ i - 1 = 2
        BY <1>9, <1>10, <2>2
      <4>2. more[2 + 1] = PartOf(d, 1)
        BY <1>10, <4>1
      <4> QED BY <4>1, <4>2
    <3>2. Follows(w, HeaderOf(d), PartOf(d, 1))
      BY <1>4, <1>5, <3>1 DEF Follows
    <3> QED BY <1>10, <2>2, <3>1, <3>2
  <2>3. CASE i \notin {2, 3}
    <3>1. PICK j : j = i - 3
      OBVIOUS
    <3>2. /\ j \in 1..n /\ j + 1 \in 1..n /\ j # n
          /\ 2 + j = i - 1 /\ 2 + (j + 1) = i
      BY <1>9, <1>10, <2>3, <3>1
    <3>3. more[2 + j] = PartOf(d, j) /\ more[2 + (j + 1)] = PartOf(d, j + 1)
      BY <1>10, <3>2
    <3>4. Follows(w, PartOf(d, j), PartOf(d, j + 1))
      BY <1>4, <1>5, <3>2 DEF Follows
    <3> QED BY <3>2, <3>3, <3>4
  <2> QED BY <2>1, <2>2, <2>3
<1>15. more # <<>> /\ more[1].type \notin {"Header", "Body"} /\ ~ Partial(w, more[Len(more)])
  <2>1. CASE n = 0
    <3>1. Len(more) = 2
      BY <1>10, <2>1
    <3> QED BY <1>2, <1>5, <1>10, <2>1, <3>1
  <2>2. CASE n # 0
    <3>1. n \in 1..n /\ Len(more) = 2 + n
      BY <1>9, <1>10, <2>2
    <3>2. more[2 + n] = PartOf(d, n)
      BY <1>10, <3>1
    <3>3. more # <<>>
      BY <1>9, <1>10
    <3> QED BY <1>2, <1>5, <1>10, <3>1, <3>2, <3>3
  <2> QED BY <2>1, <2>2
<1> QED BY <1>10, <1>13, <1>14, <1>15, <1>16 DEF OrderedFrames

\* A single frame that carries no content.
LEMMA OneFrame ==
    ASSUME NEW w, NEW frame \in InFrame, frame.type \notin Content
    PROVE  <<frame>> \in Seq(InFrame) /\ OrderedFrames(w, <<frame>>)
<1>1. /\ <<frame>> \in Seq(InFrame) /\ Len(<<frame>>) = 1 /\ <<frame>>[1] = frame
  OBVIOUS
<1>2. ~ Partial(w, frame)
  BY DEF Partial, Begins, Content
<1>3. frame.type \notin {"Header", "Body"}
  BY DEF Content
<1>4. 2..1 = {}
  OBVIOUS
<1> QED BY <1>1, <1>2, <1>3, <1>4 DEF OrderedFrames

---------------------------------------------------------------------------
(* The steps of the broker *)

BrokerOf(phase, channel, ready, tags, unacked, sent, delivered, settled) ==
    [phase |-> phase, channel |-> channel, ready |-> ready, consumers |-> tags,
     unacked |-> unacked, sent |-> sent, delivered |-> delivered, settled |-> settled]

LEMMA BrokerFields ==
    ASSUME NEW w, NEW b, BrokerIs(w, b)
    PROVE  /\ b = BrokerOf(b.phase, b.channel, b.ready, b.consumers, b.unacked, b.sent,
                           b.delivered, b.settled)
           /\ b.phase \in {"open", "closing", "closed", "gone"} /\ b.channel \in Nat
           /\ b.ready \in SUBSET DOMAIN w.bodies /\ b.consumers \in SUBSET Calls
           /\ b.sent \in Nat /\ b.settled \in SUBSET (Nat \X Nat)
           /\ b.delivered \in SUBSET {d \in Delivery : d.msg \in DOMAIN w.bodies}
           /\ DOMAIN b.unacked \subseteq Nat
           /\ \A n \in DOMAIN b.unacked :
                 b.unacked[n] \in Delivery /\ b.unacked[n].msg \in DOMAIN w.bodies
BY DEF BrokerIs, BrokerOf

LEMMA BrokerMade ==
    ASSUME NEW w, NEW phase \in {"open", "closing", "closed", "gone"}, NEW channel \in Nat,
           NEW ready \in SUBSET DOMAIN w.bodies, NEW tags \in SUBSET Calls,
           NEW sent \in Nat, NEW settled \in SUBSET (Nat \X Nat),
           NEW delivered \in SUBSET {d \in Delivery : d.msg \in DOMAIN w.bodies},
           NEW unacked, DOMAIN unacked \subseteq Nat,
           \A n \in DOMAIN unacked :
              unacked[n] \in Delivery /\ unacked[n].msg \in DOMAIN w.bodies,
           NEW b, b = BrokerOf(phase, channel, ready, tags, unacked, sent, delivered, settled)
    PROVE  BrokerIs(w, b) /\ b.delivered = delivered
BY DEF BrokerIs, BrokerOf

\* What the frames and the record of the broker must be after a step of it.
LEMMA BrokerStep ==
    ASSUME IInv, ClientUnchanged, NEW more \in Seq(InFrame), OrderedFrames(workload, more),
           Sends(more), outbox' \in Seq(OutFrame), BrokerIs(workload, broker'),
           Count(inbox', {"ConsumeOk"}) + Count(outbox', ConsumeMethods)
              <= Count(inbox, {"ConsumeOk"}) + Count(outbox, ConsumeMethods),
           \A d \in broker'.delivered :
              \/ d \in broker.delivered
              \/ \E i \in DOMAIN more : Begins(more[i]) /\ more[i].delivery = d
    PROVE  IInv'
<1>1. /\ workload' = workload /\ manager' = manager /\ lock' = lock /\ task' = task
      /\ futures' = futures /\ consumers' = consumers /\ message' = message
      /\ session' = session /\ app' = app
  BY DEF ClientUnchanged
<1>2. inbox \in Seq(InFrame) /\ outbox \in Seq(OutFrame) /\ CallsFit(task, futures, inbox, outbox)
  BY InvIs
<1>3. inbox' = IF session.transport = "open" THEN inbox \o more ELSE inbox
  BY DEF Sends
<1>4. inbox' \in Seq(InFrame)
  BY <1>2, <1>3, ConcatIs
<1>5. ClientTyped'
  BY <1>1 DEF IInv, ClientTyped, Managers
<1>6. BrokerTyped'
  BY <1>1, <1>4 DEF IInv, BrokerTyped
<1>7. CallsFit(task, futures, inbox', outbox')
  <2>1. Count(inbox, {"ConsumeOk"}) \in Nat /\ Count(inbox', {"ConsumeOk"}) \in Nat
    BY <1>2, <1>4, PositionsAreFinite
  <2>2. Count(outbox, ConsumeMethods) \in Nat /\ Count(outbox', ConsumeMethods) \in Nat
    BY <1>2, PositionsAreFinite
  <2>3. Cardinality(Queueing(task)) \in Nat /\ Len(futures.pending) \in Nat
    <3>1. Cardinality(Queueing(task)) \in Nat
      BY <1>2, FS_CardinalityType DEF CallsFit, CallsOwn
    <3>2. futures.pending \in Seq(Awaiting)
      BY ConsumersAre, FutureIs
    <3> QED BY <3>1, <3>2
  <2>4. /\ CallsOwn(task, futures)
        /\ Count(inbox, {"ConsumeOk"}) + Count(outbox, ConsumeMethods)
              + Cardinality(Queueing(task)) <= Len(futures.pending)
    BY <1>2 DEF CallsFit
  <2>5. Count(inbox', {"ConsumeOk"}) + Count(outbox', ConsumeMethods)
              + Cardinality(Queueing(task)) <= Len(futures.pending)
    BY <2>1, <2>2, <2>3, <2>4
  <2> QED BY <2>4, <2>5 DEF CallsFit
<1>8. TasksOK' /\ AppTyped(app')
  BY <1>1, <1>7 DEF IInv, TasksOK
<1>9. Arrived' = Arrived
  BY <1>1 DEF Arrived
<1>10. ContentOK'
  <2>1. ASSUME ~ session.failed
        PROVE  InOrder(workload, message, inbox', session.transport = "open")
    <3>1. InOrder(workload, message, inbox, session.transport = "open")
      BY <2>1 DEF IInv, ContentOK
    <3>2. CASE session.transport = "open"
      <4>1. InOrder(workload, message, inbox, TRUE)
        BY <3>1, <3>2
      <4>2. InOrder(workload, message, inbox \o more, TRUE)
        BY <1>2, <4>1, OrderAppends
      <4> QED BY <1>3, <3>2, <4>2
    <3>3. CASE session.transport # "open"
      BY <1>3, <3>1, <3>3
    <3> QED BY <3>2, <3>3
  <2> QED BY <1>1, <1>9, <2>1 DEF IInv, ContentOK
<1>11. NoneIsLost'
  <2>1. ASSUME ~ session.failed, session.transport = "open", NoneIsEmpty,
               NEW d \in broker'.delivered
        PROVE  InFlight(workload, message, inbox', Arrived, d)
    <3>1. /\ inbox' = inbox \o more
          /\ \A i \in DOMAIN inbox : i \in DOMAIN inbox' /\ inbox'[i] = inbox[i]
          /\ \A i \in DOMAIN more : Len(inbox) + i \in DOMAIN inbox'
                                    /\ inbox'[Len(inbox) + i] = more[i]
      <4>1. /\ inbox' = inbox \o more /\ Len(inbox') = Len(inbox) + Len(more)
            /\ \A i \in 1..Len(inbox) : inbox'[i] = inbox[i]
            /\ \A i \in 1..Len(more) : inbox'[Len(inbox) + i] = more[i]
        BY <1>2, <1>3, <2>1, ConcatIs
      <4>2. /\ DOMAIN inbox = 1..Len(inbox) /\ DOMAIN more = 1..Len(more)
            /\ DOMAIN inbox' = 1..Len(inbox') /\ Len(inbox) \in Nat /\ Len(more) \in Nat
        BY <1>2, <1>4
      <4>3. /\ \A i \in 1..Len(inbox) : i \in 1..Len(inbox')
            /\ \A i \in 1..Len(more) : Len(inbox) + i \in 1..Len(inbox')
        BY <4>1, <4>2
      <4> QED BY <4>1, <4>2, <4>3
    <3>2. CASE d \in broker.delivered
      <4>1. InFlight(workload, message, inbox, Arrived, d)
        BY <2>1, <3>2 DEF IInv, NoneIsLost
      <4>2. CASE \E i \in DOMAIN inbox : Begins(inbox[i]) /\ inbox[i].delivery = d
        <5>1. PICK i \in DOMAIN inbox : Begins(inbox[i]) /\ inbox[i].delivery = d
          BY <4>2
        <5>2. i \in DOMAIN inbox' /\ inbox'[i] = inbox[i]
          BY <3>1, <5>1
        <5> QED BY <5>1, <5>2 DEF InFlight
      <4> QED BY <4>1, <4>2 DEF InFlight
    <3>3. CASE d \notin broker.delivered
      <4>1. PICK i \in DOMAIN more : Begins(more[i]) /\ more[i].delivery = d
        BY <2>1, <3>3
      <4>2. Len(inbox) + i \in DOMAIN inbox' /\ inbox'[Len(inbox) + i] = more[i]
        BY <3>1
      <4> QED BY <4>1, <4>2 DEF InFlight
    <3> QED BY <3>2, <3>3
  <2> QED BY <1>1, <1>9, <2>1 DEF NoneIsLost, NoneIsEmpty
<1> QED BY <1>5, <1>6, <1>8, <1>10, <1>11 DEF IInv

\* The broker takes a frame, or none.
Reads == outbox' = outbox \/ (outbox # <<>> /\ outbox' = Tail(outbox))

LEMMA ReadsIs ==
    ASSUME IInv, Reads
    PROVE  /\ outbox' \in Seq(OutFrame)
           /\ Count(outbox, ConsumeMethods) \in Nat /\ Count(outbox', ConsumeMethods) \in Nat
           /\ Count(outbox', ConsumeMethods) <= Count(outbox, ConsumeMethods)
           /\ outbox # <<>> /\ outbox' = Tail(outbox) /\ Head(outbox).type \in ConsumeMethods
                 => Count(outbox', ConsumeMethods) = Count(outbox, ConsumeMethods) - 1
<1>1. outbox \in Seq(OutFrame)
  BY InvIs
<1>2. Count(outbox, ConsumeMethods) \in Nat
  BY <1>1, PositionsAreFinite
<1>3. CASE outbox' = outbox /\ outbox = <<>>
  BY <1>1, <1>2, <1>3
<1>4. CASE outbox # <<>> /\ outbox' = Tail(outbox)
  <2>1. outbox' \in Seq(OutFrame)
    BY <1>1, <1>4, TailElements
  <2>2. Count(outbox', ConsumeMethods) \in Nat
    BY <2>1, PositionsAreFinite
  <2>3. Count(Tail(outbox), ConsumeMethods) =
               IF Head(outbox).type \in ConsumeMethods THEN Count(outbox, ConsumeMethods) - 1
               ELSE Count(outbox, ConsumeMethods)
    BY <1>1, <1>4, CountTail
  <2> QED BY <1>2, <1>4, <2>1, <2>2, <2>3
<1>5. CASE outbox' = outbox /\ outbox # <<>> /\ outbox' # Tail(outbox)
  BY <1>1, <1>2, <1>5
<1> QED BY <1>3, <1>4, <1>5 DEF Reads

LEMMA SentQuietly ==
    ASSUME IInv, ClientUnchanged, Reads, NEW more \in Seq(InFrame),
           OrderedFrames(workload, more), Sends(more),
           \A i \in DOMAIN more : more[i].type \notin {"ConsumeOk"},
           BrokerIs(workload, broker'),
           \A d \in broker'.delivered :
              \/ d \in broker.delivered
              \/ \E i \in DOMAIN more : Begins(more[i]) /\ more[i].delivery = d
    PROVE  IInv'
<1>1. inbox \in Seq(InFrame) /\ Count(inbox, {"ConsumeOk"}) \in Nat
  BY InvIs, PositionsAreFinite
<1>2. Count(inbox', {"ConsumeOk"}) = Count(inbox, {"ConsumeOk"})
  <2>1. Count(inbox \o more, {"ConsumeOk"}) = Count(inbox, {"ConsumeOk"})
    BY <1>1, CountConcatNone
  <2> QED BY <2>1 DEF Sends
<1>3. /\ outbox' \in Seq(OutFrame)
      /\ Count(inbox', {"ConsumeOk"}) + Count(outbox', ConsumeMethods)
              <= Count(inbox, {"ConsumeOk"}) + Count(outbox, ConsumeMethods)
  BY <1>1, <1>2, ReadsIs
<1> QED BY <1>3, BrokerStep

\* A frame without content, and nothing that was delivered.
LEMMA AnsweredQuietly ==
    ASSUME IInv, ClientUnchanged, Reads, NEW frame \in InFrame,
           frame.type \notin Content \cup {"ConsumeOk"}, Sends(<<frame>>),
           BrokerIs(workload, broker'), broker'.delivered = broker.delivered
    PROVE  IInv'
<1>1. <<frame>> \in Seq(InFrame) /\ OrderedFrames(workload, <<frame>>)
  BY OneFrame
<1>2. \A i \in DOMAIN <<frame>> : <<frame>>[i].type \notin {"ConsumeOk"}
  OBVIOUS
<1> QED BY <1>1, <1>2, SentQuietly

\* No frame at all.
LEMMA AnsweredNothing ==
    ASSUME IInv, ClientUnchanged, Reads, inbox' = inbox,
           BrokerIs(workload, broker'), broker'.delivered = broker.delivered
    PROVE  IInv'
<1> DEFINE more == <<>>
<1>1. more \in Seq(InFrame) /\ DOMAIN more = {} /\ Len(more) = 0
  OBVIOUS
<1>2. OrderedFrames(workload, more)
  <2>1. 2..0 = {}
    OBVIOUS
  <2> QED BY <1>1, <2>1 DEF OrderedFrames
<1>3. Sends(more)
  <2>1. inbox \o <<>> = inbox
    BY InvIs
  <2> QED BY <2>1 DEF Sends
<1> HIDE DEF more
<1> QED BY <1>1, <1>2, <1>3, SentQuietly

LEMMA PlainFrames ==
    \A type \in {"GetEmpty", "DeclareOk", "Cancel", "Channel.Close", "Channel.OpenOk",
                 "Disconnected"} :
       /\ [type |-> type] \in InFrame
       /\ [type |-> type].type \notin Content \cup {"ConsumeOk"}
BY DEF InFrame, Content

LEMMA BrokerHas ==
    ASSUME IInv
    PROVE  /\ BrokerIs(workload, broker) /\ workload \in Workloads /\ IsWorkload(workload)
           /\ \A d \in Delivery : d.msg \in DOMAIN workload.bodies => Size(workload, d) \in Nat
           /\ DOMAIN workload.bodies \subseteq Nat
<1>1. BrokerIs(workload, broker) /\ workload \in Workloads /\ IsWorkload(workload)
  BY ConsumersAssumption DEF IInv, BrokerTyped
<1>2. workload.bodies \in Seq(Nat)
  BY <1>1 DEF IsWorkload
<1>3. \A i \in DOMAIN workload.bodies : workload.bodies[i] \in Nat /\ i \in Nat
  BY <1>2
<1> QED BY <1>1, <1>3 DEF Size

LEMMA BrokerNow ==
    ASSUME IInv
    PROVE  /\ broker = BrokerOf(broker.phase, broker.channel, broker.ready, broker.consumers,
                                broker.unacked, broker.sent, broker.delivered, broker.settled)
           /\ broker.phase \in {"open", "closing", "closed", "gone"} /\ broker.channel \in Nat
           /\ broker.ready \in SUBSET DOMAIN workload.bodies
           /\ broker.consumers \in SUBSET Calls
           /\ broker.sent \in Nat /\ broker.settled \in SUBSET (Nat \X Nat)
           /\ broker.delivered \in SUBSET {d \in Delivery : d.msg \in DOMAIN workload.bodies}
           /\ DOMAIN broker.unacked \subseteq Nat
           /\ \A n \in DOMAIN broker.unacked :
                 /\ broker.unacked[n] \in Delivery
                 /\ broker.unacked[n].msg \in DOMAIN workload.bodies
<1>1. BrokerIs(workload, broker)
  BY BrokerHas
<1> QED BY <1>1, BrokerFields

\* Only the consumers change.
LEMMA BrokerTags ==
    ASSUME IInv, NEW tags \in SUBSET Calls, NEW b, b = [broker EXCEPT !.consumers = tags]
    PROVE  BrokerIs(workload, b) /\ b.delivered = broker.delivered
<1>1. b = BrokerOf(broker.phase, broker.channel, broker.ready, tags, broker.unacked,
                   broker.sent, broker.delivered, broker.settled)
  BY BrokerNow DEF BrokerOf
<1> QED BY <1>1, BrokerNow, BrokerMade

LEMMA BrokerClosesStep ==
    ASSUME IInv, ClientUnchanged, Reads, BrokerClosesChannel
    PROVE  IInv'
<1> DEFINE ready == broker.ready \cup MessagesOf(DOMAIN broker.unacked)
           b == BrokerOf("closing", broker.channel, ready, {}, <<>>, broker.sent,
                         broker.delivered, broker.settled)
<1>1. BrokerIs(workload, broker)
  BY BrokerHas
<1>2. broker' = b
  BY <1>1, BrokerNow DEF BrokerClosesChannel, BrokerOf
<1>3. ready \in SUBSET DOMAIN workload.bodies
  BY <1>1, BrokerNow DEF MessagesOf
<1>4. BrokerIs(workload, b) /\ b.delivered = broker.delivered
  <2>1. DOMAIN <<>> = {} /\ {} \in SUBSET Calls
    OBVIOUS
  <2> HIDE DEF ready
  <2> QED BY <1>1, <1>3, <2>1, BrokerNow, BrokerMade
<1>5. Sends(<<[type |-> "Channel.Close"]>>)
  BY DEF BrokerClosesChannel
<1> HIDE DEF b
<1> QED BY <1>2, <1>4, <1>5, PlainFrames, AnsweredQuietly

LEMMA BrokerSettlesStep ==
    ASSUME IInv, ClientUnchanged, Reads, NEW frame, BrokerSettles(frame)
    PROVE  IInv'
<1> DEFINE tags == {n \in DOMAIN broker.unacked :
                       n = frame.tag \/ (frame.multiple /\ n < frame.tag)}
           ready == IF frame.type # "ack" /\ frame.requeue
                    THEN broker.ready \cup MessagesOf(tags) ELSE broker.ready
           settled == broker.settled \cup {broker.unacked[n].id : n \in tags}
           unacked == Without(broker.unacked, tags)
           b == BrokerOf(broker.phase, broker.channel, ready, broker.consumers, unacked,
                         broker.sent, broker.delivered, settled)
<1>1. BrokerIs(workload, broker)
  BY BrokerHas
<1>2. CASE frame.tag \notin DOMAIN broker.unacked
  BY <1>2, BrokerClosesStep DEF BrokerSettles
<1>3. CASE frame.tag \in DOMAIN broker.unacked
  <2>1. /\ broker' = [broker EXCEPT !.unacked = unacked, !.settled = settled, !.ready = ready]
        /\ inbox' = inbox
    BY <1>3 DEF BrokerSettles
  <2>2. /\ \A n \in DOMAIN broker.unacked :
              /\ broker.unacked[n] \in Delivery /\ broker.unacked[n].id \in Nat \X Nat
              /\ broker.unacked[n].msg \in DOMAIN workload.bodies
        /\ DOMAIN broker.unacked \subseteq Nat
    BY <1>1, BrokerNow DEF Delivery
  <2>3. tags \subseteq DOMAIN broker.unacked
    OBVIOUS
  <2> HIDE DEF tags
  <2>4. ready \in SUBSET DOMAIN workload.bodies
    BY <1>1, <2>2, <2>3, BrokerNow DEF MessagesOf
  <2>5. settled \in SUBSET (Nat \X Nat)
    BY <1>1, <2>2, <2>3, BrokerNow
  <2>6. /\ DOMAIN unacked = DOMAIN broker.unacked \ tags
        /\ \A n \in DOMAIN unacked : unacked[n] = broker.unacked[n]
    BY DEF Without, Restrict
  <2> HIDE DEF ready, settled, unacked
  <2>7. broker' = b
    BY <1>1, <2>1, BrokerNow DEF BrokerOf
  <2>8. BrokerIs(workload, b) /\ b.delivered = broker.delivered
    <3>1. \A n \in DOMAIN unacked :
             unacked[n] \in Delivery /\ unacked[n].msg \in DOMAIN workload.bodies
      BY <2>2, <2>6
    <3>2. DOMAIN unacked \subseteq Nat
      BY <2>2, <2>6
    <3> QED BY <2>4, <2>5, <3>1, <3>2, BrokerNow, BrokerMade
  <2> HIDE DEF b
  <2> QED BY <2>1, <2>7, <2>8, AnsweredNothing
<1> QED BY <1>2, <1>3

LEMMA BrokerDeliversStep ==
    ASSUME IInv, ClientUnchanged, Reads, NEW type \in {"Deliver", "GetOk"}, NEW for \in Calls,
           BrokerDelivers(type, for)
    PROVE  IInv'
<1>1. /\ BrokerIs(workload, broker) /\ DOMAIN workload.bodies \subseteq Nat
      /\ \A d \in Delivery : d.msg \in DOMAIN workload.bodies => Size(workload, d) \in Nat
  BY BrokerHas
<1>2. PICK msg \in broker.ready :
        LET delivery == [id |-> <<broker.channel, broker.sent + 1>>, for |-> for,
                         get |-> type = "GetOk", msg |-> msg]
        IN  /\ Sends(<<[type |-> type, delivery |-> delivery],
                       [type |-> "Header", of |-> delivery]>> \o Bodies(delivery))
            /\ broker' = [broker EXCEPT !.ready = @ \ {msg}, !.sent = @ + 1,
                                        !.unacked = With(@, broker.sent + 1, delivery),
                                        !.delivered = @ \cup {delivery}]
  BY DEF BrokerDelivers
<1> DEFINE d == [id |-> <<broker.channel, broker.sent + 1>>, for |-> for,
                 get |-> type = "GetOk", msg |-> msg]
           more == FramesOf(workload, type, d)
           ready == broker.ready \ {msg}
           sent == broker.sent + 1
           unacked == With(broker.unacked, sent, d)
           delivered == broker.delivered \cup {d}
           b == BrokerOf(broker.phase, broker.channel, ready, broker.consumers, unacked,
                         sent, delivered, broker.settled)
<1>3. msg \in DOMAIN workload.bodies /\ msg \in Nat /\ sent \in Nat /\ broker.channel \in Nat
  BY <1>1, BrokerNow
<1>4. d \in Delivery /\ d.msg = msg
  <2>1. (type = "GetOk") \in BOOLEAN /\ <<broker.channel, sent>> \in Nat \X Nat
    BY <1>3
  <2> QED BY <1>3, <2>1 DEF Delivery
<1>5. Sends(more)
  BY <1>2 DEF FramesOf, HeaderOf, PartOf, Size, Bodies
<1>6. broker' = [broker EXCEPT !.ready = ready, !.sent = sent, !.unacked = unacked,
                               !.delivered = delivered]
  BY <1>2
<1> HIDE DEF d
<1>7. /\ more \in Seq(InFrame) /\ OrderedFrames(workload, more)
      /\ \A i \in DOMAIN more : more[i].type \notin {"ConsumeOk"}
      /\ \E i \in DOMAIN more : Begins(more[i]) /\ more[i].delivery = d
  <2>1. Size(workload, d) \in Nat
    BY <1>1, <1>3, <1>4
  <2> HIDE DEF more
  <2>2. more = FramesOf(workload, type, d)
    BY DEF more
  <2>3. type = "Deliver" \/ type = "GetOk"
    OBVIOUS
  <2>4. /\ more \in Seq(InFrame) /\ OrderedFrames(workload, more)
        /\ Bears(more, d) /\ ContentOf(more, d)
    BY <1>4, <2>1, <2>2, <2>3, FramesAre
  <2>5. \A i \in DOMAIN more : more[i].type \notin {"ConsumeOk"}
    BY <2>4 DEF ContentOf, Content
  <2> QED BY <2>4, <2>5 DEF Bears
<1>8. /\ DOMAIN unacked = DOMAIN broker.unacked \cup {sent} /\ unacked[sent] = d
      /\ \A n \in DOMAIN broker.unacked \ {sent} : unacked[n] = broker.unacked[n]
  BY DEF With
<1>9. delivered \in SUBSET {x \in Delivery : x.msg \in DOMAIN workload.bodies}
  BY <1>1, <1>3, <1>4, BrokerNow
<1>10. ready \in SUBSET DOMAIN workload.bodies
  BY <1>1, BrokerNow
<1> HIDE DEF more, ready, sent, unacked
<1>11. broker' = b
  <2> HIDE DEF delivered
  <2> QED BY <1>1, <1>6, BrokerNow DEF BrokerOf
<1>12. BrokerIs(workload, b) /\ b.delivered = delivered
  <2>1. DOMAIN unacked \subseteq Nat
    BY <1>1, <1>3, <1>8, BrokerNow
  <2>2. \A n \in DOMAIN unacked :
           unacked[n] \in Delivery /\ unacked[n].msg \in DOMAIN workload.bodies
    BY <1>1, <1>3, <1>4, <1>8, BrokerNow
  <2> HIDE DEF delivered
  <2> QED BY <1>1, <1>3, <1>9, <1>10, <2>1, <2>2, BrokerNow, BrokerMade
<1> HIDE DEF b
<1> QED BY <1>5, <1>7, <1>11, <1>12, SentQuietly

\* The broker's answer to basic_consume.
LEMMA BrokerConsumeStep ==
    ASSUME IInv, ClientUnchanged, outbox # <<>>, outbox' = Tail(outbox),
           Head(outbox).type \in ConsumeMethods,
           Sends(<<[type |-> "ConsumeOk", tag |-> Head(outbox).by]>>),
           broker' = [broker EXCEPT !.consumers = @ \cup {Head(outbox).by}]
    PROVE  IInv'
<1> DEFINE by == Head(outbox).by
           frame == [type |-> "ConsumeOk", tag |-> by]
           tags == broker.consumers \cup {by}
<1>1. BrokerIs(workload, broker) /\ inbox \in Seq(InFrame) /\ outbox \in Seq(OutFrame)
  BY BrokerHas, InvIs
<1>2. by \in Calls
  <2>1. Head(outbox) \in OutFrame
    BY <1>1, TailElements
  <2>2. ConsumeMethods \subseteq DOMAIN Request \ {"basic_cancel"}
    BY DEF ConsumeMethods, Request
  <2>3. \A m \in ConsumeMethods : m \notin DOMAIN SettledState
                                  /\ m \notin {"Channel.CloseOk", "Channel.Open"}
    BY DEF ConsumeMethods, SettledState
  <2> QED BY <2>1, <2>2, <2>3 DEF OutFrame
<1>3. frame \in InFrame /\ frame.type = "ConsumeOk"
  BY <1>2 DEF InFrame
<1>4. tags \in SUBSET Calls
  BY <1>1, <1>2, BrokerNow
<1>5. broker' = [broker EXCEPT !.consumers = tags]
  OBVIOUS
<1>6. Sends(<<frame>>)
  OBVIOUS
<1> HIDE DEF by, frame, tags
<1>8. BrokerIs(workload, broker') /\ broker'.delivered = broker.delivered
  BY <1>4, <1>5, BrokerTags
<1>9. <<frame>> \in Seq(InFrame) /\ OrderedFrames(workload, <<frame>>)
  BY <1>3, OneFrame DEF Content
<1>10. Count(inbox, {"ConsumeOk"}) \in Nat
       /\ Count(inbox', {"ConsumeOk"}) \in Nat
       /\ Count(inbox', {"ConsumeOk"}) <= Count(inbox, {"ConsumeOk"}) + 1
  <2>1. Count(inbox \o <<frame>>, {"ConsumeOk"}) = Count(inbox, {"ConsumeOk"}) + 1
    BY <1>1, <1>3, CountOneMore
  <2>2. Count(inbox, {"ConsumeOk"}) \in Nat
    BY <1>1, PositionsAreFinite
  <2> QED BY <1>6, <2>1, <2>2 DEF Sends
<1>11. /\ outbox' \in Seq(OutFrame)
       /\ Count(inbox', {"ConsumeOk"}) + Count(outbox', ConsumeMethods)
             <= Count(inbox, {"ConsumeOk"}) + Count(outbox, ConsumeMethods)
  BY <1>10, ReadsIs DEF Reads
<1> QED BY <1>6, <1>8, <1>9, <1>11, BrokerStep

LEMMA BrokerAnswersStep ==
    ASSUME IInv, ClientUnchanged, outbox # <<>>, outbox' = Tail(outbox),
           Head(outbox).type \in DOMAIN Request, BrokerAnswers(Head(outbox))
    PROVE  IInv'
<1> DEFINE frame == Head(outbox)
<1>1. BrokerIs(workload, broker) /\ Reads /\ frame \in OutFrame
  BY BrokerHas, InvIs, TailElements DEF Reads
<1>2. /\ frame.by \in Calls
      /\ frame.type = "basic_cancel" => frame.tag \in Calls
  <2>1. \A m \in DOMAIN Request : m \notin DOMAIN SettledState
                                  /\ m \notin {"Channel.CloseOk", "Channel.Open"}
    BY DEF SettledState, Request
  <2> QED BY <1>1, <2>1 DEF OutFrame
<1>3. CASE Consumes(frame.type)
  <2>1. /\ Sends(<<[type |-> "ConsumeOk", tag |-> frame.by]>>)
        /\ broker' = [broker EXCEPT !.consumers = @ \cup {frame.by}]
    BY <1>3 DEF BrokerAnswers, Consumes
  <2>2. frame.type \in ConsumeMethods
    BY <1>3 DEF Consumes, ConsumeMethods
  <2> QED BY <2>1, <2>2, BrokerConsumeStep
<1>4. CASE frame.type = "basic_cancel"
  <2> DEFINE answer == [type |-> "CancelOk", tag |-> frame.tag]
             tags == broker.consumers \ {frame.tag}
  <2>1. Sends(<<answer>>) /\ broker' = [broker EXCEPT !.consumers = tags]
    BY <1>4 DEF BrokerAnswers, Consumes
  <2>2. answer \in InFrame /\ answer.type \notin Content \cup {"ConsumeOk"}
    BY <1>2, <1>4 DEF InFrame, Content
  <2>3. tags \in SUBSET Calls
    BY <1>1, BrokerNow
  <2> HIDE DEF answer, tags
  <2>4. BrokerIs(workload, broker') /\ broker'.delivered = broker.delivered
    BY <2>1, <2>3, BrokerTags
  <2> QED BY <1>1, <2>1, <2>2, <2>4, AnsweredQuietly
<1>5. CASE frame.type = "basic_get"
  <2>1. CASE broker.ready = {} \/ broker.sent = MaxDeliveries
    <3>1. Sends(<<[type |-> "GetEmpty"]>>) /\ broker' = broker
      BY <1>5, <2>1 DEF BrokerAnswers, Consumes
    <3> QED BY <1>1, <3>1, PlainFrames, AnsweredQuietly
  <2>2. CASE ~ (broker.ready = {} \/ broker.sent = MaxDeliveries)
    <3>1. BrokerDelivers("GetOk", frame.by)
      BY <1>5, <2>2 DEF BrokerAnswers, Consumes
    <3> QED BY <1>1, <1>2, <3>1, BrokerDeliversStep
  <2> QED BY <2>1, <2>2
<1>6. CASE frame.type = "queue_declare"
  <2>1. Sends(<<[type |-> "DeclareOk"]>>) /\ broker' = broker
    BY <1>6 DEF BrokerAnswers, Consumes
  <2> QED BY <1>1, <2>1, PlainFrames, AnsweredQuietly
<1> QED BY <1>3, <1>4, <1>5, <1>6 DEF Request, Consumes

LEMMA BrokerReadsStep ==
    ASSUME IInv, ClientUnchanged, BrokerReads
    PROVE  IInv'
<1> DEFINE frame == Head(outbox)
           b == broker
<1>1. outbox # <<>> /\ outbox' = Tail(outbox) /\ Reads /\ BrokerIs(workload, broker)
  BY BrokerHas DEF BrokerReads, Reads
<1>2. frame.type \in DOMAIN Request => frame.type \notin DOMAIN SettledState
  BY DEF Request, SettledState
<1>3. CASE broker.phase = "open" /\ frame.type \in DOMAIN Request
  <2>1. BrokerAnswers(frame) \/ BrokerClosesChannel
    BY <1>2, <1>3 DEF BrokerReads
  <2> QED BY <1>1, <1>3, <2>1, BrokerAnswersStep, BrokerClosesStep
<1>4. CASE broker.phase = "open" /\ frame.type \in DOMAIN SettledState
  <2>1. BrokerSettles(frame)
    BY <1>2, <1>4 DEF BrokerReads
  <2> QED BY <1>1, <2>1, BrokerSettlesStep
<1>5. CASE broker.phase = "closing" /\ frame.type = "Channel.CloseOk"
  <2> DEFINE next == BrokerOf("closed", b.channel, b.ready, b.consumers, b.unacked, b.sent,
                              b.delivered, b.settled)
  <2>1. broker' = [broker EXCEPT !.phase = "closed"] /\ inbox' = inbox
    BY <1>5 DEF BrokerReads
  <2>2. broker' = next
    BY <1>1, <2>1, BrokerNow DEF BrokerOf
  <2>3. BrokerIs(workload, next) /\ next.delivered = broker.delivered
    BY <1>1, BrokerNow, BrokerMade
  <2> HIDE DEF next
  <2> QED BY <1>1, <2>1, <2>2, <2>3, AnsweredNothing
<1>6. CASE broker.phase = "closed" /\ frame.type = "Channel.Open"
  <2> DEFINE channel == b.channel + 1
             next == BrokerOf("open", channel, b.ready, b.consumers, b.unacked, 0,
                              b.delivered, b.settled)
  <2>1. /\ Sends(<<[type |-> "Channel.OpenOk"]>>)
        /\ broker' = [broker EXCEPT !.phase = "open", !.channel = channel, !.sent = 0]
    BY <1>6 DEF BrokerReads
  <2>2. channel \in Nat /\ 0 \in Nat
    BY <1>1, BrokerNow
  <2> HIDE DEF channel
  <2>3. broker' = next
    BY <1>1, <2>1, BrokerNow DEF BrokerOf
  <2>4. BrokerIs(workload, next) /\ next.delivered = broker.delivered
    BY <1>1, <2>2, BrokerNow, BrokerMade
  <2> HIDE DEF next
  <2> QED BY <1>1, <2>1, <2>3, <2>4, PlainFrames, AnsweredQuietly
<1>7. CASE broker.phase = "closed" /\ frame.type # "Channel.Open"
  <2> DEFINE next == BrokerOf("gone", b.channel, b.ready, b.consumers, b.unacked, b.sent,
                              b.delivered, b.settled)
  <2>1. /\ Sends(<<[type |-> "Disconnected"]>>)
        /\ broker' = [broker EXCEPT !.phase = "gone"]
    BY <1>7 DEF BrokerReads
  <2>2. broker' = next
    BY <1>1, <2>1, BrokerNow DEF BrokerOf
  <2>3. BrokerIs(workload, next) /\ next.delivered = broker.delivered
    BY <1>1, BrokerNow, BrokerMade
  <2> HIDE DEF next
  <2> QED BY <1>1, <2>1, <2>2, <2>3, PlainFrames, AnsweredQuietly
<1>8. CASE /\ ~ (broker.phase = "open" /\ frame.type \in DOMAIN Request)
           /\ ~ (broker.phase = "open" /\ frame.type \in DOMAIN SettledState)
           /\ ~ (broker.phase = "closing" /\ frame.type = "Channel.CloseOk")
           /\ ~ (broker.phase = "closed" /\ frame.type = "Channel.Open")
           /\ ~ (broker.phase = "closed" /\ frame.type # "Channel.Open")
  <2>1. broker' = broker /\ inbox' = inbox
    BY <1>8 DEF BrokerReads
  <2> QED BY <1>1, <2>1, AnsweredNothing
<1> QED BY <1>3, <1>4, <1>5, <1>6, <1>7, <1>8

LEMMA BrokerTurnStep ==
    ASSUME IInv, Broker
    PROVE  IInv'
<1>1. ClientUnchanged /\ BrokerIs(workload, broker)
  BY BrokerHas DEF Broker
<1>2. CASE BrokerReads
  BY <1>1, <1>2, BrokerReadsStep
<1>3. CASE BrokerDeliversToConsumer
  <2>1. PICK tag \in broker.consumers : BrokerDelivers("Deliver", tag)
    BY <1>3 DEF BrokerDeliversToConsumer
  <2>2. Reads /\ tag \in Calls
    BY <1>1, <1>3, BrokerNow DEF BrokerDeliversToConsumer, Reads
  <2> QED BY <1>1, <2>1, <2>2, BrokerDeliversStep
<1>4. CASE BrokerCancels
  <2>1. PICK tag \in broker.consumers :
           /\ Sends(<<[type |-> "Cancel"]>>)
           /\ broker' = [broker EXCEPT !.consumers = @ \ {tag}]
    BY <1>4 DEF BrokerCancels
  <2> DEFINE tags == broker.consumers \ {tag}
  <2>2. tags \in SUBSET Calls /\ Reads
    BY <1>1, <1>4, BrokerNow DEF BrokerCancels, Reads
  <2>3. broker' = [broker EXCEPT !.consumers = tags]
    BY <2>1
  <2> HIDE DEF tags
  <2>4. BrokerIs(workload, broker') /\ broker'.delivered = broker.delivered
    BY <2>2, <2>3, BrokerTags
  <2> QED BY <1>1, <2>1, <2>2, <2>4, PlainFrames, AnsweredQuietly
<1> QED BY <1>2, <1>3, <1>4 DEF Broker

---------------------------------------------------------------------------
(* The socket is lost *)

\* What has arrived by then is handled, and the loss after it.
LEMMA OrderCut ==
    ASSUME NEW w, NEW msg, NEW in \in Seq(InFrame), NEW open, InOrder(w, msg, in, open),
           open, NEW n \in 0..Len(in), NEW frame \in InFrame, frame.type = "Disconnected"
    PROVE  InOrder(w, msg, Append(SubSeq(in, 1, n), frame), FALSE)
<1> DEFINE some == SubSeq(in, 1, n)
           all == Append(some, frame)
<1>1. /\ n \in Nat /\ Len(in) \in Nat /\ n <= Len(in) /\ DOMAIN in = 1..Len(in)
      /\ some \in Seq(InFrame) /\ Len(some) = n /\ \A i \in 1..n : some[i] = in[i]
  OBVIOUS
<1> HIDE DEF some
<1>2. /\ Len(all) = n + 1 /\ DOMAIN all = 1..(n + 1) /\ all[n + 1] = frame
      /\ \A i \in 1..n : all[i] = in[i]
  BY <1>1
<1> HIDE DEF all
<1>3. \A i \in 1..n : Before(msg, all, i) = Before(msg, in, i)
  <2>1. \A i \in 1..n : i = 1 \/ i - 1 \in 1..n
    BY <1>1
  <2> QED BY <1>2, <2>1 DEF Before
<1>4. \A i \in 1..n : Follows(w, Before(msg, in, i), in[i])
  BY <1>1 DEF InOrder
<1>5. \A i \in 1..n : Follows(w, Before(msg, all, i), all[i])
  BY <1>2, <1>3, <1>4
<1>6. \A i \in 1..(n + 1) : i \in 1..n \/ i = n + 1
  BY <1>1
<1>7. InOrder(w, msg, all, FALSE)
  BY <1>2, <1>5, <1>6 DEF InOrder
<1> QED BY <1>7 DEF all, some

LEMMA SocketLostStep ==
    ASSUME IInv, SocketLost
    PROVE  IInv'
<1> DEFINE frame == [type |-> "Disconnected"]
<1>1. /\ session.transport = "open" /\ session' = [session EXCEPT !.transport = "lost"]
      /\ outbox' = <<>> /\ workload' = workload /\ manager' = manager /\ lock' = lock
      /\ task' = task /\ futures' = futures /\ consumers' = consumers
      /\ message' = message /\ app' = app /\ broker' = broker
  BY DEF SocketLost
<1>2. PICK n \in 0..Len(inbox) : inbox' = Append(SubSeq(inbox, 1, n), frame)
  BY DEF SocketLost
<1>3. /\ session' \in Sessions /\ session'.transport = "lost"
      /\ session'.failed = session.failed
  BY <1>1, InvIs DEF Sessions
<1>4. frame \in InFrame /\ frame.type = "Disconnected"
  BY PlainFrames
<1> HIDE DEF frame
<1>5. /\ inbox \in Seq(InFrame) /\ outbox \in Seq(OutFrame)
      /\ CallsFit(task, futures, inbox, outbox)
  BY InvIs
<1>6. /\ SubSeq(inbox, 1, n) \in Seq(InFrame)
      /\ inbox' = SubSeq(inbox, 1, n) \o <<frame>> /\ inbox' \in Seq(InFrame)
  <2>1. SubSeq(inbox, 1, n) \in Seq(InFrame)
    BY <1>5, PrefixElements
  <2> DEFINE some == SubSeq(inbox, 1, n)
  <2> HIDE DEF some
  <2>2. some \in Seq(InFrame)
    BY <2>1 DEF some
  <2>3. Append(some, frame) = some \o <<frame>> /\ Append(some, frame) \in Seq(InFrame)
    BY <1>4, <2>2
  <2> QED BY <1>2, <2>1, <2>3 DEF some
<1>7. outbox' \in Seq(OutFrame)
  BY <1>1
<1>8. CallsFit(task, futures, inbox', outbox')
  <2>1. Count(outbox', ConsumeMethods) = 0
    <3>1. Positions(outbox', ConsumeMethods) = {}
      BY <1>1 DEF Positions
    <3> QED BY <3>1, FS_EmptySet DEF Count
  <2>2. /\ Count(inbox', {"ConsumeOk"}) = Count(SubSeq(inbox, 1, n), {"ConsumeOk"})
        /\ Count(SubSeq(inbox, 1, n), {"ConsumeOk"}) <= Count(inbox, {"ConsumeOk"})
    <3>1. frame.type \notin {"ConsumeOk"}
      BY <1>4
    <3>2. Count(SubSeq(inbox, 1, n), {"ConsumeOk"}) <= Count(inbox, {"ConsumeOk"})
      BY <1>5, CountPrefix
    <3>3. Count(SubSeq(inbox, 1, n) \o <<frame>>, {"ConsumeOk"})
             = Count(SubSeq(inbox, 1, n), {"ConsumeOk"})
      <4> DEFINE some == SubSeq(inbox, 1, n)
      <4>1. some \in Seq(InFrame) /\ frame \in InFrame
        BY <1>4, <1>6
      <4> HIDE DEF some
      <4>2. Count(some \o <<frame>>, {"ConsumeOk"}) = Count(some, {"ConsumeOk"})
        BY <3>1, <4>1, CountOneMore
      <4> QED BY <4>2 DEF some
    <3> QED BY <1>6, <3>2, <3>3
  <2>3. /\ Count(inbox, {"ConsumeOk"}) \in Nat /\ Count(inbox', {"ConsumeOk"}) \in Nat
        /\ Count(outbox, ConsumeMethods) \in Nat
    BY <1>5, <1>6, PositionsAreFinite
  <2>4. Cardinality(Queueing(task)) \in Nat /\ Len(futures.pending) \in Nat
    <3>1. Cardinality(Queueing(task)) \in Nat
      BY <1>5, FS_CardinalityType DEF CallsFit, CallsOwn
    <3>2. futures.pending \in Seq(Awaiting)
      BY ConsumersAre, FutureIs
    <3> QED BY <3>1, <3>2
  <2>5. /\ CallsOwn(task, futures)
        /\ Count(inbox, {"ConsumeOk"}) + Count(outbox, ConsumeMethods)
              + Cardinality(Queueing(task)) <= Len(futures.pending)
    BY <1>5 DEF CallsFit
  <2>6. Count(inbox', {"ConsumeOk"}) + Count(outbox', ConsumeMethods)
              + Cardinality(Queueing(task)) <= Len(futures.pending)
    BY <2>1, <2>2, <2>3, <2>4, <2>5
  <2> QED BY <2>5, <2>6 DEF CallsFit
<1>9. ClientTyped'
  BY <1>1, <1>3 DEF IInv, ClientTyped, Managers
<1>10. BrokerTyped'
  BY <1>1, <1>6, <1>7 DEF IInv, BrokerTyped
<1>11. TasksOK' /\ AppTyped(app')
  BY <1>1, <1>8 DEF IInv, TasksOK
<1>12. Arrived' = Arrived
  BY <1>1 DEF Arrived
<1>13. ContentOK'
  <2>1. ASSUME ~ session.failed
        PROVE  InOrder(workload, message, inbox', FALSE)
    <3>1. InOrder(workload, message, inbox, session.transport = "open")
      BY <2>1 DEF IInv, ContentOK
    <3> QED BY <1>1, <1>2, <1>4, <1>5, <3>1, OrderCut
  <2>2. (session'.transport = "open") = FALSE
    BY <1>3
  <2> QED BY <1>1, <1>3, <1>12, <2>1, <2>2 DEF IInv, ContentOK
<1>14. NoneIsLost'
  BY <1>3 DEF NoneIsLost
<1> QED BY <1>9, <1>10, <1>11, <1>13, <1>14 DEF IInv

---------------------------------------------------------------------------
(* The beginning, and every step *)

LEMMA InitIsTyped ==
    ASSUME Init
    PROVE  ClientTyped /\ BrokerTyped /\ AppTyped(app)
<1>1. ClientTyped
  <2>1. manager \in Managers /\ manager.state = "CHANNEL_OPENOK_RECEIVED"
    <3>1. manager = [SM!NewManager EXCEPT !.state = "CHANNEL_OPENOK_RECEIVED"]
      BY DEF Init
    <3>2. manager = [state |-> "CHANNEL_OPENOK_RECEIVED", exception |-> None, waits |-> {},
                     ready |-> <<>>, fired |-> {}]
      BY <3>1 DEF SM!NewManager
    <3>3. "CHANNEL_OPENOK_RECEIVED" \in ClientState /\ {} \in Events /\ <<>> \in Seq(Events)
      BY StatesAre DEF Events
    <3> QED BY <3>2, <3>3, ManagersAre
  <2>2. session \in Sessions
    BY DEF Init, Sessions
  <2>3. manager.state \notin ContentStates
    BY <2>1 DEF ContentStates
  <2>4. message = None /\ consumers = <<>>
    BY DEF Init
  <2>5. DOMAIN consumers = {}
    BY <2>4
  <2> QED BY <2>1, <2>2, <2>3, <2>4, <2>5 DEF ClientTyped
<1>2. BrokerTyped
  <2>1. /\ workload \in Workloads /\ inbox = <<>> /\ outbox = <<>>
        /\ broker = BrokerOf("open", 1, DOMAIN workload.bodies, {}, <<>>, 0, {}, {})
    BY DEF Init, BrokerOf
  <2>2. DOMAIN <<>> = {} /\ 1 \in Nat /\ 0 \in Nat
    OBVIOUS
  <2>3. BrokerIs(workload, broker)
    BY <2>1, <2>2, BrokerMade
  <2> QED BY <2>1, <2>3 DEF BrokerTyped
<1>3. AppTyped(app)
  <2>1. app = AppOf({}, None, {}, {}, <<>>)
    BY DEF Init, AppOf
  <2>2. DOMAIN <<>> = {}
    OBVIOUS
  <2> QED BY <2>1, <2>2, AppMade
<1> QED BY <1>1, <1>2, <1>3

LEMMA InitFits ==
    ASSUME Init
    PROVE  TasksOK
<1>1. workload \in Workloads /\ workload.calls \in [Task -> Nat]
  <2>1. workload \in Workloads /\ IsWorkload(workload)
    BY ConsumersAssumption DEF Init
  <2>2. workload.calls \in [Task -> 0..MaxCalls]
    BY <2>1 DEF IsWorkload
  <2> QED BY <2>1, <2>2, ConsumersAssumption
<1>2. /\ task = [t \in Task |-> [pc |-> "idle", call |-> None, result |-> None,
                                 tag |-> None, left |-> workload.calls[t]]]
      /\ lock = <<>> /\ inbox = <<>> /\ outbox = <<>>
      /\ futures = [pending |-> <<>>, get |-> None, done |-> <<>>]
  BY DEF Init
<1>3. /\ task \in [Task -> Record] /\ \A t \in Task : task[t].pc = "idle"
  BY <1>1, <1>2 DEF Record, Pcs, Results
<1>4. DOMAIN <<>> = {} /\ Len(<<>>) = 0
  OBVIOUS
<1>5. LockFits(lock, task)
  <2>1. lock \in Seq(Task)
    BY <1>2
  <2> QED BY <1>2, <1>3, <1>4, <2>1 DEF LockFits
<1>6. FuturesTyped(futures)
  <2>1. <<>> \in Seq(Awaiting)
    OBVIOUS
  <2> QED BY <1>2, <1>4, <2>1 DEF FuturesTyped
<1>7. CallsOwn(task, futures)
  <2>1. \A t \in Task : RecordOK(task[t]) /\ ~ Active(task[t])
    BY <1>3 DEF RecordOK, Active
  <2>2. \A call \in Calls : /\ ~ IsPending(futures, call) /\ call \notin DOMAIN futures.done
                            /\ call # futures.get
    BY <1>2, <1>4, MessageIs DEF IsPending
  <2>3. FuturesOwn(task, futures)
    BY <1>2, <1>4, <2>1, <2>2 DEF FuturesOwn
  <2>4. Queueing(task) = {}
    BY <1>3 DEF Queueing, WillConsume
  <2> QED BY <1>3, <1>6, <2>1, <2>3, <2>4, FS_EmptySet DEF CallsOwn
<1>8. CallsFit(task, futures, inbox, outbox)
  <2>1. /\ Positions(inbox, {"ConsumeOk"}) = {} /\ Positions(outbox, ConsumeMethods) = {}
        /\ Queueing(task) = {}
    BY <1>2, <1>3, <1>4 DEF Positions, Queueing, WillConsume
  <2>2. Len(futures.pending) = 0
    BY <1>2, <1>4
  <2>3. Cardinality({}) = 0
    BY FS_EmptySet
  <2>4. /\ Count(inbox, {"ConsumeOk"}) = 0 /\ Count(outbox, ConsumeMethods) = 0
        /\ Cardinality(Queueing(task)) = 0
    BY <2>1, <2>3 DEF Count
  <2>5. Count(inbox, {"ConsumeOk"}) + Count(outbox, ConsumeMethods)
            + Cardinality(Queueing(task)) <= Len(futures.pending)
    BY <2>2, <2>4
  <2> QED BY <1>7, <2>5 DEF CallsFit
<1> QED BY <1>5, <1>8 DEF TasksOK

LEMMA InitIsInvariant ==
    ASSUME Init
    PROVE  IInv
<1>1. /\ message = None /\ inbox = <<>>
      /\ app = [held |-> {}, fresh |-> None, handed |-> {}, settled |-> {}, mailbox |-> <<>>]
      /\ futures = [pending |-> <<>>, get |-> None, done |-> <<>>]
      /\ broker.delivered = {}
  BY DEF Init
<1>2. DOMAIN <<>> = {} /\ Len(<<>>) = 0
  OBVIOUS
<1>3. Arrived = {}
  <2>1. app.handed = {} /\ DOMAIN app.mailbox = {} /\ DOMAIN futures.done = {}
    BY <1>1, <1>2
  <2> QED BY <2>1 DEF Arrived
<1>4. ContentOK
  <2>1. IsOwn(message)
    BY <1>1 DEF IsOwn
  <2>2. ~ Partial(workload, LastTaken(None))
    <3>1. LastTaken(None).type = "None"
      BY DEF LastTaken
    <3> QED BY <3>1 DEF Partial, Begins
  <2>3. InOrder(workload, message, inbox, session.transport = "open")
    <3>1. Before(message, inbox, Len(inbox) + 1) = LastTaken(None)
      BY <1>1, <1>2 DEF Before
    <3> QED BY <1>1, <1>2, <2>2, <3>1 DEF InOrder
  <2> QED BY <1>3, <2>1, <2>3 DEF ContentOK
<1>5. NoneIsLost
  BY <1>1 DEF NoneIsLost
<1> QED BY <1>4, <1>5, InitIsTyped, InitFits DEF IInv

LEMMA StepKeepsInvariant ==
    ASSUME IInv, [Next]_vars
    PROVE  IInv'
<1>1. CASE Application
  BY <1>1, ApplicationStep
<1>2. CASE RunReady /\ FramesUnchanged
  BY <1>2, RunReadyStep
<1>3. ASSUME NEW t \in Task, Proceeds(t)
      PROVE  IInv'
  BY <1>3, ProceedsStep
<1>4. CASE Receive
  BY <1>4, ReceiveStep
<1>5. CASE Broker
  BY <1>5, BrokerTurnStep
<1>6. CASE SocketLost
  BY <1>6, SocketLostStep
<1>7. CASE UNCHANGED vars
  <2>1. /\ workload' = workload /\ manager' = manager /\ lock' = lock /\ task' = task
        /\ futures' = futures /\ consumers' = consumers /\ message' = message
        /\ session' = session /\ app' = app /\ inbox' = inbox /\ outbox' = outbox
        /\ broker' = broker
    BY <1>7 DEF vars
  <2>2. ClientTyped' /\ BrokerTyped' /\ TasksOK' /\ AppTyped(app')
    BY <2>1 DEF IInv, ClientTyped, BrokerTyped, TasksOK, Managers
  <2>3. Arrived' = Arrived
    BY <2>1 DEF Arrived
  <2>4. ContentOK' /\ NoneIsLost'
    BY <2>1, <2>3 DEF IInv, ContentOK, NoneIsLost, NoneIsEmpty
  <2> QED BY <2>2, <2>4 DEF IInv
<1> QED BY <1>1, <1>2, <1>3, <1>4, <1>5, <1>6, <1>7 DEF Next

---------------------------------------------------------------------------
(* The theorems about calls and frames *)

\* The inductive invariant: the types of all variables, the futures of the calls, the
\* order of the frames of a message and what has become of it.  (Client)
THEOREM ConsumersInvariance == Spec => []IInv
BY InitIsInvariant, StepKeepsInvariant, PTL DEF Spec

LEMMA NoneBehindADone ==
    ASSUME IInv
    PROVE  {p.call : p \in Range(futures.pending)} \cap DOMAIN futures.done = {}
<1>1. /\ \A call \in Calls : IsPending(futures, call) => call \notin DOMAIN futures.done
      /\ futures.pending \in Seq(Awaiting)
  BY InvIs, FutureIs DEF CallsOwn, FuturesOwn
<1>2. \A i \in DOMAIN futures.pending : futures.pending[i].call \in Calls
  BY ConsumersAre, FutureIs
<1> QED BY <1>1, <1>2 DEF Range, IsPending

LEMMA InvariantTypes ==
    ASSUME IInv
    PROVE  TypeOK
<1>1. manager.state \in ClientState /\ manager.exception \in Error \cup {None}
  BY InvIs, ManagersAre
<1>2. IsInjective(lock) /\ Range(lock) \subseteq Task
  <2>1. lock \in Seq(Task) /\ \A i, j \in DOMAIN lock : lock[i] = lock[j] => i = j
    BY InvIs DEF LockFits
  <2>2. \A i \in DOMAIN lock : lock[i] \in Task
    BY <2>1
  <2> QED BY <2>1, <2>2 DEF IsInjective, Range
<1>3. ASSUME NEW t \in Task
      PROVE  /\ task[t].pc \in Pcs
             /\ task[t].pc = "waiting" => Head(lock) = t
             /\ task[t].pc \in {"queued", "waiting"} <=> t \in Range(lock)
  <2>1. task[t] \in Record
    BY InvIs
  <2>2. /\ task[t].pc = "waiting" => Head(lock) = t
        /\ task[t].pc \in {"queued", "waiting"} <=> \E i \in DOMAIN lock : lock[i] = t
    BY InvIs DEF LockFits
  <2> QED BY <2>1, <2>2 DEF Record, Range
<1>4. message # None => session.failed \/ message.bodies = <<>>
                        \/ message.header = message.delivery
  <2>1. ~ session.failed => IsOwn(message)
    BY DEF IInv, ContentOK
  <2> QED BY <2>1 DEF IsOwn
<1>5. {p.call : p \in Range(futures.pending)} \cap DOMAIN futures.done = {}
  BY NoneBehindADone
<1> QED BY <1>1, <1>2, <1>3, <1>4, <1>5 DEF TypeOK, Pcs

\* The lock, the calls and their futures agree, for any number of tasks and of calls;
\* and the message that is collected has its own header.  (_send_rpc, _on_frame)
THEOREM ConsumersTypeCorrect == Spec => []TypeOK
BY ConsumersInvariance, InvariantTypes, PTL

\* A message that has reached the application, the queue of a generator or a future
\* has its own header and all of its own body frames, in their order.
ArrivedWhole ==
    ~ session.failed =>
        \A msg \in Arrived \ {None} :
           msg.header = msg.delivery /\ msg.bodies = Bodies(msg.delivery)

LEMMA InvariantWhole ==
    ASSUME IInv
    PROVE  ArrivedWhole
<1>1. ~ session.failed => \A msg \in Arrived \ {None} : Whole(workload, msg)
  BY DEF IInv, ContentOK
<1> QED BY <1>1 DEF ArrivedWhole, Whole, Bodies, PartOf, Size

\* The frames of two messages are never mixed, whatever the broker sends between them
\* and whatever the application does.  (_on_frame, _pop_message)
THEOREM MessagesArriveWhole == Spec => []ArrivedWhole
BY ConsumersInvariance, InvariantWhole, PTL

LEMMA InvariantHands ==
    ASSUME IInv, NoneIsEmpty
    PROVE  DeliveredIsHanded
<1> SUFFICES ASSUME \A i \in DOMAIN inbox : inbox[i].type \notin Content,
                    ~ session.failed, session.transport = "open",
                    NEW delivery \in broker.delivered
             PROVE  \E msg \in Arrived \ {None} : msg.delivery = delivery
  BY DEF DeliveredIsHanded
<1>1. InFlight(workload, message, inbox, Arrived, delivery)
  BY DEF IInv, NoneIsLost
<1>2. ~ \E i \in DOMAIN inbox : Begins(inbox[i]) /\ inbox[i].delivery = delivery
  BY DEF Begins, Content
<1>3. ~ Partial(workload, LastTaken(message))
  <2>1. InOrder(workload, message, inbox, TRUE)
    BY DEF IInv, ContentOK
  <2>2. inbox \in Seq(InFrame)
    BY InvIs
  <2>3. CASE inbox = <<>>
    <3>1. Len(inbox) = 0
      BY <2>3
    <3>2. Before(message, inbox, Len(inbox) + 1) = LastTaken(message)
      BY <3>1 DEF Before
    <3> QED BY <2>1, <3>2 DEF InOrder
  <2>4. CASE inbox # <<>>
    <3>1. Head(inbox).type \notin Content
      BY <2>2, <2>4
    <3>2. Follows(workload, LastTaken(message), Head(inbox))
      BY <2>1, <2>2, <2>4, FirstFollows
    <3> QED BY <3>1, <3>2, QuietAbsorbs
  <2> QED BY <2>3, <2>4
<1> QED BY <1>1, <1>2, <1>3 DEF InFlight

\* A message that the broker has sent reaches the application once its frames are
\* taken, when no message is empty: one that is empty never arrives, as its header is
\* not followed by a body frame.  (_on_frame)
THEOREM DeliveredArrives == NoneIsEmpty => (Spec => []DeliveredIsHanded)
<1> SUFFICES ASSUME NoneIsEmpty
             PROVE  Spec => []DeliveredIsHanded
  OBVIOUS
<1>1. IInv => DeliveredIsHanded
  BY InvariantHands
<1> QED BY <1>1, ConsumersInvariance, PTL

---------------------------------------------------------------------------
(* Whose message it is, on the first channel *)

\* The calls in a sequence of calls and None, and those before position i.
CallsIn(s) == {s[i] : i \in DOMAIN s} \ {None}
CallsBefore(s, i) == {s[j] : j \in {x \in DOMAIN s : x < i}} \ {None}
PendingBefore(p, n) == {p[q].call : q \in {x \in DOMAIN p : x < n}}

\* The calls of s come in the order in which their futures are pending, none is left
\* out, and before the first of them come those in ahead.
InLine(p, ahead, s) ==
    \A i \in DOMAIN s : s[i] # None =>
        \E n \in DOMAIN p : /\ p[n].call = s[i]
                            /\ PendingBefore(p, n) = ahead \cup CallsBefore(s, i)

\* The consumes that are granted, asked for, and queued for the lock.
Granted(in) == [i \in DOMAIN in |-> IF in[i].type = "ConsumeOk" THEN in[i].tag ELSE None]
Asked(out) == [i \in DOMAIN out |-> IF out[i].type \in ConsumeMethods THEN out[i].by ELSE None]
InQueue(l, k) == [i \in DOMAIN l |-> IF WillConsume(k[l[i]]) THEN <<l[i], k[l[i]].left>>
                                     ELSE None]

GrantedInLine(f, in) == InLine(f.pending, {}, Granted(in))
AskedInLine(f, in, out) == InLine(f.pending, CallsIn(Granted(in)), Asked(out))
QueuedInLine(f, in, out, l, k) ==
    LET ahead == CallsIn(Granted(in)) \cup CallsIn(Asked(out)) IN
    /\ InLine(f.pending, ahead, InQueue(l, k))
    /\ {f.pending[n].call : n \in DOMAIN f.pending} = ahead \cup CallsIn(InQueue(l, k))

Closed(m) == m.state \in ClosedClientStates

\* The futures are pending in the order of the answers to come: those that are on
\* the socket, those that an open broker will send, and those a client that is not
\* closed will ask for.
LinesWith(f, l, k, m, out) ==
    broker.channel = 1 =>
        /\ GrantedInLine(f, inbox)
        /\ broker.phase = "open" /\ session.transport = "open" =>
              /\ AskedInLine(f, inbox, out)
              /\ ~ Closed(m) => QueuedInLine(f, inbox, out, l, k)

ConsumesInLine == LinesWith(futures, lock, task, manager, outbox)

\* Whether a message of the first channel, for a consumer, is at its addressee.
Meant(msg, to) == ~ msg.delivery.get /\ msg.delivery.id[1] = 1 => to = msg.delivery.for

\* Nothing of the first channel is under way to the client.
NoneOfFirst(msg, in) ==
    /\ \A i \in DOMAIN in : Begins(in[i]) => in[i].delivery.id[1] # 1
    /\ msg # None /\ Partial(workload, LastTaken(msg)) => msg.delivery.id[1] # 1

\* Frames on their way when the broker closes the first channel arrive before that.
FirstCloses ==
    broker.channel = 1 /\ session.transport = "open" =>
        /\ broker.phase = "open" => /\ ~ Carries(inbox, "Channel.Close")
                                    /\ ~ Carries(outbox, "Channel.CloseOk")
        /\ broker.phase = "closing" =>
              \/ inbox = <<>>
              \/ /\ \A i \in DOMAIN inbox : inbox[i].type = "Channel.Close" => i = Len(inbox)
                 /\ ~ Carries(outbox, "Channel.CloseOk")
        /\ broker.phase = "closed" => inbox = <<>>

GetsAreGets(d) ==
    \A call \in DOMAIN d : DOMAIN d[call] = {"message"} /\ d[call].message # None
                              => d[call].message.delivery.get

\* What the application a was given, or will find in the queue of a generator.
AllMeant(a) ==
    /\ \A h \in a.handed : Meant(h.message, h.to)
    /\ \A call \in DOMAIN a.mailbox :
          \A i \in DOMAIN a.mailbox[call] : Meant(a.mailbox[call][i], call)

OwnCallbacks == broker.channel = 1 => \A tag \in DOMAIN consumers : consumers[tag].call = tag

FirstIsOver == broker.channel # 1 => NoneOfFirst(message, inbox)

FirstInv ==
    ~ session.failed =>
        /\ session.transport = "open" \/ outbox = <<>>
        /\ broker.channel # 0
        /\ AllMeant(app) /\ GetsAreGets(futures.done)
        /\ OwnCallbacks /\ FirstIsOver /\ FirstCloses /\ ConsumesInLine

LEMMA TailLine ==
    ASSUME NEW S, NEW s \in Seq(S), s # <<>>
    PROVE  /\ CallsIn(Tail(s)) \subseteq CallsIn(s)
           /\ CallsIn(s) = CallsIn(Tail(s)) \cup ({s[1]} \ {None})
           /\ \A i \in DOMAIN Tail(s) :
                 CallsBefore(s, i + 1) = CallsBefore(Tail(s), i) \cup ({s[1]} \ {None})
           /\ CallsBefore(s, 1) = {}
<1>1. /\ 1 \in DOMAIN s
      /\ \A i \in DOMAIN Tail(s) : i + 1 \in DOMAIN s /\ Tail(s)[i] = s[i + 1]
      /\ \A i \in DOMAIN s : i = 1 \/ i - 1 \in DOMAIN Tail(s)
      /\ DOMAIN s \subseteq Nat /\ DOMAIN Tail(s) \subseteq Nat
      /\ \A i \in DOMAIN s : i >= 1
  <2>1. \A i \in DOMAIN s : i >= 1
    OBVIOUS
  <2> QED BY <2>1, TailIs
<1>2. \A i \in DOMAIN s : i # 1 => Tail(s)[i - 1] = s[i]
  BY <1>1
<1> DEFINE t == Tail(s)
<1>3. \A i \in DOMAIN t : t[i] = s[i + 1]
  BY <1>1
<1> HIDE DEF t
<1>4. CallsIn(s) = CallsIn(t) \cup ({s[1]} \ {None})
  <2>1. ASSUME NEW c \in CallsIn(s)
        PROVE  c \in CallsIn(t) \cup ({s[1]} \ {None})
    <3>1. PICK i \in DOMAIN s : s[i] = c
      BY DEF CallsIn
    <3>2. CASE i = 1
      BY <3>1, <3>2 DEF CallsIn
    <3>3. CASE i # 1
      <4>1. i - 1 \in DOMAIN t /\ t[i - 1] = c
        BY <1>1, <1>2, <3>1, <3>3 DEF t
      <4> QED BY <4>1 DEF CallsIn
    <3> QED BY <3>2, <3>3
  <2>2. ASSUME NEW c \in CallsIn(t)
        PROVE  c \in CallsIn(s)
    BY <1>1, <1>3 DEF CallsIn, t
  <2>3. {s[1]} \ {None} \subseteq CallsIn(s)
    BY <1>1 DEF CallsIn
  <2> QED BY <2>1, <2>2, <2>3
<1>5. ASSUME NEW i \in DOMAIN t
      PROVE  CallsBefore(s, i + 1) = CallsBefore(t, i) \cup ({s[1]} \ {None})
  <2>1. ASSUME NEW c \in CallsBefore(s, i + 1)
        PROVE  c \in CallsBefore(t, i) \cup ({s[1]} \ {None})
    <3>1. PICK j \in DOMAIN s : s[j] = c /\ j < i + 1
      BY DEF CallsBefore
    <3>2. CASE j = 1
      BY <3>1, <3>2 DEF CallsBefore
    <3>3. CASE j # 1
      <4>1. j - 1 \in DOMAIN t /\ t[j - 1] = c /\ j - 1 < i
        BY <1>1, <1>2, <3>1, <3>3 DEF t
      <4> QED BY <4>1 DEF CallsBefore
    <3> QED BY <3>2, <3>3
  <2>2. ASSUME NEW c \in CallsBefore(t, i)
        PROVE  c \in CallsBefore(s, i + 1)
    <3>1. PICK j \in DOMAIN t : t[j] = c /\ j < i
      BY DEF CallsBefore
    <3>2. j + 1 \in DOMAIN s /\ s[j + 1] = c /\ j + 1 < i + 1
      BY <1>1, <1>3, <3>1 DEF t
    <3> QED BY <3>2 DEF CallsBefore
  <2>3. {s[1]} \ {None} \subseteq CallsBefore(s, i + 1)
    <3>1. 1 < i + 1
      BY <1>1 DEF t
    <3> QED BY <1>1, <3>1 DEF CallsBefore
  <2> QED BY <2>1, <2>2, <2>3 DEF CallsBefore
<1>6. CallsBefore(s, 1) = {}
  BY <1>1 DEF CallsBefore
<1>7. /\ \A i \in DOMAIN t :
            CallsBefore(s, i + 1) = CallsBefore(t, i) \cup ({s[1]} \ {None})
      /\ CallsIn(t) \subseteq CallsIn(s)
  BY <1>4, <1>5
<1> QED BY <1>4, <1>6, <1>7 DEF t

\* The first of the line goes ahead.
LEMMA LineAdvances ==
    ASSUME NEW p, NEW ahead, NEW S, NEW s \in Seq(S), s # <<>>, InLine(p, ahead, s)
    PROVE  InLine(p, ahead \cup ({s[1]} \ {None}), Tail(s))
<1> DEFINE t == Tail(s)
           more == ahead \cup ({s[1]} \ {None})
<1>1. SUFFICES ASSUME NEW i \in DOMAIN t, t[i] # None
               PROVE  \E n \in DOMAIN p :
                         p[n].call = t[i] /\ PendingBefore(p, n) = more \cup CallsBefore(t, i)
  BY DEF InLine
<1>2. /\ i + 1 \in DOMAIN s /\ t[i] = s[i + 1]
      /\ CallsBefore(s, i + 1) = CallsBefore(t, i) \cup ({s[1]} \ {None})
  BY TailIs, TailLine
<1>3. PICK n \in DOMAIN p : /\ p[n].call = s[i + 1]
                            /\ PendingBefore(p, n) = ahead \cup CallsBefore(s, i + 1)
  BY <1>1, <1>2 DEF InLine
<1>4. ahead \cup CallsBefore(s, i + 1) = more \cup CallsBefore(t, i)
  BY <1>2
<1> QED BY <1>2, <1>3, <1>4

\* Another joins the end of the line.
LEMMA LineJoined ==
    ASSUME NEW p, NEW ahead, NEW S, NEW s \in Seq(S), NEW c \in S, InLine(p, ahead, s),
           c # None => \E n \in DOMAIN p :
                          p[n].call = c /\ PendingBefore(p, n) = ahead \cup CallsIn(s)
    PROVE  /\ InLine(p, ahead, Append(s, c))
           /\ CallsIn(Append(s, c)) = CallsIn(s) \cup ({c} \ {None})
<1> DEFINE t == Append(s, c)
           end == Len(s) + 1
<1>1. /\ end \in DOMAIN t /\ t[end] = c
      /\ \A i \in DOMAIN t : i = end \/ (i < end /\ i \in DOMAIN s)
      /\ \A i \in DOMAIN s : i \in DOMAIN t /\ t[i] = s[i] /\ i < end
      /\ DOMAIN s \subseteq Nat /\ end \in Nat
  OBVIOUS
<1> HIDE DEF t, end
<1>2. CallsIn(t) = CallsIn(s) \cup ({c} \ {None})
  BY <1>1 DEF CallsIn
<1>3. CallsBefore(t, end) = CallsIn(s)
  BY <1>1 DEF CallsIn, CallsBefore
<1>4. ASSUME NEW i \in DOMAIN s
      PROVE  CallsBefore(t, i) = CallsBefore(s, i)
  <2>1. \A j \in DOMAIN t : j < i => j \in DOMAIN s /\ t[j] = s[j]
    BY <1>1
  <2> QED BY <1>1, <2>1 DEF CallsBefore
<1>5. InLine(p, ahead, t)
  <2>1. SUFFICES ASSUME NEW i \in DOMAIN t, t[i] # None
                 PROVE  \E n \in DOMAIN p : /\ p[n].call = t[i]
                                            /\ PendingBefore(p, n) = ahead \cup CallsBefore(t, i)
    BY DEF InLine
  <2>2. CASE i = end
    BY <1>1, <1>3, <2>1, <2>2
  <2>3. CASE i \in DOMAIN s
    BY <1>1, <1>4, <2>1, <2>3 DEF InLine
  <2> QED BY <1>1, <2>2, <2>3
<1> QED BY <1>2, <1>5 DEF t

LEMMA LineCut ==
    ASSUME NEW p, NEW ahead, NEW S, NEW s \in Seq(S), NEW n \in 0..Len(s), InLine(p, ahead, s)
    PROVE  InLine(p, ahead, SubSeq(s, 1, n))
<1> DEFINE t == SubSeq(s, 1, n)
<1>1. /\ DOMAIN t = 1..n /\ DOMAIN s = 1..Len(s) /\ Len(s) \in Nat /\ n \in Nat
      /\ \A i \in 1..n : t[i] = s[i] /\ i \in 1..Len(s)
  OBVIOUS
<1> HIDE DEF t
<1>2. ASSUME NEW i \in DOMAIN t
      PROVE  t[i] = s[i] /\ CallsBefore(t, i) = CallsBefore(s, i) /\ i \in DOMAIN s
  <2>1. \A j \in DOMAIN s : j < i => j \in DOMAIN t
    BY <1>1
  <2>2. \A j \in DOMAIN t : j \in DOMAIN s /\ t[j] = s[j]
    BY <1>1
  <2> QED BY <2>1, <2>2 DEF CallsBefore
<1>3. InLine(p, ahead, t)
  BY <1>2 DEF InLine
<1> QED BY <1>3 DEF t

\* More futures are pending.
LEMMA LineStays ==
    ASSUME NEW p, NEW q, NEW ahead, NEW s, InLine(p, ahead, s),
           \A n \in DOMAIN p : n \in DOMAIN q /\ q[n] = p[n],
           \A n \in DOMAIN q : n \in DOMAIN p \/ \A m \in DOMAIN p : m < n,
           DOMAIN p \subseteq Nat, DOMAIN q \subseteq Nat
    PROVE  InLine(q, ahead, s)
<1>1. ASSUME NEW n \in DOMAIN p
      PROVE  PendingBefore(q, n) = PendingBefore(p, n)
  <2>1. \A m \in DOMAIN q : m < n => m \in DOMAIN p
    BY SMT
  <2> QED BY <2>1 DEF PendingBefore
<1> QED BY <1>1 DEF InLine

Distinct(p) == \A n, m \in DOMAIN p : p[n].call = p[m].call => n = m

\* The first of the line is served: it is the first that is pending.
LEMMA FirstInLine ==
    ASSUME NEW P, NEW p \in Seq(P), NEW S, NEW s \in Seq(S), s # <<>>, s[1] # None,
           InLine(p, {}, s)
    PROVE  p # <<>> /\ Head(p) = p[1] /\ p[1].call = s[1]
<1>1. 1 \in DOMAIN s /\ CallsBefore(s, 1) = {}
  BY TailIs, TailLine
<1>2. PICK n \in DOMAIN p : p[n].call = s[1] /\ PendingBefore(p, n) = {}
  BY <1>1 DEF InLine
<1>3. n \in Nat /\ n >= 1 /\ DOMAIN p = 1..Len(p) /\ Len(p) \in Nat
  OBVIOUS
<1>4. n = 1
  <2>1. CASE n > 1
    <3>1. 1 \in DOMAIN p
      BY <1>3, <2>1
    <3>2. p[1].call \in PendingBefore(p, n)
      BY <2>1, <3>1 DEF PendingBefore
    <3> QED BY <1>2, <3>2
  <2> QED BY <1>3, <2>1
<1> QED BY <1>2, <1>3, <1>4

\* The future of the first is done, and that of the others wait one place nearer.
LEMMA LineServed ==
    ASSUME NEW P, NEW p \in Seq(P), p # <<>>, Distinct(p), NEW ahead, NEW s,
           InLine(p, ahead, s), p[1].call \in ahead
    PROVE  /\ InLine(Tail(p), ahead \ {p[1].call}, s)
           /\ p[1].call \notin CallsIn(s)
<1> DEFINE q == Tail(p)
           c == p[1].call
<1>1. /\ 1 \in DOMAIN p /\ DOMAIN p \subseteq Nat /\ DOMAIN q \subseteq Nat
      /\ \A i \in DOMAIN q : i + 1 \in DOMAIN p /\ q[i] = p[i + 1]
      /\ \A i \in DOMAIN p : i = 1 \/ i - 1 \in DOMAIN q
      /\ \A i \in DOMAIN p : i >= 1
      /\ \A i \in DOMAIN q : i >= 1
  <2>1. \A i \in DOMAIN p : i >= 1
    OBVIOUS
  <2>2. \A i \in DOMAIN q : i >= 1
    OBVIOUS
  <2> QED BY <2>1, <2>2, TailIs
<1> HIDE DEF q
<1>2. ASSUME NEW i \in DOMAIN s, s[i] # None
      PROVE  /\ s[i] # c
             /\ \E n \in DOMAIN p : /\ n > 1 /\ p[n].call = s[i]
                                    /\ PendingBefore(p, n) = ahead \cup CallsBefore(s, i)
  <2>1. PICK n \in DOMAIN p : /\ p[n].call = s[i]
                              /\ PendingBefore(p, n) = ahead \cup CallsBefore(s, i)
    BY <1>2 DEF InLine
  <2>2. c \in PendingBefore(p, n)
    BY <2>1
  <2>3. PICK m \in DOMAIN p : m < n /\ p[m].call = c
    BY <2>2 DEF PendingBefore
  <2>4. n > 1 /\ n # 1
    BY <1>1, <2>3
  <2>5. p[n].call # c
    BY <1>1, <2>4 DEF Distinct
  <2> QED BY <2>1, <2>4, <2>5
<1>3. c \notin CallsIn(s)
  BY <1>2 DEF CallsIn
<1>4. ASSUME NEW i \in DOMAIN s, s[i] # None
      PROVE  \E n \in DOMAIN q : /\ q[n].call = s[i]
                                 /\ PendingBefore(q, n) = (ahead \ {c}) \cup CallsBefore(s, i)
  <2>1. PICK n \in DOMAIN p : /\ n > 1 /\ p[n].call = s[i]
                              /\ PendingBefore(p, n) = ahead \cup CallsBefore(s, i)
    BY <1>2, <1>4
  <2>2. n - 1 \in DOMAIN q /\ q[n - 1] = p[n] /\ n \in Nat
    <3>1. n - 1 \in DOMAIN q /\ n \in Nat
      BY <1>1, <2>1
    <3>2. q[n - 1] = p[(n - 1) + 1]
      BY <1>1, <3>1
    <3>3. (n - 1) + 1 = n
      BY <3>1
    <3> QED BY <3>1, <3>2, <3>3
  <2>3. PendingBefore(q, n - 1) = PendingBefore(p, n) \ {c}
    <3>1. ASSUME NEW x \in PendingBefore(q, n - 1)
          PROVE  x \in PendingBefore(p, n) \ {c}
      <4>1. PICK j \in DOMAIN q : j < n - 1 /\ q[j].call = x
        BY DEF PendingBefore
      <4>2. j + 1 \in DOMAIN p /\ p[j + 1].call = x
        BY <1>1, <4>1
      <4>3. j + 1 < n /\ j + 1 # 1
        <5>1. j \in Nat /\ j >= 1
          BY <1>1
        <5> QED BY <2>2, <4>1, <5>1
      <4>4. x # c
        BY <1>1, <4>2, <4>3 DEF Distinct
      <4> QED BY <4>2, <4>3, <4>4 DEF PendingBefore
    <3>2. ASSUME NEW x \in PendingBefore(p, n) \ {c}
          PROVE  x \in PendingBefore(q, n - 1)
      <4>1. PICK j \in DOMAIN p : j < n /\ p[j].call = x
        BY DEF PendingBefore
      <4>2. j # 1
        BY <4>1
      <4>3. j - 1 \in DOMAIN q /\ j \in Nat
        BY <1>1, <4>2
      <4>4. q[j - 1] = p[(j - 1) + 1]
        BY <1>1, <4>3
      <4>5. (j - 1) + 1 = j /\ j - 1 < n - 1
        BY <2>2, <4>1, <4>3
      <4>6. q[j - 1].call = x
        BY <4>1, <4>4, <4>5
      <4> QED BY <4>3, <4>5, <4>6 DEF PendingBefore
    <3> QED BY <3>1, <3>2
  <2>4. c \notin CallsBefore(s, i)
    BY <1>3 DEF CallsIn, CallsBefore
  <2>5. PendingBefore(q, n - 1) = (ahead \ {c}) \cup CallsBefore(s, i)
    BY <2>1, <2>3, <2>4
  <2> QED BY <2>1, <2>2, <2>5
<1>5. InLine(q, ahead \ {c}, s)
  BY <1>4 DEF InLine
<1> QED BY <1>3, <1>5 DEF q

\* The first of the line is gone, and its place is kept.
LEMMA LineGiven ==
    ASSUME NEW p, NEW ahead, NEW S, NEW s \in Seq(S), s # <<>>, InLine(p, ahead, s),
           NEW n, n = [s EXCEPT ![1] = None]
    PROVE  /\ InLine(p, ahead \cup ({s[1]} \ {None}), n)
           /\ CallsIn(s) = CallsIn(n) \cup ({s[1]} \ {None})
<1>0. /\ DOMAIN n = DOMAIN s /\ n[1] = None
      /\ \A i \in DOMAIN s : i # 1 => n[i] = s[i]
  BY TailIs
<1>1. 1 \in DOMAIN s /\ DOMAIN s \subseteq Nat /\ \A i \in DOMAIN s : i = 1 \/ 1 < i
  <2>1. \A i \in DOMAIN s : i = 1 \/ 1 < i
    OBVIOUS
  <2> QED BY <2>1, TailIs
<1>2. CallsIn(s) = CallsIn(n) \cup ({s[1]} \ {None})
  <2>1. CallsIn(s) \subseteq CallsIn(n) \cup ({s[1]} \ {None})
    BY <1>0, <1>1 DEF CallsIn
  <2>2. CallsIn(n) \subseteq CallsIn(s)
    BY <1>0, <1>1 DEF CallsIn
  <2>3. {s[1]} \ {None} \subseteq CallsIn(s)
    BY <1>0, <1>1 DEF CallsIn
  <2> QED BY <2>1, <2>2, <2>3
<1>3. ASSUME NEW i \in DOMAIN s, i # 1
      PROVE  CallsBefore(s, i) = CallsBefore(n, i) \cup ({s[1]} \ {None})
  <2>1. 1 < i
    BY <1>1, <1>3
  <2>2. CallsBefore(s, i) \subseteq CallsBefore(n, i) \cup ({s[1]} \ {None})
    BY <1>0, <1>1, <2>1 DEF CallsBefore
  <2>3. CallsBefore(n, i) \subseteq CallsBefore(s, i)
    BY <1>0, <1>1, <2>1 DEF CallsBefore
  <2>4. {s[1]} \ {None} \subseteq CallsBefore(s, i)
    BY <1>0, <1>1, <2>1 DEF CallsBefore
  <2> QED BY <2>2, <2>3, <2>4
<1>4. InLine(p, ahead \cup ({s[1]} \ {None}), n)
  <2>1. SUFFICES ASSUME NEW i \in DOMAIN n, n[i] # None
                 PROVE  \E q \in DOMAIN p :
                           /\ p[q].call = n[i]
                           /\ PendingBefore(p, q) = (ahead \cup ({s[1]} \ {None}))
                                                       \cup CallsBefore(n, i)
    BY DEF InLine
  <2>2. i \in DOMAIN s /\ i # 1 /\ n[i] = s[i]
    BY <1>0, <2>1
  <2>3. PICK q \in DOMAIN p : /\ p[q].call = s[i]
                              /\ PendingBefore(p, q) = ahead \cup CallsBefore(s, i)
    BY <2>1, <2>2 DEF InLine
  <2>4. ahead \cup CallsBefore(s, i) = (ahead \cup ({s[1]} \ {None})) \cup CallsBefore(n, i)
    BY <1>3, <2>2
  <2> QED BY <2>2, <2>3, <2>4
<1> QED BY <1>2, <1>4

\* Nothing but None follows.
LEMMA LineExtended ==
    ASSUME NEW p, NEW ahead, NEW S, NEW s \in Seq(S), InLine(p, ahead, s),
           NEW n, DOMAIN s \subseteq DOMAIN n, \A i \in DOMAIN s : n[i] = s[i],
           \A i \in DOMAIN n \ DOMAIN s : n[i] = None /\ \A j \in DOMAIN s : j < i
    PROVE  InLine(p, ahead, n) /\ CallsIn(n) = CallsIn(s)
<1>1. CallsIn(n) = CallsIn(s)
  BY DEF CallsIn
<1>2. ASSUME NEW i \in DOMAIN s
      PROVE  CallsBefore(n, i) = CallsBefore(s, i)
  BY DEF CallsBefore
<1>3. InLine(p, ahead, n)
  BY <1>2 DEF InLine
<1> QED BY <1>1, <1>3

---------------------------------------------------------------------------
(* What the frames grant and ask *)

GrantedOf(frame) == IF frame.type = "ConsumeOk" THEN frame.tag ELSE None
AskedOf(frame) == IF frame.type \in ConsumeMethods THEN frame.by ELSE None

LEMMA GrantedIs ==
    ASSUME NEW in \in Seq(InFrame)
    PROVE  /\ Granted(in) \in Seq(Calls \cup {None})
           /\ DOMAIN Granted(in) = DOMAIN in /\ Len(Granted(in)) = Len(in)
           /\ \A i \in DOMAIN in : Granted(in)[i] = GrantedOf(in[i])
<1> DEFINE s == Granted(in)
<1>1. \A i \in 1..Len(in) : s[i] = GrantedOf(in[i]) /\ s[i] \in Calls \cup {None}
  <2>1. \A g \in InFrame : GrantedOf(g) \in Calls \cup {None}
    BY DEF GrantedOf, InFrame, BodyFrame
  <2>2. \A i \in 1..Len(in) : s[i] = GrantedOf(in[i])
    BY DEF Granted, GrantedOf
  <2> QED BY <2>1, <2>2
<1>2. s = [i \in 1..Len(in) |-> s[i]] /\ Len(in) \in Nat
  BY DEF Granted
<1> HIDE DEF s
<1>3. s \in Seq(Calls \cup {None}) /\ Len(s) = Len(in) /\ DOMAIN s = 1..Len(in)
  BY <1>1, <1>2
<1> QED BY <1>1, <1>3 DEF s

LEMMA AskedIs ==
    ASSUME NEW out \in Seq(OutFrame)
    PROVE  /\ Asked(out) \in Seq(Calls \cup {None})
           /\ DOMAIN Asked(out) = DOMAIN out /\ Len(Asked(out)) = Len(out)
           /\ \A i \in DOMAIN out : Asked(out)[i] = AskedOf(out[i])
<1> DEFINE s == Asked(out)
<1>1. \A i \in 1..Len(out) : s[i] = AskedOf(out[i]) /\ s[i] \in Calls \cup {None}
  <2>1. \A g \in OutFrame : AskedOf(g) \in Calls \cup {None}
    BY DEF AskedOf, OutFrame, ConsumeMethods, Request, SettledState
  <2>2. \A i \in 1..Len(out) : s[i] = AskedOf(out[i])
    BY DEF Asked, AskedOf
  <2> QED BY <2>1, <2>2
<1>2. s = [i \in 1..Len(out) |-> s[i]] /\ Len(out) \in Nat
  BY DEF Asked
<1> HIDE DEF s
<1>3. s \in Seq(Calls \cup {None}) /\ Len(s) = Len(out) /\ DOMAIN s = 1..Len(out)
  BY <1>1, <1>2
<1> QED BY <1>1, <1>3 DEF s

LEMMA EmptyIs ==
    ASSUME NEW S, NEW s \in Seq(S)
    PROVE  s # <<>> <=> Len(s) > 0
OBVIOUS

LEMMA GrantedTail ==
    ASSUME NEW in \in Seq(InFrame), in # <<>>
    PROVE  /\ Granted(Tail(in)) = Tail(Granted(in)) /\ Granted(in) # <<>>
           /\ Granted(in)[1] = GrantedOf(Head(in))
<1> DEFINE s == Granted(in)
           n == Granted(Tail(in))
           C == Calls \cup {None}
<1>1. /\ s \in Seq(C) /\ Len(s) = Len(in) /\ \A i \in DOMAIN in : s[i] = GrantedOf(in[i])
      /\ DOMAIN s = DOMAIN in
  BY GrantedIs
<1>2. Tail(in) \in Seq(InFrame) /\ Len(Tail(in)) = Len(in) - 1 /\ Len(in) \in Nat
  OBVIOUS
<1>3. /\ n \in Seq(C) /\ Len(n) = Len(in) - 1 /\ DOMAIN n = DOMAIN Tail(in)
      /\ \A i \in DOMAIN Tail(in) : n[i] = GrantedOf(Tail(in)[i])
  BY <1>2, GrantedIs
<1> HIDE DEF s, n, C
<1>4. s # <<>> /\ Len(in) > 0 /\ Head(in) = in[1] /\ 1 \in DOMAIN in
  BY <1>1, <1>2, EmptyIs, TailIs
<1>5. Tail(s) \in Seq(C) /\ Len(Tail(s)) = Len(n)
  BY <1>1, <1>2, <1>3, <1>4
<1>6. \A i \in 1..Len(n) : n[i] = Tail(s)[i]
  <2>1. SUFFICES ASSUME NEW i \in 1..Len(n)
                 PROVE  n[i] = Tail(s)[i]
    OBVIOUS
  <2>2. i \in DOMAIN Tail(in) /\ i \in DOMAIN Tail(s)
    BY <1>2, <1>3, <1>5, <2>1
  <2>3. Tail(in)[i] = in[i + 1] /\ i + 1 \in DOMAIN in
    BY <2>2, TailIs
  <2>4. Tail(s)[i] = s[i + 1]
    BY <1>1, <1>4, <2>2, TailIs
  <2> QED BY <1>1, <1>3, <2>2, <2>3, <2>4
<1>7. n = Tail(s)
  BY <1>3, <1>5, <1>6, SameSequence
<1> QED BY <1>1, <1>4, <1>7 DEF s, n

LEMMA AskedTail ==
    ASSUME NEW out \in Seq(OutFrame), out # <<>>
    PROVE  /\ Asked(Tail(out)) = Tail(Asked(out)) /\ Asked(out) # <<>>
           /\ Asked(out)[1] = AskedOf(Head(out))
<1> DEFINE s == Asked(out)
           n == Asked(Tail(out))
           C == Calls \cup {None}
<1>1. /\ s \in Seq(C) /\ Len(s) = Len(out) /\ \A i \in DOMAIN out : s[i] = AskedOf(out[i])
      /\ DOMAIN s = DOMAIN out
  BY AskedIs
<1>2. Tail(out) \in Seq(OutFrame) /\ Len(Tail(out)) = Len(out) - 1 /\ Len(out) \in Nat
  OBVIOUS
<1>3. /\ n \in Seq(C) /\ Len(n) = Len(out) - 1 /\ DOMAIN n = DOMAIN Tail(out)
      /\ \A i \in DOMAIN Tail(out) : n[i] = AskedOf(Tail(out)[i])
  BY <1>2, AskedIs
<1> HIDE DEF s, n, C
<1>4. s # <<>> /\ Len(out) > 0 /\ Head(out) = out[1] /\ 1 \in DOMAIN out
  BY <1>1, <1>2, EmptyIs, TailIs
<1>5. Tail(s) \in Seq(C) /\ Len(Tail(s)) = Len(n)
  BY <1>1, <1>2, <1>3, <1>4
<1>6. \A i \in 1..Len(n) : n[i] = Tail(s)[i]
  <2>1. SUFFICES ASSUME NEW i \in 1..Len(n)
                 PROVE  n[i] = Tail(s)[i]
    OBVIOUS
  <2>2. i \in DOMAIN Tail(out) /\ i \in DOMAIN Tail(s)
    BY <1>2, <1>3, <1>5, <2>1
  <2>3. Tail(out)[i] = out[i + 1] /\ i + 1 \in DOMAIN out
    BY <2>2, TailIs
  <2>4. Tail(s)[i] = s[i + 1]
    BY <1>1, <1>4, <2>2, TailIs
  <2> QED BY <1>1, <1>3, <2>2, <2>3, <2>4
<1>7. n = Tail(s)
  BY <1>3, <1>5, <1>6, SameSequence
<1> QED BY <1>1, <1>4, <1>7 DEF s, n

LEMMA AskedOneMore ==
    ASSUME NEW out \in Seq(OutFrame), NEW frame \in OutFrame
    PROVE  Asked(out \o <<frame>>) = Append(Asked(out), AskedOf(frame))
<1> DEFINE all == out \o <<frame>>
           s == Asked(out)
           n == Asked(all)
           C == Calls \cup {None}
           c == AskedOf(frame)
<1>1. /\ s \in Seq(C) /\ Len(s) = Len(out) /\ \A i \in DOMAIN out : s[i] = AskedOf(out[i])
      /\ DOMAIN s = DOMAIN out
  BY AskedIs
<1>2. /\ all \in Seq(OutFrame) /\ Len(all) = Len(out) + 1 /\ Len(out) \in Nat
      /\ DOMAIN out = 1..Len(out) /\ DOMAIN all = 1..(Len(out) + 1)
      /\ all[Len(out) + 1] = frame /\ \A i \in DOMAIN out : all[i] = out[i]
  OBVIOUS
<1> HIDE DEF all
<1>3. /\ n \in Seq(C) /\ Len(n) = Len(out) + 1 /\ DOMAIN n = DOMAIN all
      /\ \A i \in DOMAIN all : n[i] = AskedOf(all[i])
  BY <1>2, AskedIs
<1>4. n[Len(out) + 1] = c /\ c \in C
  BY <1>2, <1>3
<1> HIDE DEF s, n, C, c
<1> DEFINE u == Append(s, c)
<1>5. /\ u \in Seq(C) /\ Len(u) = Len(n)
      /\ \A i \in 1..Len(out) : u[i] = s[i]
      /\ u[Len(out) + 1] = c
  BY <1>1, <1>2, <1>3, <1>4
<1> HIDE DEF u
<1>6. \A i \in 1..Len(n) : n[i] = u[i]
  <2>1. SUFFICES ASSUME NEW i \in 1..(Len(out) + 1)
                 PROVE  n[i] = u[i]
    BY <1>3
  <2>2. CASE i = Len(out) + 1
    BY <1>4, <1>5, <2>2
  <2>3. CASE i \in 1..Len(out)
    BY <1>1, <1>2, <1>3, <1>5, <2>3
  <2> QED BY <1>2, <2>2, <2>3
<1>7. n = u
  BY <1>3, <1>5, <1>6, SameSequence
<1> QED BY <1>7 DEF s, n, c, all, u

\* Frames that grant nothing follow.
LEMMA GrantedMore ==
    ASSUME NEW in \in Seq(InFrame), NEW more \in Seq(InFrame),
           \A i \in DOMAIN more : more[i].type # "ConsumeOk",
           NEW p, InLine(p, {}, Granted(in))
    PROVE  /\ InLine(p, {}, Granted(in \o more))
           /\ CallsIn(Granted(in \o more)) = CallsIn(Granted(in))
<1> DEFINE all == in \o more
           s == Granted(in)
           n == Granted(all)
<1>1. /\ s \in Seq(Calls \cup {None}) /\ \A i \in DOMAIN in : s[i] = GrantedOf(in[i])
      /\ DOMAIN s = DOMAIN in
  BY GrantedIs
<1>2. /\ all \in Seq(InFrame) /\ DOMAIN in \subseteq DOMAIN all
      /\ \A i \in DOMAIN in : all[i] = in[i]
      /\ \A i \in DOMAIN all \ DOMAIN in :
            /\ \A j \in DOMAIN in : j < i
            /\ i - Len(in) \in DOMAIN more /\ all[i] = more[i - Len(in)]
  <2>1. /\ Len(all) = Len(in) + Len(more) /\ all \in Seq(InFrame)
        /\ Len(in) \in Nat /\ Len(more) \in Nat
        /\ \A i \in 1..Len(in) : all[i] = in[i]
        /\ \A i \in 1..Len(more) : all[Len(in) + i] = more[i]
    BY ConcatIs
  <2>2. /\ DOMAIN in = 1..Len(in) /\ DOMAIN more = 1..Len(more)
        /\ DOMAIN all = 1..(Len(in) + Len(more))
    BY <2>1
  <2> HIDE DEF all
  <2>3. ASSUME NEW i \in DOMAIN all \ DOMAIN in
        PROVE  /\ \A j \in DOMAIN in : j < i
               /\ i - Len(in) \in DOMAIN more /\ all[i] = more[i - Len(in)]
    <3>1. i \in Nat /\ i > Len(in) /\ i - Len(in) \in 1..Len(more)
      BY <2>1, <2>2
    <3>2. Len(in) + (i - Len(in)) = i
      BY <2>1, <3>1
    <3>3. all[i] = more[i - Len(in)]
      BY <2>1, <3>1, <3>2
    <3> QED BY <2>1, <2>2, <3>1, <3>3
  <2> QED BY <2>1, <2>2, <2>3
<1> HIDE DEF all
<1>3. DOMAIN n = DOMAIN all /\ \A i \in DOMAIN all : n[i] = GrantedOf(all[i])
  BY <1>2, GrantedIs
<1> HIDE DEF s, n
<1>4. \A i \in DOMAIN n \ DOMAIN s : n[i] = None /\ \A j \in DOMAIN s : j < i
  BY <1>1, <1>2, <1>3 DEF GrantedOf
<1>5. DOMAIN s \subseteq DOMAIN n /\ \A i \in DOMAIN s : n[i] = s[i]
  BY <1>1, <1>2, <1>3
<1>6. InLine(p, {}, s)
  BY DEF s
<1> QED BY <1>1, <1>4, <1>5, <1>6, LineExtended DEF s, n, all

---------------------------------------------------------------------------
(* The consumes that are queued for the lock *)

QueuedOf(t, k) == IF WillConsume(k[t]) THEN <<t, k[t].left>> ELSE None

LEMMA QueueIs ==
    ASSUME NEW l, NEW k, LockFits(l, k)
    PROVE  /\ InQueue(l, k) \in Seq(Calls \cup {None})
           /\ DOMAIN InQueue(l, k) = DOMAIN l /\ Len(InQueue(l, k)) = Len(l)
           /\ \A i \in DOMAIN l : l[i] \in Task /\ InQueue(l, k)[i] = QueuedOf(l[i], k)
<1> DEFINE s == InQueue(l, k)
<1>1. l \in Seq(Task) /\ k \in [Task -> Record]
  BY DEF LockFits
<1>2. \A t \in Task : QueuedOf(t, k) \in Calls \cup {None}
  BY <1>1, CallIs DEF QueuedOf
<1>3. \A i \in 1..Len(l) : l[i] \in Task /\ s[i] = QueuedOf(l[i], k)
  BY <1>1 DEF InQueue, QueuedOf
<1>4. s = [i \in 1..Len(l) |-> s[i]] /\ Len(l) \in Nat /\ DOMAIN l = 1..Len(l)
  BY <1>1 DEF InQueue
<1> HIDE DEF s
<1>5. \A i \in 1..Len(l) : s[i] \in Calls \cup {None}
  BY <1>2, <1>3
<1>6. s \in Seq(Calls \cup {None}) /\ Len(s) = Len(l) /\ DOMAIN s = 1..Len(l)
  BY <1>4, <1>5
<1> QED BY <1>3, <1>4, <1>6 DEF s

LEMMA QueueStays ==
    ASSUME NEW l, NEW k, LockFits(l, k), NEW t \in Task, NEW r \in Record,
           ~ WillConsume(k[t]), ~ WillConsume(r)
    PROVE  InQueue(l, [k EXCEPT ![t] = r]) = InQueue(l, k)
<1>1. l \in Seq(Task) /\ k \in [Task -> Record]
  BY DEF LockFits
<1>2. \A i \in DOMAIN l : l[i] \in Task
  BY <1>1
<1> QED BY <1>1, <1>2 DEF InQueue

\* The head of the lock begins to wait, or leaves the lock.
HeadTurns(l, k, t, m, n) ==
    /\ LockFits(l, k) /\ l # <<>> /\ Head(l) = t /\ (m = l \/ m = Tail(l))
    /\ \E r \in Record : ~ WillConsume(r) /\ n = [k EXCEPT ![t] = r]

\* The line s has become w, and c was its first.
Advanced(p, ahead, s, c, w) ==
    /\ InLine(p, ahead \cup ({c} \ {None}), w)
    /\ CallsIn(s) = CallsIn(w) \cup ({c} \ {None})
    /\ c # None => \E q \in DOMAIN p : p[q].call = c /\ PendingBefore(p, q) = ahead

LEMMA QueueGoes ==
    ASSUME NEW l, NEW k, NEW t \in Task, NEW m, NEW n, HeadTurns(l, k, t, m, n),
           NEW p, NEW ahead, InLine(p, ahead, InQueue(l, k))
    PROVE  Advanced(p, ahead, InQueue(l, k), QueuedOf(t, k), InQueue(m, n))
<1> DEFINE C == Calls \cup {None}
           s == InQueue(l, k)
           c == QueuedOf(t, k)
<1>0. /\ LockFits(l, k) /\ l # <<>> /\ Head(l) = t /\ (m = l \/ m = Tail(l))
  BY DEF HeadTurns
<1>r. PICK r \in Record : ~ WillConsume(r) /\ n = [k EXCEPT ![t] = r]
  BY DEF HeadTurns
<1>1. /\ l \in Seq(Task) /\ k \in [Task -> Record]
      /\ \A i, j \in DOMAIN l : l[i] = l[j] => i = j
  BY <1>0 DEF LockFits
<1>2. /\ s \in Seq(C) /\ DOMAIN s = DOMAIN l /\ Len(s) = Len(l)
      /\ \A i \in DOMAIN l : l[i] \in Task /\ s[i] = QueuedOf(l[i], k)
  BY <1>0, QueueIs
<1> HIDE DEF s, C
<1>3. /\ 1 \in DOMAIN l /\ l[1] = t /\ s # <<>> /\ s[1] = c
      /\ Tail(l) \in Seq(Task) /\ Len(Tail(l)) = Len(l) - 1 /\ Len(l) \in Nat
      /\ Tail(s) \in Seq(C) /\ Len(Tail(s)) = Len(l) - 1
  <2>1. 1 \in DOMAIN l /\ l[1] = t /\ Tail(l) \in Seq(Task)
    BY <1>0, <1>1, TailIs, TailElements
  <2>2. Len(Tail(l)) = Len(l) - 1 /\ Len(l) \in Nat /\ Len(l) > 0
    BY <1>0, <1>1
  <2>3. s # <<>>
    BY <1>2, <2>2, EmptyIs
  <2>4. Tail(s) \in Seq(C) /\ Len(Tail(s)) = Len(l) - 1
    BY <1>2, <2>3
  <2> QED BY <1>2, <2>1, <2>2, <2>3, <2>4
<1> HIDE DEF c
<1>4. \A i \in DOMAIN l : i # 1 => QueuedOf(l[i], n) = s[i]
  <2>1. \A i \in DOMAIN l : i # 1 => l[i] # t
    BY <1>1, <1>3
  <2>2. \A u \in Task : u # t => n[u] = k[u]
    BY <1>1, <1>r
  <2> QED BY <1>2, <2>1, <2>2 DEF QueuedOf
<1>5. QueuedOf(t, n) = None
  BY <1>1, <1>r DEF QueuedOf
<1>6. InLine(p, ahead, s)
  BY DEF s
<1>7. c # None => \E q \in DOMAIN p : p[q].call = c /\ PendingBefore(p, q) = ahead
  <2>1. 1 \in DOMAIN s /\ CallsBefore(s, 1) = {}
    BY <1>2, <1>3, TailLine
  <2> QED BY <1>3, <1>6, <2>1 DEF InLine
<1>8. CASE m = l
  <2> DEFINE w == InQueue(l, n)
  <2>1. /\ DOMAIN w = DOMAIN s /\ w = [i \in DOMAIN s |-> w[i]]
        /\ \A i \in DOMAIN l : w[i] = QueuedOf(l[i], n)
    BY <1>2 DEF InQueue, QueuedOf
  <2> HIDE DEF w
  <2>2. w[1] = None /\ \A i \in DOMAIN s : i # 1 => w[i] = s[i]
    BY <1>2, <1>3, <1>4, <1>5, <2>1
  <2>3. /\ InLine(p, ahead \cup ({s[1]} \ {None}), w)
        /\ CallsIn(s) = CallsIn(w) \cup ({s[1]} \ {None})
    <3>1. w = [s EXCEPT ![1] = None]
      BY <2>1, <2>2
    <3> QED BY <1>2, <1>3, <1>6, <3>1, LineGiven
  <2> QED BY <1>3, <1>7, <1>8, <2>3 DEF w, s, c, Advanced
<1>9. CASE m = Tail(l)
  <2> DEFINE v == Tail(l)
             w == InQueue(v, n)
             z == Tail(s)
  <2>1. /\ DOMAIN w = 1..Len(Tail(l))
        /\ w = [i \in 1..Len(Tail(l)) |-> w[i]]
        /\ \A i \in 1..Len(Tail(l)) : w[i] = QueuedOf(Tail(l)[i], n)
    <3>1. v \in Seq(Task)
      BY <1>3
    <3> HIDE DEF v
    <3>2. DOMAIN v = 1..Len(v)
      BY <3>1
    <3> QED BY <3>2 DEF InQueue, QueuedOf, v
  <2>2. z = [i \in 1..Len(Tail(l)) |-> z[i]]
    <3>1. z \in Seq(C) /\ Len(z) = Len(Tail(l))
      BY <1>3
    <3> HIDE DEF z
    <3> QED BY <3>1
  <2>3. \A i \in 1..Len(Tail(l)) : w[i] = z[i]
    <3>1. SUFFICES ASSUME NEW i \in 1..Len(Tail(l))
                   PROVE  w[i] = z[i]
      OBVIOUS
    <3>2. i \in DOMAIN Tail(l) /\ i \in DOMAIN Tail(s) /\ i + 1 # 1 /\ i \in Nat
      BY <1>3
    <3>3. Tail(l)[i] = l[i + 1] /\ i + 1 \in DOMAIN l
      BY <1>0, <1>1, <3>2, TailIs
    <3>4. Tail(s)[i] = s[i + 1]
      BY <1>2, <1>3, <3>2, TailIs
    <3> QED BY <1>4, <2>1, <3>2, <3>3, <3>4
  <2> HIDE DEF w, z
  <2>4. w = z
    BY <2>1, <2>2, <2>3
  <2>5. /\ InLine(p, ahead \cup ({s[1]} \ {None}), Tail(s))
        /\ CallsIn(s) = CallsIn(Tail(s)) \cup ({s[1]} \ {None})
    BY <1>2, <1>3, <1>6, LineAdvances, TailLine
  <2> QED BY <1>3, <1>7, <1>9, <2>4, <2>5 DEF w, s, z, c, Advanced
<1> QED BY <1>0, <1>8, <1>9

\* A task joins the queue.
LastJoins(l, k, t, n) ==
    /\ LockFits(l, k) /\ k[t].pc \notin InLock
    /\ \E r \in Record : n = [k EXCEPT ![t] = r]

LEMMA QueueJoins ==
    ASSUME NEW l, NEW k, NEW t \in Task, NEW n, LastJoins(l, k, t, n)
    PROVE  InQueue(Append(l, t), n) = Append(InQueue(l, k), QueuedOf(t, n))
<1> DEFINE C == Calls \cup {None}
           s == InQueue(l, k)
           m == Append(l, t)
           w == InQueue(m, n)
           c == QueuedOf(t, n)
           u == Append(s, c)
<1>0. LockFits(l, k) /\ k[t].pc \notin InLock
  BY DEF LastJoins
<1>r. PICK r \in Record : n = [k EXCEPT ![t] = r]
  BY DEF LastJoins
<1>1. /\ l \in Seq(Task) /\ k \in [Task -> Record] /\ \A i \in DOMAIN l : l[i] # t
  BY <1>0 DEF LockFits, InLock
<1>2. /\ s \in Seq(C) /\ DOMAIN s = DOMAIN l /\ Len(s) = Len(l)
      /\ \A i \in DOMAIN l : l[i] \in Task /\ s[i] = QueuedOf(l[i], k)
  BY <1>0, QueueIs
<1>3. /\ m \in Seq(Task) /\ Len(m) = Len(l) + 1 /\ Len(l) \in Nat /\ DOMAIN l = 1..Len(l)
      /\ DOMAIN m = 1..(Len(l) + 1) /\ m[Len(l) + 1] = t /\ \A i \in 1..Len(l) : m[i] = l[i]
  BY <1>1
<1>4. c \in C
  <2>1. n \in [Task -> Record]
    BY <1>1, <1>r
  <2> QED BY <2>1, CallIs DEF QueuedOf
<1> HIDE DEF s, m, C, c
<1>5. /\ u \in Seq(C) /\ Len(u) = Len(l) + 1 /\ u[Len(l) + 1] = c
      /\ \A i \in 1..Len(l) : u[i] = s[i]
  BY <1>2, <1>3, <1>4
<1>6. /\ DOMAIN w = 1..(Len(l) + 1) /\ w = [i \in 1..(Len(l) + 1) |-> w[i]]
      /\ \A i \in 1..(Len(l) + 1) : w[i] = QueuedOf(m[i], n)
  BY <1>3 DEF InQueue, QueuedOf
<1> HIDE DEF u, w
<1>7. u = [i \in 1..(Len(l) + 1) |-> u[i]]
  BY <1>5
<1>8. \A i \in 1..(Len(l) + 1) : w[i] = u[i]
  <2>1. SUFFICES ASSUME NEW i \in 1..(Len(l) + 1)
                 PROVE  w[i] = u[i]
    OBVIOUS
  <2>2. CASE i = Len(l) + 1
    BY <1>3, <1>5, <1>6, <2>2 DEF c
  <2>3. CASE i \in 1..Len(l)
    <3>1. l[i] \in Task /\ l[i] # t /\ n[l[i]] = k[l[i]]
      BY <1>1, <1>2, <1>3, <1>r, <2>3
    <3>2. w[i] = QueuedOf(l[i], k)
      BY <1>3, <1>6, <2>3, <3>1 DEF QueuedOf
    <3> QED BY <1>2, <1>3, <1>5, <2>3, <3>2
  <2> QED BY <1>3, <2>2, <2>3
<1>9. w = u
  BY <1>6, <1>7, <1>8
<1> QED BY <1>9 DEF w, u, m, s, c

---------------------------------------------------------------------------
(* The three lines together *)

\* A request is sent by the head of the lock.
LEMMA SentInLine ==
    ASSUME NEW f, NEW g, g.pending = f.pending, NEW in, NEW out \in Seq(OutFrame),
           NEW l, NEW k, NEW t \in Task, NEW m, NEW n, HeadTurns(l, k, t, m, n),
           AskedInLine(f, in, out), QueuedInLine(f, in, out, l, k),
           NEW frame \in OutFrame, AskedOf(frame) = QueuedOf(t, k),
           NEW next, next = out \o <<frame>>
    PROVE  AskedInLine(g, in, next) /\ QueuedInLine(g, in, next, m, n)
<1> DEFINE p == f.pending
           C == Calls \cup {None}
           a == Asked(out)
           x == CallsIn(Granted(in))
           c == AskedOf(frame)
           q == InQueue(l, k)
           w == InQueue(m, n)
<1>1. a \in Seq(C) /\ Asked(next) = Append(a, c)
  BY AskedIs, AskedOneMore
<1>2. c \in C
  BY DEF AskedOf, OutFrame, ConsumeMethods, Request, SettledState
<1>3. InLine(p, x, a)
  BY DEF AskedInLine
<1>4. /\ InLine(p, x \cup CallsIn(a), q)
      /\ {p[i].call : i \in DOMAIN p} = x \cup CallsIn(a) \cup CallsIn(q)
  BY DEF QueuedInLine
<1>5. c = QueuedOf(t, k)
  OBVIOUS
<1> HIDE DEF p, C, a, x, c
<1>6. /\ InLine(p, (x \cup CallsIn(a)) \cup ({c} \ {None}), w)
      /\ CallsIn(q) = CallsIn(w) \cup ({c} \ {None})
      /\ c # None => \E i \in DOMAIN p : p[i].call = c
                                         /\ PendingBefore(p, i) = x \cup CallsIn(a)
  <2> DEFINE y == x \cup CallsIn(a)
  <2>1. InLine(p, y, q)
    BY <1>4
  <2> HIDE DEF y
  <2>2. Advanced(p, y, q, c, w)
    BY <1>5, <2>1, QueueGoes
  <2> QED BY <2>2 DEF y, Advanced
<1> HIDE DEF q, w
<1>7. /\ InLine(p, x, Append(a, c))
      /\ CallsIn(Append(a, c)) = CallsIn(a) \cup ({c} \ {None})
  BY <1>1, <1>2, <1>3, <1>6, LineJoined
<1>8. (x \cup CallsIn(a)) \cup ({c} \ {None}) = x \cup CallsIn(Append(a, c))
  BY <1>7
<1>9. /\ InLine(p, x \cup CallsIn(Append(a, c)), w)
      /\ {p[i].call : i \in DOMAIN p} = x \cup CallsIn(Append(a, c)) \cup CallsIn(w)
  <2>1. InLine(p, x \cup CallsIn(Append(a, c)), w)
    BY <1>6, <1>8
  <2>2. x \cup CallsIn(a) \cup CallsIn(q) = x \cup CallsIn(Append(a, c)) \cup CallsIn(w)
    BY <1>6, <1>7
  <2> QED BY <1>4, <2>1, <2>2
<1>10. g.pending = p
  BY DEF p
<1>11. AskedInLine(g, in, next)
  BY <1>1, <1>7, <1>10 DEF AskedInLine, x
<1>12. QueuedInLine(g, in, next, m, n)
  BY <1>1, <1>9, <1>10 DEF QueuedInLine, x, w
<1> QED BY <1>11, <1>12

\* Frames that ask for nothing change nothing in the line of those that are queued.
LEMMA StillQueued ==
    ASSUME NEW f, NEW g, g.pending = f.pending, NEW in, NEW out, NEW l, NEW k,
           QueuedInLine(f, in, out, l, k), NEW next, NEW m, NEW n,
           CallsIn(Asked(next)) = CallsIn(Asked(out)),
           InQueue(m, n) = InQueue(l, k)
    PROVE  QueuedInLine(g, in, next, m, n)
<1> DEFINE y == CallsIn(Granted(in)) \cup CallsIn(Asked(out))
           q == InQueue(l, k)
<1>1. InLine(f.pending, y, q) /\ {f.pending[i].call : i \in DOMAIN f.pending} = y \cup CallsIn(q)
  BY DEF QueuedInLine
<1>2. y = CallsIn(Granted(in)) \cup CallsIn(Asked(next)) /\ q = InQueue(m, n)
  OBVIOUS
<1> HIDE DEF y, q
<1> QED BY <1>1, <1>2 DEF QueuedInLine

SameAsked(g, in, out, next) ==
    AskedInLine(g, in, next) /\ CallsIn(Asked(next)) = CallsIn(Asked(out))

LEMMA AskedNothing ==
    ASSUME NEW f, NEW g, g.pending = f.pending, NEW in, NEW out \in Seq(OutFrame),
           AskedInLine(f, in, out), NEW frame \in OutFrame, frame.type \notin ConsumeMethods,
           NEW next, next = out \o <<frame>>
    PROVE  SameAsked(g, in, out, next)
<1> DEFINE p == f.pending
           a == Asked(out)
           x == CallsIn(Granted(in))
<1>1. a \in Seq(Calls \cup {None}) /\ Asked(next) = Append(a, None)
  BY AskedIs, AskedOneMore DEF AskedOf
<1>2. InLine(p, x, a)
  BY DEF AskedInLine
<1> HIDE DEF p, a, x
<1>3. /\ InLine(p, x, Append(a, None))
      /\ CallsIn(Append(a, None)) = CallsIn(a) \cup ({None} \ {None})
  BY <1>1, <1>2, LineJoined
<1>4. g.pending = p
  BY DEF p
<1> QED BY <1>1, <1>3, <1>4 DEF SameAsked, AskedInLine, x, a

\* The head of the lock, which is not to consume, begins to wait or leaves.
LEMMA HeadGoes ==
    ASSUME NEW f, NEW g, g.pending = f.pending, NEW in, NEW out,
           NEW l, NEW k, NEW t \in Task, NEW m, NEW n, HeadTurns(l, k, t, m, n),
           ~ WillConsume(k[t]), QueuedInLine(f, in, out, l, k),
           NEW next, CallsIn(Asked(next)) = CallsIn(Asked(out))
    PROVE  QueuedInLine(g, in, next, m, n)
<1> DEFINE p == f.pending
           y == CallsIn(Granted(in)) \cup CallsIn(Asked(out))
           q == InQueue(l, k)
           w == InQueue(m, n)
<1>1. InLine(p, y, q) /\ {p[i].call : i \in DOMAIN p} = y \cup CallsIn(q)
  BY DEF QueuedInLine
<1>2. QueuedOf(t, k) = None
  BY DEF QueuedOf
<1> HIDE DEF p, y
<1>3. Advanced(p, y, q, None, w)
  BY <1>1, <1>2, QueueGoes
<1> HIDE DEF q, w
<1>4. y \cup ({None} \ {None}) = y
  OBVIOUS
<1>5. InLine(p, y, w) /\ {p[i].call : i \in DOMAIN p} = y \cup CallsIn(w)
  BY <1>1, <1>3, <1>4 DEF Advanced
<1>6. y = CallsIn(Granted(in)) \cup CallsIn(Asked(next)) /\ g.pending = p
  BY DEF p, y
<1> QED BY <1>5, <1>6 DEF QueuedInLine, w

\* A call is prepared: its future is the last.
WithLast(p, o, c, m) ==
    /\ \A ahead, s : InLine(p, ahead, s) => InLine(o, ahead, s)
    /\ Consumes(m) => \E q \in DOMAIN o :
          o[q].call = c /\ PendingBefore(o, q) = {p[i].call : i \in DOMAIN p}
    /\ {o[i].call : i \in DOMAIN o}
          = {p[i].call : i \in DOMAIN p} \cup (IF Consumes(m) THEN {c} ELSE {})

LEMMA PreparedLines ==
    ASSUME NEW f, FuturesTyped(f), NEW c \in Calls, NEW m
    PROVE  WithLast(f.pending, PreparedFor(f, c, m).pending, c, m)
<1> DEFINE g == PreparedFor(f, c, m)
           p == f.pending
           o == g.pending
           N == Len(f.pending)
<1>1. /\ p \in Seq(Awaiting) /\ N \in Nat
      /\ Len(o) = IF Consumes(m) THEN N + 1 ELSE N
      /\ \A i \in DOMAIN p : i \in DOMAIN o /\ o[i] = p[i]
      /\ \A i \in DOMAIN o : i \in DOMAIN p \/ (Consumes(m) /\ i = N + 1 /\ o[i].call = c)
      /\ o \in Seq(Awaiting)
  <2>1. FuturesTyped(g)
    BY PreparedTyped
  <2>2. p \in Seq(Awaiting) /\ o \in Seq(Awaiting)
    BY <2>1, FutureIs
  <2> QED BY <2>2, PreparedTyped
<1>2. /\ DOMAIN p = 1..N /\ DOMAIN o = 1..Len(o) /\ DOMAIN p \subseteq Nat
      /\ DOMAIN o \subseteq Nat
  BY <1>1
<1> HIDE DEF g, p, o, N
<1>3. \A i \in DOMAIN o : i \in DOMAIN p \/ \A j \in DOMAIN p : j < i
  BY <1>1, <1>2
<1>4. \A ahead, s : InLine(p, ahead, s) => InLine(o, ahead, s)
  BY <1>1, <1>2, <1>3, LineStays
<1>5. Consumes(m) => /\ N + 1 \in DOMAIN o /\ o[N + 1].call = c
                     /\ PendingBefore(o, N + 1) = {p[i].call : i \in DOMAIN p}
  <2>1. SUFFICES ASSUME Consumes(m)
                 PROVE  /\ N + 1 \in DOMAIN o /\ o[N + 1].call = c
                        /\ PendingBefore(o, N + 1) = {p[i].call : i \in DOMAIN p}
    OBVIOUS
  <2>2. N + 1 \in DOMAIN o /\ N + 1 \notin DOMAIN p
    BY <1>1, <1>2, <2>1
  <2>3. {i \in DOMAIN o : i < N + 1} = DOMAIN p
    BY <1>1, <1>2
  <2>4. PendingBefore(o, N + 1) = {o[i].call : i \in DOMAIN p}
    BY <2>3 DEF PendingBefore
  <2>5. {o[i].call : i \in DOMAIN p} = {p[i].call : i \in DOMAIN p}
    BY <1>1
  <2> QED BY <1>1, <2>2, <2>4, <2>5
<1>6. {o[i].call : i \in DOMAIN o} = {p[i].call : i \in DOMAIN p}
                                       \cup (IF Consumes(m) THEN {c} ELSE {})
  <2>1. CASE Consumes(m)
    BY <1>1, <1>5, <2>1
  <2>2. CASE ~ Consumes(m)
    BY <1>1, <2>2
  <2> QED BY <2>1, <2>2
<1>7. WithLast(p, o, c, m)
  BY <1>4, <1>5, <1>6 DEF WithLast
<1> QED BY <1>7 DEF g, p, o

\* A call joins the queue of the lock.
LEMMA JoinedInLine ==
    ASSUME NEW f, FuturesTyped(f), NEW in, NEW out, NEW l, NEW k, LockFits(l, k),
           NEW t \in Task, k[t].pc \notin InLock, NEW m,
           NEW r \in Record, r.pc = "queued", r.call = m, NEW c \in Calls,
           c = <<t, r.left>>, NEW n, n = [k EXCEPT ![t] = r],
           QueuedInLine(f, in, out, l, k)
    PROVE  QueuedInLine(PreparedFor(f, c, m), in, out, Append(l, t), n)
<1> DEFINE g == PreparedFor(f, c, m)
           y == CallsIn(Granted(in)) \cup CallsIn(Asked(out))
           p == f.pending
           o == g.pending
           q == InQueue(l, k)
           d == QueuedOf(t, n)
<1>1. n[t] = r
  BY DEF LockFits
<1>2. d = IF Consumes(m) THEN c ELSE None
  BY <1>1 DEF QueuedOf, WillConsume
<1>3. InQueue(Append(l, t), n) = Append(q, d)
  <2>1. LastJoins(l, k, t, n)
    BY DEF LastJoins
  <2>2. InQueue(Append(l, t), n) = Append(InQueue(l, k), QueuedOf(t, n))
    BY ONLY <2>1, t \in Task, QueueJoins
  <2> QED BY <2>2
<1>4. q \in Seq(Calls \cup {None})
  BY QueueIs
<1>5. InLine(p, y, q) /\ {p[i].call : i \in DOMAIN p} = y \cup CallsIn(q)
  BY DEF QueuedInLine
<1>7. c # None
  BY MessageIs
<1> HIDE DEF y, q, d
<1>11. WithLast(p, o, c, m)
  BY PreparedLines
<1> HIDE DEF g, p, o
<1>6. /\ InLine(o, y, q)
      /\ Consumes(m) => \E i \in DOMAIN o : /\ o[i].call = c
                                            /\ PendingBefore(o, i) = {p[j].call : j \in DOMAIN p}
      /\ {o[i].call : i \in DOMAIN o} = {p[i].call : i \in DOMAIN p}
                                           \cup (IF Consumes(m) THEN {c} ELSE {})
  BY <1>5, <1>11 DEF WithLast
<1>8. d \in Calls \cup {None}
  BY <1>2
<1>9. /\ InLine(o, y, Append(q, d))
      /\ CallsIn(Append(q, d)) = CallsIn(q) \cup ({d} \ {None})
  <2>1. d # None => \E i \in DOMAIN o : o[i].call = d /\ PendingBefore(o, i) = y \cup CallsIn(q)
    BY <1>2, <1>5, <1>6
  <2> QED BY <1>4, <1>6, <1>8, <2>1, LineJoined
<1>10. {o[i].call : i \in DOMAIN o} = y \cup CallsIn(Append(q, d))
  BY <1>2, <1>5, <1>6, <1>7, <1>9
<1> QED BY <1>3, <1>9, <1>10 DEF QueuedInLine, y, o, g, q

---------------------------------------------------------------------------
(* What a task does keeps the lines *)

\* A client that is closed stays so, but for CONNECTING.
LEMMA ClosedStays ==
    ASSUME NEW m \in Managers, NEW value \in ClientState, value # "CONNECTING", Closed(m)
    PROVE  Closed(Enter(m, value))
<1>1. CASE SM!Refuses(m, value, None)
  BY <1>1, EnterKeepsType DEF Closed
<1>2. CASE ~ SM!Refuses(m, value, None)
  <2> DEFINE s == m.state
             Lasting == {"CLOSING", "CLOSED", "DISCONNECTED", "EXCEPTION", "UNINITIALIZED"}
  <2>1. s \in Lasting /\ Lasting \subseteq DOMAIN Steps
    BY DEF Closed, ClosedClientStates, Steps
  <2>2. value = s \/ value = "EXCEPTION" \/ value \in ClientTransitions[s]
    BY <1>2 DEF SM!Refuses, SM!Unchanged
  <2>3. ClientTransitions[s] = Steps[s]
    BY <2>1, TransitionsAre
  <2>4. value \in ClientTransitions[s] => value \in Lasting \cup {"CONNECTING"}
    <3>1. Steps["CLOSING"] = {"CLOSED"}
      BY DEF Steps
    <3>2. Steps["CLOSED"] = {"CONNECTING"}
      BY DEF Steps
    <3>3. Steps["DISCONNECTED"] = {"CONNECTING"}
      BY DEF Steps
    <3>4. Steps["EXCEPTION"] = {"CLOSING", "CLOSED", "DISCONNECTED"}
      BY DEF Steps
    <3>5. Steps["UNINITIALIZED"] = {"DISCONNECTED"}
      BY DEF Steps
    <3> HIDE DEF s
    <3> QED BY <2>1, <2>3, <3>1, <3>2, <3>3, <3>4, <3>5
  <2>5. Enter(m, value).state = value
    BY <1>2, EnterKeepsType
  <2> HIDE DEF s
  <2> QED BY <2>1, <2>2, <2>4, <2>5 DEF Closed, ClosedClientStates
<1> QED BY <1>1, <1>2

\* A request carries the call that was queued.
LEMMA CallIsAsked ==
    ASSUME NEW k, NEW held, NEW f, NEW a, NEW t \in Task, NEW m, NEW tag,
           HasLock(k, held, f, a, t, m, tag)
    PROVE  AskedOf(CallFrame(t, m, tag)) = QueuedOf(t, k)
<1>1. /\ CallFrame(t, m, tag).type = m /\ CallFrame(t, m, tag).by = Call(t)
      /\ m \in ConsumeMethods <=> WillConsume(k[t])
  BY CallFrameIs DEF CallFrame
<1>2. Call(t) = <<t, k[t].left>>
  BY DEF Call, HasLock, Behind
<1> QED BY <1>1, <1>2 DEF AskedOf, QueuedOf

\* What is written to the broker is one frame at most.
WritesOne ==
    \/ outbox' = outbox
    \/ /\ session.transport = "open"
       /\ \E frame \in OutFrame : frame.type # "Channel.CloseOk" /\ outbox' = outbox \o <<frame>>

LEMMA WritesIs ==
    ASSUME NEW frame \in OutFrame, Write(<<frame>>), frame.type # "Channel.CloseOk"
    PROVE  /\ WritesOne
           /\ session.transport = "open" => outbox' = outbox \o <<frame>>
           /\ session.transport # "open" => outbox' = outbox
BY DEF Write, WritesOne

\* The head of the lock has sent its request, and waits or is refused.
LEMMA FirstSends ==
    ASSUME NEW k, NEW held, NEW f, NEW a, NEW t \in Task, NEW m, NEW tag,
           HasLock(k, held, f, a, t, m, tag), outbox \in Seq(OutFrame),
           LinesWith(f, held, k, manager, outbox), ~ Closed(manager),
           Write(<<CallFrame(t, m, tag)>>), futures'.pending = f.pending,
           HeadTurns(held, k, t, lock', task')
    PROVE  LinesWith(futures', lock', task', manager', outbox') /\ WritesOne
<1> DEFINE frame == CallFrame(t, m, tag)
<1>1. /\ frame \in OutFrame /\ frame.type # "Channel.CloseOk"
      /\ AskedOf(frame) = QueuedOf(t, k)
  <2>1. frame \in OutFrame /\ frame.type = m /\ m \in DOMAIN Request
    BY CallFrameIs, HasLockIs
  <2> QED BY <2>1, CallIsAsked DEF Request
<1>2. Write(<<frame>>)
  OBVIOUS
<1> HIDE DEF frame
<1>3. WritesOne /\ (session.transport = "open" => outbox' = outbox \o <<frame>>)
  BY <1>1, <1>2, WritesIs
<1>4. ASSUME broker.channel = 1
      PROVE  GrantedInLine(futures', inbox)
  BY <1>4 DEF LinesWith, GrantedInLine
<1>5. ASSUME broker.channel = 1, broker.phase = "open", session.transport = "open"
      PROVE  /\ AskedInLine(futures', inbox, outbox')
             /\ QueuedInLine(futures', inbox, outbox', lock', task')
  <2>1. AskedInLine(f, inbox, outbox) /\ QueuedInLine(f, inbox, outbox, held, k)
    BY <1>5 DEF LinesWith
  <2>2. outbox' = outbox \o <<frame>>
    BY <1>3, <1>5
  <2> QED BY <1>1, <2>1, <2>2, SentInLine
<1> QED BY <1>3, <1>4, <1>5 DEF LinesWith

LEMMA FirstSend ==
    ASSUME NEW k, NEW held, NEW f, NEW a, NEW t \in Task, NEW m, NEW tag,
           HasLock(k, held, f, a, t, m, tag), manager \in Managers,
           outbox \in Seq(OutFrame), ~ session.failed,
           LinesWith(f, held, k, manager, outbox), Send(t, m, tag, held, f, a)
    PROVE  /\ LinesWith(futures', lock', task', manager', outbox') /\ WritesOne
           /\ futures'.done = f.done
<1>0. CallsOwn(k, f) /\ AppTyped(a) /\ Behind(k, t) /\ Active(k[t]) /\ k[t].call = m
      /\ LockFits(held, k) /\ held # <<>> /\ Head(held) = t /\ m \in DOMAIN Request
      /\ tag \in Calls \cup {None}
  BY HasLockIs DEF HasLock
<1>1. CASE SendSkipped(t, m, held, f, a)
  <2>1. "skipped" \in Results
    BY DEF Results
  <2>2. Leaves(k, t, f, a)
    BY <1>0, <1>1, <2>1, ReturnLeaves DEF SendSkipped
  <2>3. futures'.pending = f.pending /\ futures'.done = f.done
    BY <2>2 DEF Leaves
  <2>4. Closed(manager) /\ manager' = manager /\ outbox' = outbox
    BY <1>1 DEF SendSkipped, IsClosed, Closed
  <2> QED BY <2>3, <2>4 DEF LinesWith, GrantedInLine, AskedInLine, WritesOne
<1>2. CASE SendRefused(t, m, tag, held, f, a)
  <2>1. STE \in Results
    BY DEF Results, Error
  <2>2. Leaves(k, t, f, a)
    BY <1>0, <1>2, <2>1, EndLeaves DEF SendRefused
  <2>3. PICK r \in Record : task' = [k EXCEPT ![t] = r] /\ r.pc \notin InLock
    BY <2>2 DEF Leaves
  <2>4. ~ WillConsume(r)
    BY <2>3 DEF WillConsume, InLock
  <2>5. lock' = Tail(held) /\ Write(<<CallFrame(t, m, tag)>>) /\ ~ Closed(manager)
    BY <1>2 DEF SendRefused, IsClosed, Closed
  <2>6. HeadTurns(held, k, t, lock', task')
    BY <1>0, <2>3, <2>4, <2>5 DEF HeadTurns
  <2>7. futures'.pending = f.pending /\ futures'.done = f.done
    BY <2>2 DEF Leaves
  <2> QED BY <2>5, <2>6, <2>7, FirstSends
<1>3. CASE SendWaits(t, m, tag, held, f, a)
  <2>1. PICK r \in Record : /\ task' = [k EXCEPT ![t] = r]
                          /\ r.pc = "waiting" /\ r.call = m /\ r.tag = tag
                          /\ r.left = k[t].left
    <3>1. "waiting" \in Pcs
      BY DEF Pcs
    <3> QED BY <1>0, <1>3, <3>1, GoesIs DEF SendWaits
  <2>2. ~ WillConsume(r)
    BY <2>1 DEF WillConsume
  <2>3. /\ lock' = held /\ Write(<<CallFrame(t, m, tag)>>) /\ ~ Closed(manager)
        /\ futures' = f
    BY <1>3 DEF SendWaits, IsClosed, Closed
  <2>4. HeadTurns(held, k, t, lock', task')
    BY <1>0, <2>1, <2>2, <2>3 DEF HeadTurns
  <2> QED BY <2>3, <2>4, FirstSends
<1> QED BY <1>1, <1>2, <1>3 DEF Send

\* A task that is not to consume keeps out of the lock, or leaves it, and asks for no
\* consumer.
LEMMA FirstLeaves ==
    ASSUME IInv, ConsumesInLine, NEW t \in Task, Leaves(task, t, futures, app),
           ~ WillConsume(task[t]),
           \/ task[t].pc \notin InLock /\ lock' = lock
           \/ lock # <<>> /\ Head(lock) = t /\ lock' = Tail(lock),
           Closed(manager) => Closed(manager'),
           \/ outbox' = outbox
           \/ \E frame \in OutFrame : /\ frame.type \notin ConsumeMethods
                                      /\ outbox' = outbox \o <<frame>>
    PROVE  LinesWith(futures', lock', task', manager', outbox')
<1>1. PICK r \in Record : task' = [task EXCEPT ![t] = r] /\ r.pc \notin InLock
  BY DEF Leaves
<1>2. ~ WillConsume(r) /\ futures'.pending = futures.pending
  BY <1>1 DEF WillConsume, InLock, Leaves
<1>3. LockFits(lock, task) /\ outbox \in Seq(OutFrame)
  BY InvIs
<1>4. ASSUME broker.channel = 1
      PROVE  GrantedInLine(futures', inbox)
  BY <1>2, <1>4 DEF ConsumesInLine, LinesWith, GrantedInLine
<1>5. ASSUME AskedInLine(futures, inbox, outbox)
      PROVE  /\ AskedInLine(futures', inbox, outbox')
             /\ CallsIn(Asked(outbox')) = CallsIn(Asked(outbox))
  <2>1. CASE outbox' = outbox
    BY <1>2, <1>5, <2>1 DEF AskedInLine
  <2>2. ASSUME NEW frame \in OutFrame, frame.type \notin ConsumeMethods,
               outbox' = outbox \o <<frame>>
        PROVE  /\ AskedInLine(futures', inbox, outbox')
               /\ CallsIn(Asked(outbox')) = CallsIn(Asked(outbox))
    <3> DEFINE next == outbox \o <<frame>>
    <3>1. next = outbox \o <<frame>> /\ outbox' = next
      BY <2>2
    <3> HIDE DEF next
    <3>2. SameAsked(futures', inbox, outbox, next)
      BY <1>2, <1>3, <1>5, <2>2, <3>1, AskedNothing
    <3> QED BY <3>1, <3>2 DEF SameAsked
  <2> QED BY <2>1, <2>2
<1>6. ASSUME AskedInLine(futures, inbox, outbox),
             QueuedInLine(futures, inbox, outbox, lock, task)
      PROVE  QueuedInLine(futures', inbox, outbox', lock', task')
  <2>1. CallsIn(Asked(outbox')) = CallsIn(Asked(outbox))
    BY <1>5, <1>6
  <2>2. CASE task[t].pc \notin InLock /\ lock' = lock
    <3>1. InQueue(lock, [task EXCEPT ![t] = r]) = InQueue(lock, task)
      BY <1>2, <1>3, QueueStays
    <3>2. InQueue(lock', task') = InQueue(lock, task)
      BY <1>1, <2>2, <3>1
    <3> QED BY <1>2, <1>6, <2>1, <3>2, StillQueued
  <2>3. CASE lock # <<>> /\ Head(lock) = t /\ lock' = Tail(lock)
    <3>1. HeadTurns(lock, task, t, lock', task')
      BY <1>1, <1>2, <1>3, <2>3 DEF HeadTurns
    <3> QED BY <1>2, <1>6, <2>1, <3>1, HeadGoes
  <2> QED BY <2>2, <2>3
<1> QED BY <1>4, <1>5, <1>6 DEF LinesWith, ConsumesInLine

\* A call that begins is the last of those that are queued.
LEMMA FirstRpc ==
    ASSUME IInv, ConsumesInLine, ~ session.failed,
           NEW t \in Task, NEW m \in DOMAIN Request, NEW tag \in Calls \cup {None},
           m = "basic_cancel" => tag \in Calls,
           task[t].pc \in {"idle", "iterating"}, task[t].left > 0,
           task[t].pc = "iterating" => m = "basic_cancel",
           Rpc(t, m, tag)
    PROVE  /\ LinesWith(futures', lock', task', manager', outbox') /\ WritesOne
           /\ futures'.done = futures.done
<1> DEFINE r == [task[t] EXCEPT !.pc = "queued", !.call = m, !.tag = tag]
           k == [task EXCEPT ![t] = r]
           c == <<t, task[t].left>>
           f == PreparedFor(futures, c, m)
           a == [app EXCEPT !.fresh = None]
           l == Append(lock, t)
<1>1. /\ r \in Record /\ r.pc = "queued" /\ r.call = m /\ r.left = task[t].left
      /\ c \in Calls /\ Prepared(t, m) = f /\ task[t].pc \notin InLock
      /\ f.done = futures.done
      /\ lock = <<>> => HasLock(k, <<t>>, f, a, t, m, tag)
  <2>1. /\ c \in Calls /\ Prepared(t, m) = f /\ f.done = futures.done
        /\ lock = <<>> => HasLock(k, <<t>>, f, a, t, m, tag)
    BY RpcPrepares
  <2>2. task[t] \in Record /\ task[t].pc \notin InLock
    BY InvIs DEF InLock
  <2>3. r \in Record /\ r.pc = "queued" /\ r.call = m /\ r.left = task[t].left
    BY <2>2 DEF Record, Pcs
  <2> QED BY <2>1, <2>2, <2>3
<1>2. LockFits(lock, task) /\ FuturesTyped(futures) /\ outbox \in Seq(OutFrame)
      /\ manager \in Managers
  BY InvIs DEF CallsOwn
<1>3. ASSUME QueuedInLine(futures, inbox, outbox, lock, task)
      PROVE  QueuedInLine(f, inbox, outbox, l, k)
  <2>1. c = <<t, r.left>> /\ k = [task EXCEPT ![t] = r]
    BY <1>1
  <2> HIDE DEF r, k, c
  <2> QED BY <1>1, <1>2, <1>3, <2>1, JoinedInLine
<1>4. \A ahead, s : InLine(futures.pending, ahead, s) => InLine(f.pending, ahead, s)
  <2>1. WithLast(futures.pending, f.pending, c, m)
    <3> HIDE DEF c
    <3> QED BY <1>1, <1>2, PreparedLines
  <2> QED BY <2>1 DEF WithLast
<1>5. LinesWith(f, l, k, manager, outbox)
  <2> HIDE DEF f, l, k
  <2> QED BY <1>3, <1>4 DEF ConsumesInLine, LinesWith, GrantedInLine, AskedInLine
<1>6. CASE lock = <<>>
  <2>1. Send(t, m, tag, <<t>>, f, a) /\ l = <<t>> /\ f.done = futures.done
    BY <1>1, <1>6 DEF Rpc
  <2> HIDE DEF f, a, l, k
  <2> QED BY <1>1, <1>2, <1>5, <1>6, <2>1, FirstSend
<1>7. CASE lock # <<>>
  <2>1. /\ lock' = l /\ Goes(t, m, tag, "queued")
        /\ futures' = f /\ manager' = manager /\ outbox' = outbox
    BY <1>1, <1>7 DEF Rpc
  <2>2. task' = k
    BY <2>1 DEF Goes
  <2>3. f.done = futures.done
    BY <1>1
  <2> HIDE DEF f, a, l, k
  <2> QED BY <1>5, <2>1, <2>2, <2>3 DEF WritesOne
<1> QED BY <1>6, <1>7

---------------------------------------------------------------------------
(* What a task is given *)

LEMMA HandMeant ==
    ASSUME NEW a, AppTyped(a), AllMeant(a), NEW to \in Calls, NEW msg \in Message,
           Meant(msg, to)
    PROVE  AllMeant(Hand(a, to, msg))
<1> DEFINE b == Hand(a, to, msg)
           h == [to |-> to, message |-> msg]
<1>1. b.mailbox = a.mailbox /\ b.handed = a.handed \cup {h}
  BY HandIs
<1>2. h.to = to /\ h.message = msg
  OBVIOUS
<1> HIDE DEF b, h
<1> QED BY <1>1, <1>2 DEF AllMeant, b

LEMMA FreshMeant ==
    ASSUME NEW a, AllMeant(a), NEW b, b.handed = a.handed, b.mailbox = a.mailbox
    PROVE  AllMeant(b)
BY DEF AllMeant

LEMMA AwaitMeant ==
    ASSUME NEW k, NEW f, NEW a, CallsOwn(k, f), AppTyped(a), NEW t \in Task, Behind(k, t),
           Active(k[t]), NEW m, k[t].call = m, Await(t, m, f, a),
           AllMeant(a), GetsAreGets(f.done)
    PROVE  AllMeant(app')
<1> DEFINE c == <<t, k[t].left>>
           value == f.done[c]
<1>1. Call(t) = c /\ c \in Calls
  <2>1. k \in [Task -> Record] /\ Call(t) = c
    BY DEF Behind, Call
  <2> QED BY <2>1, CallIs
<1>2. m = "basic_get" /\ c \in DOMAIN f.done => value \in GetResults
  BY DEF CallsOwn, FuturesOwn
<1> HIDE DEF c
<1>3. CASE app' = a
  BY <1>3
<1>4. CASE app' # a
  <2>1. /\ c \in DOMAIN f.done /\ m = "basic_get" /\ value.message # None
        /\ app' = Hand(a, c, value.message)
    BY <1>1, <1>4 DEF Await
  <2>2. DOMAIN value = {"message"} /\ value.message \in Message
    BY <1>2, <2>1 DEF GetResults
  <2>3. value.message.delivery.get
    BY <2>1, <2>2 DEF GetsAreGets
  <2>4. Meant(value.message, c)
    BY <2>3 DEF Meant
  <2> HIDE DEF value
  <2>5. AllMeant(Hand(a, c, value.message))
    BY <1>1, <2>2, <2>4, HandMeant
  <2> QED BY <2>1, <2>5
<1> QED BY <1>3, <1>4

LEMMA ReturnMeant ==
    ASSUME NEW k, NEW f, NEW a, CallsOwn(k, f), AppTyped(a), NEW t \in Task, Behind(k, t),
           Active(k[t]), NEW m, k[t].call = m, NEW result, Return(t, m, result, f, a),
           AllMeant(a), GetsAreGets(f.done)
    PROVE  AllMeant(app')
<1>1. CASE Consumes(m) \/ m = "basic_get"
  BY <1>1, AwaitMeant DEF Return
<1>2. CASE ~ (Consumes(m) \/ m = "basic_get")
  BY <1>2 DEF Return
<1> QED BY <1>1, <1>2

LEMMA SendMeant ==
    ASSUME NEW k, NEW held, NEW f, NEW a, NEW t \in Task, NEW m, NEW tag,
           HasLock(k, held, f, a, t, m, tag), Send(t, m, tag, held, f, a),
           AllMeant(a), GetsAreGets(f.done)
    PROVE  AllMeant(app')
<1>1. CASE SendSkipped(t, m, held, f, a)
  BY <1>1, HasLockIs, ReturnMeant DEF SendSkipped, HasLock
<1>2. CASE SendRefused(t, m, tag, held, f, a) \/ SendWaits(t, m, tag, held, f, a)
  BY <1>2 DEF SendRefused, SendWaits
<1> QED BY <1>1, <1>2 DEF Send

LEMMA RpcMeant ==
    ASSUME IInv, AllMeant(app), GetsAreGets(futures.done),
           NEW t \in Task, NEW m \in DOMAIN Request, NEW tag \in Calls \cup {None},
           m = "basic_cancel" => tag \in Calls,
           task[t].pc \in {"idle", "iterating"}, task[t].left > 0,
           task[t].pc = "iterating" => m = "basic_cancel",
           Rpc(t, m, tag)
    PROVE  AllMeant(app')
<1> DEFINE r == [task[t] EXCEPT !.pc = "queued", !.call = m, !.tag = tag]
           k == [task EXCEPT ![t] = r]
           c == <<t, task[t].left>>
           f == PreparedFor(futures, c, m)
           a == [app EXCEPT !.fresh = None]
<1>1. /\ Prepared(t, m) = f
      /\ AppTyped(a) /\ a.handed = app.handed /\ a.mailbox = app.mailbox
      /\ f.done = futures.done
      /\ lock = <<>> => HasLock(k, <<t>>, f, a, t, m, tag)
  BY RpcPrepares
<1>2. lock = <<>> => Send(t, m, tag, <<t>>, f, a)
  BY <1>1 DEF Rpc
<1>3. lock # <<>> => app' = a
  BY DEF Rpc
<1> HIDE DEF k, f, a
<1>4. AllMeant(a) /\ GetsAreGets(f.done)
  BY <1>1, FreshMeant
<1>5. CASE lock = <<>>
  BY <1>1, <1>2, <1>4, <1>5, SendMeant
<1>6. CASE lock # <<>>
  BY <1>3, <1>4, <1>6
<1> QED BY <1>5, <1>6

\* The queue of a generator is another.
LEMMA MailMeant ==
    ASSUME NEW a, AllMeant(a), NEW c, NEW q,
           \A i \in DOMAIN q : Meant(q[i], c),
           NEW b, b.handed = a.handed, b.mailbox = With(a.mailbox, c, q)
    PROVE  AllMeant(b)
<1>1. /\ DOMAIN b.mailbox = DOMAIN a.mailbox \cup {c} /\ b.mailbox[c] = q
      /\ \A x \in DOMAIN a.mailbox \ {c} : b.mailbox[x] = a.mailbox[x]
  BY DEF With
<1> QED BY <1>1 DEF AllMeant

LEMMA TakeNextMeant ==
    ASSUME IInv, AllMeant(app), NEW t \in Task, TakeNext(t)
    PROVE  AllMeant(app')
<1> DEFINE c == Call(t)
           q == app.mailbox[c]
           rest == Tail(q)
           b == Hand(app, c, Head(q))
<1>1. MailOf(c) # <<>> /\ app' = [Hand(app, c, Head(MailOf(c))) EXCEPT
                                      !.mailbox = With(@, c, Tail(MailOf(c)))]
  BY DEF TakeNext
<1>2. c \in DOMAIN app.mailbox /\ q # <<>> /\ MailOf(c) = q
  BY <1>1 DEF MailOf
<1>3. app' = [b EXCEPT !.mailbox = With(@, c, rest)]
  BY <1>1, <1>2
<1>4. c \in Calls
  BY InvIs, CallIs DEF Call
<1>5. q \in Seq(Message)
  BY <1>2, InvIs, AppIs
<1>6. Head(q) \in Message /\ rest \in Seq(Message)
  BY <1>2, <1>5, TailElements
<1>7. AppTyped(b) /\ b.mailbox = app.mailbox
  BY <1>4, <1>6, InvIs, HandIs
<1>8. /\ \A i \in DOMAIN q : Meant(q[i], c)
      /\ 1 \in DOMAIN q /\ Head(q) = q[1]
      /\ \A i \in DOMAIN rest : i + 1 \in DOMAIN q /\ rest[i] = q[i + 1]
  <2>1. \A i \in DOMAIN q : Meant(q[i], c)
    BY <1>2 DEF AllMeant
  <2> HIDE DEF q
  <2> QED BY <1>2, <1>5, <2>1, TailIs
<1> HIDE DEF c, q, rest, b
<1>9. app'.handed = b.handed /\ app'.mailbox = With(app.mailbox, c, rest)
  BY <1>3, <1>4, <1>6, <1>7, MailboxIs
<1>10. AllMeant(b)
  BY <1>4, <1>6, <1>8, InvIs, HandMeant DEF b
<1>11. \A i \in DOMAIN rest : Meant(rest[i], c)
  BY <1>8
<1> QED BY <1>7, <1>9, <1>10, <1>11, MailMeant

---------------------------------------------------------------------------
(* The turn of a task *)

FirstTurn ==
    /\ LinesWith(futures', lock', task', manager', outbox') /\ WritesOne
    /\ AllMeant(app') /\ futures'.done = futures.done
    /\ session'.transport = session.transport

LEMMA FirstLocalStep ==
    ASSUME IInv, FirstInv, FirstTurn, FramesUnchanged, ~ session.failed
    PROVE  FirstInv'
<1>1. /\ consumers' = consumers /\ message' = message /\ inbox' = inbox /\ broker' = broker
      /\ workload' = workload /\ session'.transport = session.transport
  BY DEF FramesUnchanged, FirstTurn
<1>2. ConsumesInLine'
  BY <1>1 DEF FirstTurn, ConsumesInLine, LinesWith
<1>3. FirstCloses'
  <2>1. ASSUME Carries(outbox', "Channel.CloseOk")
        PROVE  Carries(outbox, "Channel.CloseOk")
    <3>1. CASE outbox' = outbox
      BY <2>1, <3>1
    <3>2. ASSUME NEW frame \in OutFrame, frame.type # "Channel.CloseOk",
                 outbox' = outbox \o <<frame>>
          PROVE  Carries(outbox, "Channel.CloseOk")
      <4>1. outbox \in Seq(OutFrame)
        BY InvIs
      <4> DEFINE next == outbox \o <<frame>>
      <4>2. \A i \in DOMAIN next : next[i] = frame \/ (i \in DOMAIN outbox /\ next[i] = outbox[i])
        BY <4>1, OneMoreIs
      <4>3. Carries(next, "Channel.CloseOk")
        BY <2>1, <3>2
      <4> HIDE DEF next
      <4> QED BY <3>2, <4>2, <4>3 DEF Carries
    <3> QED BY <3>1, <3>2 DEF FirstTurn, WritesOne
  <2>2. FirstCloses
    BY DEF FirstInv
  <2> QED BY <1>1, <2>1, <2>2 DEF FirstCloses
<1>4. session'.transport = "open" \/ outbox' = <<>>
  BY <1>1 DEF FirstTurn, WritesOne, FirstInv
<1>5. GetsAreGets(futures'.done) /\ AllMeant(app')
  BY DEF FirstTurn, FirstInv
<1>6. OwnCallbacks' /\ FirstIsOver'
  BY <1>1 DEF FirstInv, OwnCallbacks, FirstIsOver, NoneOfFirst
<1> QED BY <1>1, <1>2, <1>3, <1>4, <1>5, <1>6 DEF FirstInv

---------------------------------------------------------------------------
(* The turns *)

LEMMA AcquireFirst ==
    ASSUME IInv, FirstInv, ~ session.failed, NEW t \in Task, Acquire(t)
    PROVE  FirstTurn
<1>1. /\ task[t].pc = "queued" /\ Head(lock) = t /\ session' = session
      /\ Send(t, task[t].call, task[t].tag, lock, futures, app)
  BY DEF Acquire
<1>2. lock # <<>>
  BY <1>1, InvIs DEF LockFits
<1>3. HasLock(task, lock, futures, app, t, task[t].call, task[t].tag)
  BY <1>1, <1>2, InvIs, BehindItself DEF HasLock
<1>4. AllMeant(app) /\ GetsAreGets(futures.done) /\ ConsumesInLine
  BY DEF FirstInv
<1>5. /\ LinesWith(futures', lock', task', manager', outbox') /\ WritesOne
      /\ futures'.done = futures.done
  BY <1>1, <1>3, <1>4, InvIs, FirstSend DEF ConsumesInLine
<1>6. AllMeant(app')
  BY <1>1, <1>3, <1>4, SendMeant
<1> QED BY <1>1, <1>5, <1>6 DEF FirstTurn

LEMMA RpcFirst ==
    ASSUME IInv, FirstInv, ~ session.failed,
           NEW t \in Task, NEW m \in DOMAIN Request, NEW tag \in Calls \cup {None},
           m = "basic_cancel" => tag \in Calls,
           task[t].pc \in {"idle", "iterating"}, task[t].left > 0,
           task[t].pc = "iterating" => m = "basic_cancel",
           Rpc(t, m, tag), session' = session
    PROVE  FirstTurn
<1>1. AllMeant(app) /\ GetsAreGets(futures.done) /\ ConsumesInLine
  BY DEF FirstInv
<1>2. /\ LinesWith(futures', lock', task', manager', outbox') /\ WritesOne
      /\ futures'.done = futures.done
  BY <1>1, FirstRpc
<1>3. AllMeant(app')
  BY <1>1, RpcMeant
<1> QED BY <1>2, <1>3 DEF FirstTurn

LEMMA BeginFirst ==
    ASSUME IInv, FirstInv, ~ session.failed, NEW t \in Task, Begin(t)
    PROVE  FirstTurn
<1>1. task[t].pc = "idle" /\ task[t].left > 0 /\ session' = session
  BY DEF Begin
<1>2. PICK m \in workload.methods :
         IF m = "basic_cancel" THEN \E tag \in Cancellable : Rpc(t, m, tag)
         ELSE Rpc(t, m, None)
  BY DEF Begin
<1>3. m \in DOMAIN Request
  BY ConsumersAssumption DEF IInv, BrokerTyped, IsWorkload
<1>4. CASE m = "basic_cancel"
  <2>1. PICK tag \in Cancellable : Rpc(t, m, tag)
    BY <1>2, <1>4
  <2>2. tag \in Calls
    BY DEF Cancellable, IInv, ClientTyped
  <2> QED BY <1>1, <1>3, <2>1, <2>2, RpcFirst
<1>5. CASE m # "basic_cancel"
  BY <1>1, <1>2, <1>3, <1>5, RpcFirst
<1> QED BY <1>4, <1>5

\* A task that leaves the lock or stays outside, and is given what is meant for it.
LEMMA TurnFirst ==
    ASSUME IInv, FirstInv, NEW t \in Task, Leaves(task, t, futures, app),
           task[t].pc # "queued",
           \/ task[t].pc \notin InLock /\ lock' = lock
           \/ lock # <<>> /\ Head(lock) = t /\ lock' = Tail(lock),
           ~ session.failed, Closed(manager) => Closed(manager'), AllMeant(app'),
           \/ outbox' = outbox
           \/ \E frame \in OutFrame : /\ frame.type \notin ConsumeMethods
                                      /\ frame.type # "Channel.CloseOk"
                                      /\ session.transport = "open"
                                      /\ outbox' = outbox \o <<frame>>,
           session'.transport = session.transport
    PROVE  FirstTurn
<1>1. ConsumesInLine
  BY DEF FirstInv
<1>2. ~ WillConsume(task[t])
  BY DEF WillConsume
<1>3. \/ outbox' = outbox
      \/ \E frame \in OutFrame : /\ frame.type \notin ConsumeMethods
                                 /\ outbox' = outbox \o <<frame>>
  OBVIOUS
<1>4. LinesWith(futures', lock', task', manager', outbox')
  BY <1>1, <1>2, <1>3, FirstLeaves
<1>5. WritesOne
  BY DEF WritesOne
<1> QED BY <1>4, <1>5 DEF FirstTurn, Leaves

LEMMA LeaveFirst ==
    ASSUME IInv, FirstInv, ~ session.failed, NEW t \in Task, Leave(t)
    PROVE  FirstTurn
<1>1. task[t].pc = "iterating" /\ session' = session
  BY DEF Leave
<1>2. RecordOK(task[t]) /\ Active(task[t]) /\ task[t].pc \notin InLock
  BY <1>1, InvIs DEF Active, InLock
<1>3. task[t].left > 0 /\ task[t].tag \in Calls /\ task[t].call = "consume"
  BY <1>1, <1>2 DEF RecordOK
<1>4. CASE manager.exception # None \/ IsClosed
  <2> DEFINE result == IF manager.exception = None THEN "answered" ELSE manager.exception
  <2>1. /\ End(t, "consume", result) /\ futures' = futures /\ app' = app
        /\ lock' = lock /\ manager' = manager /\ outbox' = outbox
    BY <1>4 DEF Leave
  <2>2. result \in Results
    BY StateIs DEF Results
  <2>3. "consume" \in DOMAIN Request
    BY DEF Request
  <2> HIDE DEF result
  <2>4. Leaves(task, t, futures, app)
    BY <1>2, <2>1, <2>2, <2>3, BehindItself, EndLeaves
  <2>5. AllMeant(app')
    BY <2>1 DEF FirstInv
  <2> QED BY <1>1, <1>2, <2>1, <2>4, <2>5, TurnFirst
<1>5. CASE ~ (manager.exception # None \/ IsClosed)
  <2>1. Rpc(t, "basic_cancel", task[t].tag)
    BY <1>5 DEF Leave
  <2>2. "basic_cancel" \in DOMAIN Request
    BY DEF Request
  <2> QED BY <1>1, <1>3, <2>1, <2>2, RpcFirst
<1> QED BY <1>4, <1>5

LEMMA FutureFirst ==
    ASSUME IInv, FirstInv, ~ session.failed, NEW t \in Task, FutureIsDone(t)
    PROVE  FirstTurn
<1>1. /\ task[t].pc = "future" /\ Await(t, task[t].call, futures, app)
      /\ manager' = manager /\ lock' = lock /\ session' = session /\ outbox' = outbox
  BY DEF FutureIsDone
<1>2. Active(task[t]) /\ task[t].pc \notin InLock
  BY <1>1 DEF Active, InLock
<1>3. AllMeant(app')
  BY <1>1, <1>2, BehindItself, AwaitMeant DEF FirstInv
<1> QED BY <1>1, <1>2, <1>3, FutureLeaves, TurnFirst

LEMMA PollsFirst ==
    ASSUME IInv, FirstInv, ~ session.failed, NEW t \in Task, PollAnswered(t) \/ PollRaises(t)
    PROVE  FirstTurn
<1>1. /\ Waits(t) /\ manager' = SM!AfterPoll(manager, t) /\ lock' = Tail(lock)
      /\ session' = session /\ outbox' = outbox
  BY DEF PollAnswered, PollRaises
<1>2. Closed(manager) => Closed(manager')
  BY <1>1, WaitsIs DEF Closed
<1>3. Leaves(task, t, futures, app)
  BY AnsweredLeaves, RaisesLeaves
<1>4. AllMeant(app')
  <2>1. CASE PollAnswered(t)
    <3>1. Return(t, task[t].call, "answered", futures, app)
      BY <2>1 DEF PollAnswered
    <3> QED BY <1>1, <3>1, WaitsIs, BehindItself, ReturnMeant DEF FirstInv
  <2>2. CASE PollRaises(t)
    BY <2>2 DEF PollRaises, FirstInv
  <2> QED BY <2>1, <2>2
<1>5. task[t].pc # "queued" /\ lock # <<>> /\ Head(lock) = t
  BY <1>1, WaitsIs DEF Waits
<1> QED BY <1>1, <1>2, <1>3, <1>4, <1>5, TurnFirst

LEMMA PollChannelClosedFirst ==
    ASSUME IInv, FirstInv, ~ session.failed, NEW t \in Task, PollChannelClosed(t)
    PROVE  FirstTurn
<1> DEFINE m == SM!AfterPoll(manager, t)
           opening == Enter(m, "OPENING_CHANNEL")
           frame == [type |-> "Channel.Open"]
<1>1. /\ Waits(t) /\ lock' = Tail(lock) /\ session' = session /\ app' = app
      /\ \/ manager' = SM!Refuse(m, STE) /\ outbox' = outbox
         \/ manager' = Enter(opening, "CHANNEL_OPEN_SENT") /\ Write(<<frame>>)
  BY DEF PollChannelClosed
<1>2. m \in Managers /\ m.state = manager.state
  BY <1>1, WaitsIs
<1> HIDE DEF m
<1>3. {"OPENING_CHANNEL", "CHANNEL_OPEN_SENT"} \subseteq ClientState
  BY StatesAre
<1>4. SM!Refuse(m, STE).state = m.state /\ opening \in Managers
  BY <1>2, <1>3, EnterKeepsType
<1>5. Closed(m) => Closed(opening)
  BY <1>2, <1>3, ClosedStays
<1> HIDE DEF opening
<1>6. Closed(opening) => Closed(Enter(opening, "CHANNEL_OPEN_SENT"))
  BY <1>3, <1>4, ClosedStays
<1>7. Closed(manager) => Closed(manager')
  BY <1>1, <1>2, <1>4, <1>5, <1>6 DEF Closed
<1>8. frame \in OutFrame /\ frame.type \notin ConsumeMethods /\ frame.type # "Channel.CloseOk"
  BY DEF OutFrame, ConsumeMethods
<1> HIDE DEF frame
<1>9. \/ outbox' = outbox
      \/ session.transport = "open" /\ outbox' = outbox \o <<frame>>
  BY <1>1 DEF Write
<1>10. AllMeant(app')
  BY <1>1 DEF FirstInv
<1>11. task[t].pc # "queued" /\ lock # <<>> /\ Head(lock) = t
  BY <1>1, WaitsIs DEF Waits
<1> QED BY <1>1, <1>7, <1>8, <1>9, <1>10, <1>11, ClosedLeaves, TurnFirst

LEMMA RaiseLastErrorFirst ==
    ASSUME IInv, FirstInv, ~ session.failed, NEW t \in Task, RaiseLastError(t)
    PROVE  FirstTurn
<1>1. /\ task[t].pc = "raising" /\ lock' = lock /\ manager' = manager
      /\ outbox' = outbox /\ app' = app
  BY DEF RaiseLastError
<1>2. AllMeant(app') /\ task[t].pc \notin InLock
  BY <1>1 DEF FirstInv, InLock
<1> QED BY <1>1, <1>2, LastErrorLeaves, RaiseLastErrorTurn, TurnFirst

\* Neither the lock nor a call is touched.
LEMMA AsideFirst ==
    ASSUME IInv, FirstInv, lock' = lock, task' = task, futures' = futures,
           Closed(manager) => Closed(manager'), AllMeant(app'),
           \/ outbox' = outbox
           \/ \E frame \in OutFrame : /\ frame.type \notin ConsumeMethods
                                      /\ frame.type # "Channel.CloseOk"
                                      /\ session.transport = "open"
                                      /\ outbox' = outbox \o <<frame>>,
           session'.transport = session.transport, ~ session.failed
    PROVE  FirstTurn
<1>1. ASSUME AskedInLine(futures, inbox, outbox)
      PROVE  SameAsked(futures, inbox, outbox, outbox')
  <2>1. CASE outbox' = outbox
    BY <1>1, <2>1 DEF SameAsked
  <2>2. ASSUME NEW frame \in OutFrame, frame.type \notin ConsumeMethods,
               outbox' = outbox \o <<frame>>
        PROVE  SameAsked(futures, inbox, outbox, outbox')
    BY <1>1, <2>2, InvIs, AskedNothing
  <2> QED BY <2>1, <2>2
<1>2. ASSUME AskedInLine(futures, inbox, outbox),
             QueuedInLine(futures, inbox, outbox, lock, task)
      PROVE  QueuedInLine(futures, inbox, outbox', lock, task)
  <2>1. CallsIn(Asked(outbox')) = CallsIn(Asked(outbox))
    BY <1>1, <1>2 DEF SameAsked
  <2> QED BY <1>2, <2>1, StillQueued
<1>3. LinesWith(futures', lock', task', manager', outbox')
  BY <1>1, <1>2 DEF LinesWith, FirstInv, ConsumesInLine, SameAsked
<1>4. WritesOne
  BY DEF WritesOne
<1> QED BY <1>3, <1>4 DEF FirstTurn

LEMMA TakeNextFirst ==
    ASSUME IInv, FirstInv, ~ session.failed, NEW t \in Task, TakeNext(t)
    PROVE  FirstTurn
<1>1. AllMeant(app')
  BY TakeNextMeant DEF FirstInv
<1> QED BY <1>1, AsideFirst DEF TakeNext

LEMMA RunReadyFirst ==
    ASSUME IInv, FirstInv, ~ session.failed, RunReady
    PROVE  FirstTurn
<1>1. /\ manager.ready # <<>> /\ manager' = SM!RunCallbacks(manager)
      /\ lock' = lock /\ task' = task /\ futures' = futures /\ session' = session
      /\ app' = app /\ outbox' = outbox
  BY DEF RunReady
<1>2. Closed(manager) => Closed(manager')
  BY <1>1, InvIs, RunCallbacksKeepsType DEF Closed
<1>3. AllMeant(app')
  BY <1>1 DEF FirstInv
<1> QED BY <1>1, <1>2, <1>3, AsideFirst

LEMMA SettleFirst ==
    ASSUME IInv, FirstInv, ~ session.failed, Settle
    PROVE  FirstTurn
<1>1. PICK msg \in app.held, how \in workload.settlements :
         /\ Write(<<[type |-> how.type, tag |-> msg.delivery.id[2],
                     multiple |-> how.multiple, requeue |-> how.requeue]>>)
         /\ manager' = Enter(manager, SettledState[how.type])
         /\ app' = [app EXCEPT !.held = @ \ {msg}, !.fresh = None,
                               !.settled = @ \cup {msg.delivery.id}]
  BY DEF Settle
<1> DEFINE frame == [type |-> how.type, tag |-> msg.delivery.id[2],
                     multiple |-> how.multiple, requeue |-> how.requeue]
           state == SettledState[how.type]
<1>2. how \in Settlement
  BY ConsumersAssumption DEF IInv, BrokerTyped, IsWorkload
<1>3. msg \in Message /\ msg.delivery.id \in Nat \X Nat
  <2>1. msg \in Message
    BY InvIs, AppIs
  <2> QED BY <2>1 DEF Message, Delivery
<1>4. /\ frame \in OutFrame /\ frame.type \notin ConsumeMethods
      /\ frame.type # "Channel.CloseOk"
  BY <1>2, <1>3 DEF OutFrame, Settlement, SettledState, ConsumeMethods
<1>5. Write(<<frame>>)
  BY <1>1
<1> HIDE DEF frame
<1>6. \/ outbox' = outbox
      \/ session.transport = "open" /\ outbox' = outbox \o <<frame>>
  BY <1>5 DEF Write
<1>7. Closed(manager) => Closed(manager')
  <2>1. state \in {"BASIC_ACK_SENT", "BASIC_NACK_SENT", "BASIC_REJECT_SENT"}
    BY <1>2 DEF Settlement, SettledState
  <2>2. state \in ClientState /\ state # "CONNECTING"
    BY <2>1, StatesAre
  <2>3. manager' = Enter(manager, state)
    BY <1>1
  <2> HIDE DEF state
  <2> QED BY <2>2, <2>3, InvIs, ClosedStays
<1>8. AllMeant(app')
  <2>1. app'.handed = app.handed /\ app'.mailbox = app.mailbox
    <3>1. app = AppOf(app.held, app.fresh, app.handed, app.settled, app.mailbox)
      BY InvIs, AppIs
    <3> QED BY <1>1, <3>1 DEF AppOf
  <2> QED BY <2>1, FreshMeant DEF FirstInv
<1>9. lock' = lock /\ task' = task /\ futures' = futures
  BY DEF Settle
<1> QED BY <1>4, <1>6, <1>7, <1>8, <1>9, SettleTurn, AsideFirst

LEMMA FirstLocal ==
    ASSUME IInv, FirstInv, ~ session.failed,
           \/ Application \/ (RunReady /\ FramesUnchanged) \/ \E t \in Task : Proceeds(t)
    PROVE  FirstInv'
<1>1. FramesUnchanged
  BY DEF Application, Proceeds
<1>2. CASE Application
  <2>1. FirstTurn
    BY <1>2, SettleFirst, BeginFirst, TakeNextFirst, LeaveFirst DEF Application
  <2> QED BY <1>1, <2>1, FirstLocalStep
<1>3. CASE RunReady /\ FramesUnchanged
  BY <1>3, RunReadyFirst, FirstLocalStep
<1>4. ASSUME NEW t \in Task, Proceeds(t)
      PROVE  FirstInv'
  <2>1. FirstTurn
    BY <1>4, AcquireFirst, FutureFirst, PollsFirst, PollChannelClosedFirst,
       RaiseLastErrorFirst DEF Proceeds
  <2> QED BY <1>1, <2>1, FirstLocalStep
<1> QED BY <1>2, <1>3, <1>4

---------------------------------------------------------------------------
(* The client takes a frame *)

\* The frames next grant what those of in do.
GrantedAlike(p, in, next) ==
    InLine(p, {}, Granted(next)) /\ CallsIn(Granted(next)) = CallsIn(Granted(in))

LEMMA TakenGrants ==
    ASSUME NEW in \in Seq(InFrame), in # <<>>, Head(in).type # "ConsumeOk",
           NEW p, InLine(p, {}, Granted(in))
    PROVE  GrantedAlike(p, in, Tail(in))
<1> DEFINE s == Granted(in)
<1>1. s \in Seq(Calls \cup {None}) /\ s # <<>> /\ s[1] = None /\ Granted(Tail(in)) = Tail(s)
  BY GrantedIs, GrantedTail DEF GrantedOf
<1> HIDE DEF s
<1>2. InLine(p, {}, s)
  BY DEF s
<1>3. InLine(p, {} \cup ({s[1]} \ {None}), Tail(s))
  BY <1>1, <1>2, LineAdvances
<1>4. CallsIn(s) = CallsIn(Tail(s)) \cup ({s[1]} \ {None})
  BY <1>1, TailLine
<1>5. {} \cup ({s[1]} \ {None}) = {}
  BY <1>1
<1> QED BY <1>1, <1>3, <1>4, <1>5 DEF GrantedAlike, s

\* The calls that ask, or will, are behind those that are granted.
LEMMA BehindGranted ==
    ASSUME NEW f, NEW g, g.pending = f.pending, NEW in, NEW next,
           GrantedAlike(f.pending, in, next), NEW out, NEW l, NEW k
    PROVE  /\ GrantedInLine(g, next)
           /\ AskedInLine(f, in, out) => AskedInLine(g, next, out)
           /\ QueuedInLine(f, in, out, l, k) => QueuedInLine(g, next, out, l, k)
BY DEF GrantedAlike, GrantedInLine, AskedInLine, QueuedInLine

LEMMA TakenLines ==
    ASSUME IInv, ConsumesInLine, NEW type, type # "ConsumeOk", Takes(type),
           broker' = broker, lock' = lock, futures'.pending = futures.pending,
           session'.transport = session.transport,
           InQueue(lock, task') = InQueue(lock, task),
           Closed(manager) => Closed(manager'),
           \/ outbox' = outbox
           \/ \E frame \in OutFrame : /\ frame.type \notin ConsumeMethods
                                      /\ outbox' = outbox \o <<frame>>
    PROVE  ConsumesInLine'
<1>1. /\ inbox \in Seq(InFrame) /\ inbox # <<>> /\ inbox' = Tail(inbox)
      /\ Head(inbox).type # "ConsumeOk" /\ outbox \in Seq(OutFrame)
  BY InvIs, TakesIs
<1> SUFFICES ASSUME broker.channel = 1
             PROVE  /\ GrantedInLine(futures', inbox')
                    /\ broker.phase = "open" /\ session.transport = "open" =>
                          /\ AskedInLine(futures', inbox', outbox')
                          /\ ~ Closed(manager') =>
                                QueuedInLine(futures', inbox', outbox', lock, task')
  BY DEF ConsumesInLine, LinesWith
<1>2. /\ GrantedInLine(futures, inbox)
      /\ broker.phase = "open" /\ session.transport = "open" =>
            /\ AskedInLine(futures, inbox, outbox)
            /\ ~ Closed(manager) => QueuedInLine(futures, inbox, outbox, lock, task)
  BY DEF ConsumesInLine, LinesWith
<1>3. GrantedAlike(futures.pending, inbox, inbox')
  BY <1>1, <1>2, TakenGrants DEF GrantedInLine
<1>4. GrantedInLine(futures', inbox')
  BY <1>3, BehindGranted
<1>5. ASSUME AskedInLine(futures, inbox, outbox)
      PROVE  SameAsked(futures', inbox', outbox, outbox')
  <2>1. AskedInLine(futures', inbox', outbox)
    BY <1>3, <1>5, BehindGranted
  <2>2. CASE outbox' = outbox
    BY <2>1, <2>2 DEF SameAsked
  <2>3. ASSUME NEW frame \in OutFrame, frame.type \notin ConsumeMethods,
               outbox' = outbox \o <<frame>>
        PROVE  SameAsked(futures', inbox', outbox, outbox')
    <3>1. PICK in, next, g : in = inbox' /\ next = outbox' /\ g = futures'
      OBVIOUS
    <3>2. AskedInLine(g, in, outbox) /\ next = outbox \o <<frame>>
      BY <2>1, <2>3, <3>1
    <3>3. SameAsked(g, in, outbox, next)
      BY <1>1, <2>3, <3>2, AskedNothing
    <3> QED BY <3>1, <3>3
  <2> QED BY <2>2, <2>3
<1>6. ASSUME AskedInLine(futures, inbox, outbox),
             QueuedInLine(futures, inbox, outbox, lock, task)
      PROVE  QueuedInLine(futures', inbox', outbox', lock, task')
  <2>1. QueuedInLine(futures', inbox', outbox, lock, task)
    BY <1>3, <1>6, BehindGranted
  <2>2. CallsIn(Asked(outbox')) = CallsIn(Asked(outbox))
    BY <1>5, <1>6 DEF SameAsked
  <2> QED BY <2>1, <2>2, StillQueued
<1> QED BY <1>2, <1>4, <1>5, <1>6 DEF SameAsked

\* Nothing is in the way of the frames that follow a channel that was closed.
LEMMA TakenCloses ==
    ASSUME IInv, FirstCloses, NEW type, Takes(type), broker' = broker,
           session'.transport = session.transport,
           outbox' = outbox \/ type = "Channel.Close"
    PROVE  FirstCloses'
<1> SUFFICES ASSUME broker.channel = 1, session.transport = "open"
             PROVE  /\ broker.phase = "open" => /\ ~ Carries(inbox', "Channel.Close")
                                                /\ ~ Carries(outbox', "Channel.CloseOk")
                    /\ broker.phase = "closing" =>
                          \/ inbox' = <<>>
                          \/ /\ \A i \in DOMAIN inbox' :
                                   inbox'[i].type = "Channel.Close" => i = Len(inbox')
                             /\ ~ Carries(outbox', "Channel.CloseOk")
                    /\ broker.phase = "closed" => inbox' = <<>>
  BY DEF FirstCloses
<1>1. /\ broker.phase = "open" => /\ ~ Carries(inbox, "Channel.Close")
                                  /\ ~ Carries(outbox, "Channel.CloseOk")
      /\ broker.phase = "closing" =>
            \/ inbox = <<>>
            \/ /\ \A i \in DOMAIN inbox : inbox[i].type = "Channel.Close" => i = Len(inbox)
               /\ ~ Carries(outbox, "Channel.CloseOk")
      /\ broker.phase = "closed" => inbox = <<>>
  BY DEF FirstCloses
<1>2. inbox \in Seq(InFrame) /\ inbox # <<>> /\ Head(inbox).type = type /\ inbox' = Tail(inbox)
  BY InvIs, TakesIs
<1>3. /\ 1 \in DOMAIN inbox /\ inbox[1].type = type
      /\ Len(inbox) \in Nat /\ Len(inbox') = Len(inbox) - 1 /\ DOMAIN inbox' = 1..Len(inbox')
      /\ \A i \in DOMAIN inbox' : i + 1 \in DOMAIN inbox /\ inbox'[i] = inbox[i + 1]
  <2>1. 1 \in DOMAIN inbox /\ Head(inbox) = inbox[1]
    BY <1>2, TailIs
  <2>2. /\ Len(inbox) \in Nat /\ Len(inbox') = Len(inbox) - 1
        /\ DOMAIN inbox' = 1..Len(inbox')
    BY <1>2
  <2>3. \A i \in DOMAIN inbox' : i + 1 \in DOMAIN inbox /\ inbox'[i] = inbox[i + 1]
    BY <1>2, TailIs
  <2> QED BY <1>2, <2>1, <2>2, <2>3
<1>4. CASE broker.phase = "open"
  <2>1. ~ Carries(inbox', "Channel.Close")
    BY <1>1, <1>3, <1>4 DEF Carries
  <2>2. type # "Channel.Close"
    BY <1>1, <1>3, <1>4 DEF Carries
  <2> QED BY <1>1, <1>4, <2>1, <2>2
<1>5. CASE broker.phase = "closing"
  <2>1. /\ \A i \in DOMAIN inbox : inbox[i].type = "Channel.Close" => i = Len(inbox)
        /\ ~ Carries(outbox, "Channel.CloseOk")
    BY <1>1, <1>2, <1>5
  <2>2. CASE type = "Channel.Close"
    <3>1. Len(inbox) = 1
      BY <1>3, <2>1, <2>2
    <3>2. inbox' = <<>>
      BY <1>2, <3>1
    <3> QED BY <1>5, <3>2
  <2>3. CASE type # "Channel.Close"
    <3>1. ASSUME NEW i \in DOMAIN inbox', inbox'[i].type = "Channel.Close"
          PROVE  i = Len(inbox')
      <4>1. i + 1 = Len(inbox) /\ i \in Nat
        BY <1>3, <2>1, <3>1
      <4> QED BY <1>3, <4>1
    <3> QED BY <1>5, <2>1, <2>3, <3>1
  <2> QED BY <2>2, <2>3
<1>6. CASE broker.phase = "closed"
  BY <1>1, <1>2, <1>6
<1> QED BY <1>4, <1>5, <1>6

LEMMA TakesFirst ==
    ASSUME IInv, FirstInv, ~ session.failed, NEW type, Takes(type),
           broker' = broker, workload' = workload,
           session'.transport = session.transport, ConsumesInLine',
           AllMeant(app'), GetsAreGets(futures'.done), OwnCallbacks', FirstIsOver',
           outbox' = outbox \/ type = "Channel.Close",
           session.transport # "open" => outbox' = outbox
    PROVE  FirstInv'
<1>1. FirstCloses'
  BY TakenCloses DEF FirstInv
<1> QED BY <1>1 DEF FirstInv

\* A frame is taken, and the message is as before, or None, or has begun to be another.
LEMMA OverTaken ==
    ASSUME IInv, FirstIsOver, NEW type, Takes(type), broker' = broker, workload' = workload,
           \/ message' = message \/ message' = None
           \/ message'.delivery.id[1] = 1 => broker.channel = 1
    PROVE  FirstIsOver'
<1> SUFFICES ASSUME broker.channel # 1
             PROVE  NoneOfFirst(message', inbox')
  BY DEF FirstIsOver, NoneOfFirst
<1>1. NoneOfFirst(message, inbox)
  BY DEF FirstIsOver
<1>2. inbox # <<>> /\ inbox' = Tail(inbox) /\ inbox \in Seq(InFrame)
  BY InvIs, TakesIs
<1>3. \A i \in DOMAIN inbox' : i + 1 \in DOMAIN inbox /\ inbox'[i] = inbox[i + 1]
  BY <1>2, TailIs
<1>4. \A i \in DOMAIN inbox' : Begins(inbox'[i]) => inbox'[i].delivery.id[1] # 1
  BY <1>1, <1>3 DEF NoneOfFirst
<1>5. message' # None /\ Partial(workload, LastTaken(message')) => message'.delivery.id[1] # 1
  BY <1>1 DEF NoneOfFirst
<1> QED BY <1>4, <1>5 DEF NoneOfFirst

LEMMA FailedFirst ==
    ASSUME session'.failed
    PROVE  FirstInv'
BY DEF FirstInv

LEMMA EnterStaysClosed ==
    ASSUME IInv, NEW s \in ClientState, s # "CONNECTING", manager' = Enter(manager, s)
    PROVE  Closed(manager) => Closed(manager')
BY InvIs, ClosedStays

LEMMA ResultFirst ==
    ASSUME IInv, FirstInv, ~ session.failed, NEW type, type # "ConsumeOk", Takes(type),
           broker' = broker, workload' = workload, lock' = lock,
           session'.transport = session.transport, Closed(manager) => Closed(manager'),
           futures'.pending = futures.pending, GetsAreGets(futures'.done), AllMeant(app'),
           InQueue(lock, task') = InQueue(lock, task), outbox' = outbox,
           message' = message \/ message' = None
              \/ (message'.delivery.id[1] = 1 => broker.channel = 1),
           OwnCallbacks'
    PROVE  FirstInv'
<1>1. FirstIsOver'
  BY OverTaken DEF FirstInv
<1>2. ConsumesInLine
  BY DEF FirstInv
<1>3. ConsumesInLine'
  BY <1>2, TakenLines
<1> QED BY <1>1, <1>3, TakesFirst

LEMMA SilentFirst ==
    ASSUME IInv, FirstInv, ~ session.failed, NEW type, type # "ConsumeOk", Takes(type),
           broker' = broker, workload' = workload, lock' = lock,
           session'.transport = session.transport, Closed(manager) => Closed(manager'),
           futures' = futures, app' = app, task' = task, outbox' = outbox,
           message' = message \/ message' = None
              \/ (message'.delivery.id[1] = 1 => broker.channel = 1),
           OwnCallbacks'
    PROVE  FirstInv'
<1>1. /\ AllMeant(app') /\ GetsAreGets(futures'.done) /\ futures'.pending = futures.pending
      /\ InQueue(lock, task') = InQueue(lock, task)
  BY DEF FirstInv
<1> QED BY <1>1, ResultFirst

LEMMA ReceiveDeclareOkFirst ==
    ASSUME IInv, FirstInv, ~ session.failed, ReceiveDeclareOk,
           workload' = workload, lock' = lock, broker' = broker
    PROVE  FirstInv'
<1>1. /\ Takes("DeclareOk") /\ Receives("QUEUE_DECLAREOK_RECEIVED")
      /\ task' = task /\ futures' = futures /\ message' = message /\ app' = app
      /\ outbox' = outbox /\ consumers' = consumers
  BY DEF ReceiveDeclareOk
<1>2. "QUEUE_DECLAREOK_RECEIVED" \in ClientState
  BY StatesAre
<1>3. session'.transport = session.transport
  BY <1>1, <1>2, ReceivesIs
<1>4. manager' = Enter(manager, "QUEUE_DECLAREOK_RECEIVED")
  BY <1>1 DEF Receives
<1>5. Closed(manager) => Closed(manager')
  BY <1>2, <1>4, EnterStaysClosed
<1>6. OwnCallbacks'
  BY <1>1 DEF FirstInv, OwnCallbacks
<1> QED BY <1>1, <1>3, <1>5, <1>6, SilentFirst

LEMMA ReceiveCancelOkFirst ==
    ASSUME IInv, FirstInv, ~ session.failed, ReceiveCancelOk,
           workload' = workload, lock' = lock, broker' = broker
    PROVE  FirstInv'
<1> DEFINE tag == Head(inbox).tag
<1>1. /\ Takes("CancelOk") /\ consumers' = Without(consumers, {tag})
      /\ IF tag \in DOMAIN consumers THEN Receives("BASIC_CANCELOK_RECEIVED")
         ELSE Fails(TRUE) /\ manager' = manager
      /\ task' = task /\ futures' = futures /\ message' = message /\ app' = app
      /\ outbox' = outbox
  BY DEF ReceiveCancelOk
<1>2. OwnCallbacks'
  <2>1. /\ DOMAIN consumers' \subseteq DOMAIN consumers
        /\ \A x \in DOMAIN consumers' : consumers'[x] = consumers[x]
    BY <1>1 DEF Without, Restrict
  <2> QED BY <2>1 DEF FirstInv, OwnCallbacks
<1>3. CASE tag \in DOMAIN consumers
  <2>1. "BASIC_CANCELOK_RECEIVED" \in ClientState
    BY StatesAre
  <2>2. Receives("BASIC_CANCELOK_RECEIVED")
    BY <1>1, <1>3
  <2>3. session'.transport = session.transport
    BY <2>1, <2>2, ReceivesIs
  <2>4. manager' = Enter(manager, "BASIC_CANCELOK_RECEIVED")
    BY <2>2 DEF Receives
  <2>5. Closed(manager) => Closed(manager')
    BY <2>1, <2>4, EnterStaysClosed
  <2> HIDE DEF tag
  <2> QED BY <1>1, <1>2, <2>3, <2>5, SilentFirst
<1>4. CASE tag \notin DOMAIN consumers
  <2>1. session'.failed
    BY <1>1, <1>4, InvIs, FailsIs
  <2> QED BY <2>1, FailedFirst
<1> QED BY <1>3, <1>4

LEMMA ReceiveCancelFirst ==
    ASSUME IInv, FirstInv, ~ session.failed, ReceiveCancel \/ Disconnected,
           workload' = workload, lock' = lock, broker' = broker
    PROVE  FirstInv'
<1>1. PICK type \in {"Cancel", "Disconnected"} : Takes(type)
  BY DEF ReceiveCancel, Disconnected
<1>2. /\ task' = task /\ futures' = futures /\ consumers' = consumers
      /\ message' = message /\ session' = session /\ app' = app /\ outbox' = outbox
  BY DEF ReceiveCancel, Disconnected
<1>3. Closed(manager) => Closed(manager')
  <2>1. \A exc \in Error :
           SM!SetState(manager, "EXCEPTION", exc, STE).state \in {manager.state, "EXCEPTION"}
    <3>1. "EXCEPTION" \in ClientState /\ STE \in Error
      BY StatesAre DEF Error
    <3> QED BY <3>1, InvIs, SetStateKeepsType
  <2>2. \/ manager' = manager
        \/ \E exc \in Error : manager' = SM!SetState(manager, "EXCEPTION", exc, STE)
    BY DEF ReceiveCancel, Disconnected, Error
  <2> QED BY <2>1, <2>2 DEF Closed, ClosedClientStates
<1>4. OwnCallbacks'
  BY <1>2 DEF FirstInv, OwnCallbacks
<1>5. type # "ConsumeOk"
  OBVIOUS
<1> QED BY <1>1, <1>2, <1>3, <1>4, <1>5, SilentFirst

LEMMA ReceiveMessageFirst ==
    ASSUME IInv, FirstInv, ~ session.failed, NEW type \in {"Deliver", "GetOk"},
           NEW state \in {"BASIC_DELIVER_RECEIVED", "BASIC_GETOK_RECEIVED"},
           ReceiveMessage(type, state), workload' = workload, lock' = lock, broker' = broker
    PROVE  FirstInv'
<1> DEFINE g == Head(inbox)
           next == [delivery |-> g.delivery, header |-> None, bodies |-> <<>>]
<1>1. /\ Takes(type) /\ Receives(state) /\ message' \in {message, next}
      /\ task' = task /\ futures' = futures /\ consumers' = consumers /\ app' = app
      /\ outbox' = outbox
  BY DEF ReceiveMessage
<1>2. state \in ClientState /\ state # "CONNECTING"
  BY StatesAre
<1>3. session'.transport = session.transport
  BY <1>1, <1>2, ReceivesIs
<1>4. Closed(manager) => Closed(manager')
  BY <1>1, <1>2, EnterStaysClosed DEF Receives
<1>5. OwnCallbacks'
  BY <1>1 DEF FirstInv, OwnCallbacks
<1>6. next.delivery.id[1] = 1 => broker.channel = 1
  <2>1. 1 \in DOMAIN inbox /\ inbox[1] = g
    BY <1>1, InvIs, TakesIs, TailIs
  <2>2. Begins(inbox[1])
    BY <1>1, <2>1, TakesIs DEF Begins
  <2>3. broker.channel # 1 => g.delivery.id[1] # 1
    BY <2>1, <2>2 DEF FirstInv, FirstIsOver, NoneOfFirst
  <2> QED BY <2>3
<1> HIDE DEF next
<1>7. \/ message' = message \/ message' = None
      \/ message'.delivery.id[1] = 1 => broker.channel = 1
  BY <1>1, <1>6
<1>8. type # "ConsumeOk"
  OBVIOUS
<1> QED BY <1>1, <1>3, <1>4, <1>5, <1>7, <1>8, SilentFirst

\* What is known of the message that a frame is a part of.
LEMMA PartOfOpen ==
    ASSUME IInv, FirstInv, ~ session.failed, NEW type, Takes(type), type \in {"Header", "Body"}
    PROVE  /\ IsOwn(message) /\ Follows(workload, LastTaken(message), Head(inbox))
           /\ Partial(workload, LastTaken(message)) /\ message \in Message
           /\ message.delivery.id[1] = 1 => broker.channel = 1
<1> DEFINE open == session.transport = "open"
           g == Head(inbox)
<1>1. inbox \in Seq(InFrame) /\ inbox # <<>> /\ g.type = type
  BY InvIs, TakesIs
<1>2. IsOwn(message) /\ InOrder(workload, message, inbox, open)
  BY DEF IInv, ContentOK
<1>3. g.type # "Disconnected"
  BY <1>1
<1> HIDE DEF open
<1>4. Follows(workload, LastTaken(message), g)
  BY <1>1, <1>2, <1>3, FirstFollows
<1>5. Partial(workload, LastTaken(message))
  BY <1>1, <1>4 DEF Follows
<1>6. message \in Message
  BY <1>2, <1>5, ConsumersAre, LastTakenIs
<1>7. message # None
  BY <1>6, MessageIs
<1>8. message.delivery.id[1] = 1 => broker.channel = 1
  BY <1>5, <1>7 DEF FirstInv, FirstIsOver, NoneOfFirst
<1> QED BY <1>2, <1>4, <1>5, <1>6, <1>8

LEMMA ReceiveHeaderFirst ==
    ASSUME IInv, FirstInv, ~ session.failed, ReceiveHeader,
           workload' = workload, lock' = lock, broker' = broker
    PROVE  FirstInv'
<1> DEFINE g == Head(inbox)
           state == "CONTENT_HEADER_RECEIVED"
           next == [message EXCEPT !.header = g.of]
<1>1. /\ Takes("Header") /\ Receives(state) /\ message' \in {message, next}
      /\ task' = task /\ futures' = futures /\ consumers' = consumers /\ app' = app
      /\ outbox' = outbox
  BY DEF ReceiveHeader
<1>2. state \in ClientState /\ state # "CONNECTING"
  BY StatesAre
<1>3. session'.transport = session.transport
  BY <1>1, <1>2, ReceivesIs
<1>4. Closed(manager) => Closed(manager')
  BY <1>1, <1>2, EnterStaysClosed DEF Receives
<1>5. OwnCallbacks'
  BY <1>1 DEF FirstInv, OwnCallbacks
<1>6. next.delivery.id[1] = 1 => broker.channel = 1
  <2>1. message \in Message /\ (message.delivery.id[1] = 1 => broker.channel = 1)
    BY <1>1, PartOfOpen
  <2>2. next.delivery = message.delivery
    BY <2>1 DEF Message
  <2> QED BY <2>1, <2>2
<1> HIDE DEF next
<1>7. \/ message' = message \/ message' = None
      \/ message'.delivery.id[1] = 1 => broker.channel = 1
  BY <1>1, <1>6
<1> QED BY <1>1, <1>3, <1>4, <1>5, <1>7, SilentFirst

LEMMA GetsWith ==
    ASSUME NEW d, GetsAreGets(d), NEW c, NEW r,
           DOMAIN r = {"message"} /\ r.message # None => r.message.delivery.get
    PROVE  GetsAreGets(With(d, c, r))
BY DEF GetsAreGets, With

LEMMA ReceiveGetEmptyFirst ==
    ASSUME IInv, FirstInv, ~ session.failed, ReceiveGetEmpty,
           workload' = workload, lock' = lock, broker' = broker
    PROVE  FirstInv'
<1> DEFINE refused == SM!Refuses(manager, "BASIC_GETEMPTY_RECEIVED", None)
           r == [message |-> None]
<1>1. /\ Takes("GetEmpty") /\ manager' = Enter(manager, "BASIC_GETEMPTY_RECEIVED")
      /\ Fails(refused \/ ~ GetIsAwaited)
      /\ futures' = IF refused \/ ~ GetIsAwaited THEN futures ELSE GetResult(None)
      /\ task' = task /\ consumers' = consumers /\ message' = message /\ app' = app
      /\ outbox' = outbox
  BY DEF ReceiveGetEmpty
<1>2. "BASIC_GETEMPTY_RECEIVED" \in ClientState
  BY StatesAre
<1>3. Closed(manager) => Closed(manager')
  BY <1>1, <1>2, EnterStaysClosed
<1>4. /\ session'.transport = session.transport
      /\ session'.failed <=> session.failed \/ (refused \/ ~ GetIsAwaited)
  <2>1. (refused \/ ~ GetIsAwaited) \in BOOLEAN
    OBVIOUS
  <2> HIDE DEF refused
  <2> QED BY <1>1, <2>1, InvIs, FailsIs
<1>5. CASE refused \/ ~ GetIsAwaited
  BY <1>4, <1>5, FailedFirst
<1>6. CASE ~ (refused \/ ~ GetIsAwaited)
  <2>1. futures.get # None /\ futures.get \notin DOMAIN futures.done
    BY <1>6 DEF GetIsAwaited
  <2>2. futures' = [futures EXCEPT !.done = With(@, futures.get, [message |-> None])]
    BY <1>1, <1>6 DEF GetResult
  <2>3. CallsOwn(task, futures)
    BY InvIs
  <2>4. /\ futures'.pending = futures.pending
        /\ futures'.done = With(futures.done, futures.get, r)
    BY <2>1, <2>2, <2>3, OwnResult
  <2>5. r.message = None
    OBVIOUS
  <2> HIDE DEF r, refused
  <2>6. GetsAreGets(futures'.done)
    BY <2>4, <2>5, GetsWith DEF FirstInv
  <2>7. OwnCallbacks' /\ AllMeant(app')
    BY <1>1 DEF FirstInv, OwnCallbacks
  <2>8. InQueue(lock, task') = InQueue(lock, task)
    BY <1>1
  <2> QED BY <1>1, <1>3, <1>4, <2>4, <2>6, <2>7, <2>8, ResultFirst
<1> QED BY <1>5, <1>6

LEMMA ReceiveChannelCloseFirst ==
    ASSUME IInv, FirstInv, ~ session.failed, ReceiveChannelClose,
           workload' = workload, lock' = lock, broker' = broker
    PROVE  FirstInv'
<1> DEFINE state == "CHANNEL_CLOSE_RECEIVED"
           entered == Enter(manager, state)
           frame == [type |-> "Channel.CloseOk"]
<1>1. /\ Takes("Channel.Close") /\ "Channel.Close" # "ConsumeOk"
      /\ task' = task /\ futures' = futures /\ consumers' = consumers
      /\ message' = message /\ app' = app
  BY DEF ReceiveChannelClose
<1>2. {state, "CHANNEL_CLOSEOK_SENT"} \subseteq ClientState
  BY StatesAre
<1>3. CASE SM!Refuses(manager, state, None)
  <2>1. Receives(state)
    BY <1>3 DEF ReceiveChannelClose
  <2>2. session'.failed
    BY <1>2, <1>3, <2>1, ReceivesIs
  <2> QED BY <2>2, FailedFirst
<1>4. CASE ~ SM!Refuses(manager, state, None)
  <2>1. /\ manager' = Enter(entered, "CHANNEL_CLOSEOK_SENT") /\ Write(<<frame>>)
        /\ session' = [session EXCEPT !.lastError = "NotFound", !.channelOpen = FALSE]
    BY <1>4 DEF ReceiveChannelClose
  <2>2. session'.transport = session.transport
    BY <2>1, InvIs DEF Sessions
  <2>3. Closed(manager) => Closed(manager')
    <3>1. entered \in Managers /\ (Closed(manager) => Closed(entered))
      BY <1>2, InvIs, EnterKeepsType, ClosedStays
    <3> HIDE DEF entered
    <3>2. Closed(entered) => Closed(Enter(entered, "CHANNEL_CLOSEOK_SENT"))
      BY <1>2, <3>1, ClosedStays
    <3> QED BY <2>1, <3>1, <3>2
  <2>4. frame \in OutFrame /\ frame.type \notin ConsumeMethods
    BY DEF OutFrame, ConsumeMethods
  <2> HIDE DEF frame
  <2>5. \/ outbox' = outbox
        \/ \E x \in OutFrame : x.type \notin ConsumeMethods /\ outbox' = outbox \o <<x>>
    BY <2>1, <2>4 DEF Write
  <2>6. session.transport # "open" => outbox' = outbox
    BY <2>1 DEF Write
  <2>7. /\ ConsumesInLine /\ AllMeant(app') /\ GetsAreGets(futures'.done) /\ OwnCallbacks'
        /\ futures'.pending = futures.pending /\ InQueue(lock, task') = InQueue(lock, task)
    BY <1>1 DEF FirstInv, OwnCallbacks
  <2>8. FirstIsOver'
    BY <1>1, OverTaken DEF FirstInv
  <2>9. ConsumesInLine'
    BY <1>1, <2>2, <2>3, <2>5, <2>7, TakenLines
  <2> QED BY <1>1, <2>2, <2>6, <2>7, <2>8, <2>9, TakesFirst
<1> QED BY <1>3, <1>4

LEMMA ReceiveChannelOpenOkFirst ==
    ASSUME IInv, FirstInv, ~ session.failed, ReceiveChannelOpenOk,
           workload' = workload, lock' = lock, broker' = broker
    PROVE  FirstInv'
<1>1. /\ Takes("Channel.OpenOk") /\ manager' = Enter(manager, "CHANNEL_OPENOK_RECEIVED")
      /\ session'.transport = session.transport
      /\ task' = [t \in Task |-> IF task[t].pc = "opening"
                                 THEN [task[t] EXCEPT !.pc = "raising"] ELSE task[t]]
      /\ futures' = futures /\ consumers' = consumers /\ message' = message
      /\ app' = app /\ outbox' = outbox
  BY InvIs DEF ReceiveChannelOpenOk, Sessions
<1>2. "CHANNEL_OPENOK_RECEIVED" \in ClientState
  BY StatesAre
<1>3. Closed(manager) => Closed(manager')
  BY <1>1, <1>2, EnterStaysClosed
<1>4. InQueue(lock, task') = InQueue(lock, task)
  <2>1. task \in [Task -> Record] /\ \A i \in DOMAIN lock : lock[i] \in Task
    BY InvIs DEF LockFits
  <2>2. ASSUME NEW t \in Task
        PROVE  QueuedOf(t, task') = QueuedOf(t, task)
    <3>1. CASE task[t].pc = "opening"
      <4>1. task'[t] = [task[t] EXCEPT !.pc = "raising"]
        BY <1>1, <3>1
      <4>2. task'[t].pc = "raising"
        BY <2>1, <4>1 DEF Record
      <4> QED BY <3>1, <4>2 DEF QueuedOf, WillConsume
    <3>2. CASE task[t].pc # "opening"
      <4>1. task'[t] = task[t]
        BY <1>1, <3>2
      <4> QED BY <4>1 DEF QueuedOf
    <3> QED BY <3>1, <3>2
  <2> QED BY <2>1, <2>2 DEF InQueue, QueuedOf
<1>5. OwnCallbacks' /\ AllMeant(app') /\ GetsAreGets(futures'.done)
  BY <1>1 DEF FirstInv, OwnCallbacks
<1> QED BY <1>1, <1>3, <1>4, <1>5, ResultFirst

\* The calls that are pending when the first of them is not any more.
Rest(p, q) == {q[n].call : n \in DOMAIN q} = {p[n].call : n \in DOMAIN p} \ {p[1].call}

LEMMA RestIs ==
    ASSUME NEW P, NEW p \in Seq(P), p # <<>>, Distinct(p)
    PROVE  Rest(p, Tail(p))
<1> DEFINE q == Tail(p)
<1>1. /\ 1 \in DOMAIN p /\ DOMAIN p \subseteq Nat /\ DOMAIN q \subseteq Nat
      /\ \A i \in DOMAIN q : i + 1 \in DOMAIN p /\ q[i] = p[i + 1]
      /\ \A i \in DOMAIN p : i = 1 \/ i - 1 \in DOMAIN q
      /\ \A i \in DOMAIN q : i >= 1
  <2>1. \A i \in DOMAIN q : i >= 1
    OBVIOUS
  <2> QED BY <2>1, TailIs
<1> HIDE DEF q
<1>2. ASSUME NEW n \in DOMAIN q
      PROVE  q[n].call \in {p[m].call : m \in DOMAIN p} \ {p[1].call}
  <2>1. n + 1 \in DOMAIN p /\ q[n] = p[n + 1] /\ n + 1 # 1
    BY <1>1
  <2>2. p[n + 1].call # p[1].call
    BY <1>1, <2>1 DEF Distinct
  <2> QED BY <2>1, <2>2
<1>3. ASSUME NEW m \in DOMAIN p, p[m].call # p[1].call
      PROVE  p[m].call \in {q[n].call : n \in DOMAIN q}
  <2>1. m # 1 /\ m \in Nat
    BY <1>1, <1>3
  <2>2. m - 1 \in DOMAIN q
    BY <1>1, <2>1
  <2>3. q[m - 1] = p[(m - 1) + 1] /\ (m - 1) + 1 = m
    BY <1>1, <2>1, <2>2
  <2> QED BY <2>2, <2>3
<1>4. Rest(p, q)
  BY <1>2, <1>3 DEF Rest
<1> QED BY <1>4 DEF q

LEMMA ConsumeServed ==
    ASSUME NEW f, f.pending \in Seq(Awaiting), Distinct(f.pending),
           NEW in \in Seq(InFrame), in # <<>>, Head(in).type = "ConsumeOk",
           GrantedInLine(f, in), NEW g, g.pending = Tail(f.pending),
           NEW out, NEW l, NEW k
    PROVE  /\ Head(f.pending).call = Head(in).tag
           /\ GrantedInLine(g, Tail(in))
           /\ AskedInLine(f, in, out) => AskedInLine(g, Tail(in), out)
           /\ AskedInLine(f, in, out) /\ QueuedInLine(f, in, out, l, k)
                 => QueuedInLine(g, Tail(in), out, l, k)
<1> DEFINE p == f.pending
           s == Granted(in)
           c == p[1].call
           a == Asked(out)
           w == InQueue(l, k)
<1>1. /\ s \in Seq(Calls \cup {None}) /\ s # <<>> /\ s[1] = Head(in).tag
      /\ Granted(Tail(in)) = Tail(s)
  BY GrantedIs, GrantedTail DEF GrantedOf
<1>2. Head(in).tag \in Calls /\ Head(in).tag # None
  <2>1. Head(in) \in InFrame
    BY TailElements
  <2> QED BY <2>1, FrameIs, MessageIs
<1>3. InLine(p, {}, s)
  BY DEF GrantedInLine
<1>4. p \in Seq(Awaiting) /\ Distinct(p) /\ g.pending = Tail(p)
  OBVIOUS
<1>5. /\ AskedInLine(f, in, out) => InLine(p, CallsIn(s), a)
      /\ QueuedInLine(f, in, out, l, k) =>
            /\ InLine(p, CallsIn(s) \cup CallsIn(a), w)
            /\ {p[n].call : n \in DOMAIN p} = CallsIn(s) \cup CallsIn(a) \cup CallsIn(w)
  BY DEF AskedInLine, QueuedInLine
<1> HIDE DEF p, s, a, w
<1>6. p # <<>> /\ Head(p) = p[1] /\ c = s[1]
  BY <1>1, <1>2, <1>3, <1>4, FirstInLine
<1>7. CallsIn(s) = CallsIn(Tail(s)) \cup {c}
  <2>1. CallsIn(s) = CallsIn(Tail(s)) \cup ({s[1]} \ {None})
    BY <1>1, TailLine
  <2> QED BY <1>1, <1>2, <1>6, <2>1
<1> HIDE DEF c
<1>8. /\ InLine(Tail(p), {}, Tail(s)) /\ c \notin CallsIn(Tail(s))
  <2>1. InLine(p, {} \cup ({s[1]} \ {None}), Tail(s))
    BY <1>1, <1>3, LineAdvances
  <2>2. {} \cup ({s[1]} \ {None}) = {c}
    BY <1>1, <1>2, <1>6
  <2>3. InLine(p, {c}, Tail(s))
    BY <2>1, <2>2
  <2>4. InLine(Tail(p), {c} \ {c}, Tail(s)) /\ c \notin CallsIn(Tail(s))
    BY <1>4, <1>6, <2>3, LineServed DEF c
  <2>5. {c} \ {c} = {}
    OBVIOUS
  <2> QED BY <2>4, <2>5
<1>9. ASSUME InLine(p, CallsIn(s), a)
      PROVE  InLine(Tail(p), CallsIn(Tail(s)), a) /\ c \notin CallsIn(a)
  <2>1. c \in CallsIn(s) /\ CallsIn(s) \ {c} = CallsIn(Tail(s))
    BY <1>7, <1>8
  <2>2. InLine(Tail(p), CallsIn(s) \ {c}, a) /\ c \notin CallsIn(a)
    BY <1>4, <1>6, <1>9, <2>1, LineServed DEF c
  <2> QED BY <2>1, <2>2
<1>10. ASSUME InLine(p, CallsIn(s) \cup CallsIn(a), w), c \notin CallsIn(a),
              {p[n].call : n \in DOMAIN p} = CallsIn(s) \cup CallsIn(a) \cup CallsIn(w)
       PROVE  /\ InLine(Tail(p), CallsIn(Tail(s)) \cup CallsIn(a), w)
              /\ {Tail(p)[n].call : n \in DOMAIN Tail(p)}
                    = CallsIn(Tail(s)) \cup CallsIn(a) \cup CallsIn(w)
  <2> DEFINE y == CallsIn(s) \cup CallsIn(a)
  <2>1. c \in y /\ y \ {c} = CallsIn(Tail(s)) \cup CallsIn(a)
    BY <1>7, <1>8, <1>10
  <2>2. InLine(p, y, w)
    BY <1>10
  <2>3. Rest(p, Tail(p))
    BY <1>4, <1>6, RestIs
  <2>4. {p[n].call : n \in DOMAIN p} = y \cup CallsIn(w)
    BY <1>10
  <2> HIDE DEF y
  <2>5. InLine(Tail(p), y \ {c}, w) /\ c \notin CallsIn(w)
    BY <1>4, <1>6, <2>1, <2>2, LineServed DEF c
  <2>6. {Tail(p)[n].call : n \in DOMAIN Tail(p)} = (y \ {c}) \cup CallsIn(w)
    BY <2>3, <2>4, <2>5 DEF Rest, c
  <2> QED BY <2>1, <2>5, <2>6
<1>11. Head(f.pending).call = Head(in).tag
  BY <1>1, <1>6 DEF p, c
<1>12. GrantedInLine(g, Tail(in))
  BY <1>1, <1>4, <1>8 DEF GrantedInLine
<1>13. AskedInLine(f, in, out) => AskedInLine(g, Tail(in), out)
  <2>1. InLine(p, CallsIn(s), a) => InLine(Tail(p), CallsIn(Tail(s)), a)
    BY <1>9
  <2> QED BY <1>1, <1>4, <1>5, <2>1 DEF AskedInLine, a
<1>14. AskedInLine(f, in, out) /\ QueuedInLine(f, in, out, l, k)
          => QueuedInLine(g, Tail(in), out, l, k)
  <2> SUFFICES ASSUME AskedInLine(f, in, out), QueuedInLine(f, in, out, l, k)
               PROVE  QueuedInLine(g, Tail(in), out, l, k)
    OBVIOUS
  <2>1. /\ InLine(Tail(p), CallsIn(Tail(s)) \cup CallsIn(a), w)
        /\ {Tail(p)[n].call : n \in DOMAIN Tail(p)}
              = CallsIn(Tail(s)) \cup CallsIn(a) \cup CallsIn(w)
    BY <1>5, <1>9, <1>10
  <2> QED BY <1>1, <1>4, <2>1 DEF QueuedInLine, a, w
<1> QED BY <1>11, <1>12, <1>13, <1>14

LEMMA ReceiveConsumeOkFirst ==
    ASSUME IInv, FirstInv, ~ session.failed, ReceiveConsumeOk,
           workload' = workload, lock' = lock, broker' = broker
    PROVE  FirstInv'
<1> DEFINE by == Head(futures.pending)
           tag == Head(inbox).tag
           r == [tag |-> tag]
<1>1. /\ Takes("ConsumeOk") /\ Receives("BASIC_CONSUMEOK_RECEIVED")
      /\ futures' = [futures EXCEPT !.pending = Tail(@),
                                    !.done = With(@, by.call, [tag |-> Head(inbox).tag])]
      /\ consumers' = With(consumers, tag, by)
      /\ task' = task /\ message' = message /\ app' = app /\ outbox' = outbox
  BY DEF ReceiveConsumeOk
<1>2. /\ inbox # <<>> /\ Head(inbox).type = "ConsumeOk" /\ inbox' = Tail(inbox)
      /\ tag \in Calls /\ inbox \in Seq(InFrame) /\ outbox \in Seq(OutFrame)
  BY <1>1, InvIs, TakesIs, FrameIs
<1>3. /\ futures.pending \in Seq(Awaiting) /\ Distinct(futures.pending)
      /\ futures'.pending = Tail(futures.pending)
      /\ futures'.done = With(futures.done, by.call, r)
  <2>1. futures.pending \in Seq(Awaiting)
    BY ConsumersAre, FutureIs
  <2>2. Distinct(futures.pending)
    BY InvIs DEF CallsOwn, FuturesOwn, Distinct
  <2>3. /\ futures'.pending = Tail(futures.pending)
        /\ futures'.done = With(futures.done, by.call, r)
    BY <1>1, ConsumersAre, FutureIs
  <2> QED BY <2>1, <2>2, <2>3
<1>4. "BASIC_CONSUMEOK_RECEIVED" \in ClientState
  BY StatesAre
<1>5. session'.transport = session.transport
  BY <1>1, <1>4, ReceivesIs
<1>6. Closed(manager) => Closed(manager')
  BY <1>1, <1>4, EnterStaysClosed DEF Receives
<1>7. GetsAreGets(futures'.done) /\ AllMeant(app')
  <2>1. DOMAIN r # {"message"}
    OBVIOUS
  <2> HIDE DEF r, by
  <2> QED BY <1>1, <1>3, <2>1, GetsWith DEF FirstInv
<1>8. ASSUME broker.channel = 1
      PROVE  /\ by.call = tag /\ GrantedInLine(futures', inbox')
             /\ broker.phase = "open" /\ session.transport = "open" =>
                   /\ AskedInLine(futures', inbox', outbox)
                   /\ ~ Closed(manager) => QueuedInLine(futures', inbox', outbox, lock, task)
  <2>1. /\ GrantedInLine(futures, inbox)
        /\ broker.phase = "open" /\ session.transport = "open" =>
              /\ AskedInLine(futures, inbox, outbox)
              /\ ~ Closed(manager) => QueuedInLine(futures, inbox, outbox, lock, task)
    BY <1>8 DEF FirstInv, ConsumesInLine, LinesWith
  <2>2. PICK g : g = futures'
    OBVIOUS
  <2>3. /\ Head(futures.pending).call = Head(inbox).tag
        /\ GrantedInLine(g, Tail(inbox))
        /\ AskedInLine(futures, inbox, outbox) => AskedInLine(g, Tail(inbox), outbox)
        /\ AskedInLine(futures, inbox, outbox)
              /\ QueuedInLine(futures, inbox, outbox, lock, task)
              => QueuedInLine(g, Tail(inbox), outbox, lock, task)
    BY <1>2, <1>3, <2>1, <2>2, ConsumeServed
  <2> QED BY <1>2, <2>1, <2>2, <2>3
<1>9. ConsumesInLine'
  BY <1>1, <1>5, <1>6, <1>8 DEF ConsumesInLine, LinesWith
<1>10. OwnCallbacks'
  <2> HIDE DEF by, tag
  <2>1. /\ DOMAIN consumers' = DOMAIN consumers \cup {tag}
        /\ \A x \in DOMAIN consumers' : consumers'[x] = IF x = tag THEN by ELSE consumers[x]
    BY <1>1 DEF With
  <2> QED BY <1>8, <2>1 DEF FirstInv, OwnCallbacks
<1>11. FirstIsOver'
  BY <1>1, OverTaken DEF FirstInv
<1> QED BY <1>1, <1>5, <1>7, <1>9, <1>10, <1>11, TakesFirst

\* The queue of a generator gets one more message.
LEMMA MailJoins ==
    ASSUME NEW a, AppTyped(a), AllMeant(a), NEW c \in Calls, NEW msg \in Message,
           Meant(msg, c), NEW q, q = IF c \in DOMAIN a.mailbox THEN a.mailbox[c] ELSE <<>>,
           NEW b, b = [a EXCEPT !.mailbox = With(@, c, Append(q, msg))]
    PROVE  AllMeant(b)
<1> DEFINE all == Append(q, msg)
<1>1. q \in Seq(Message) /\ all \in Seq(Message) /\ all = q \o <<msg>>
  BY AppIs
<1>2. \A i \in DOMAIN q : Meant(q[i], c)
  BY DEF AllMeant
<1>3. \A i \in DOMAIN all : Meant(all[i], c)
  BY <1>1, <1>2, OneMoreIs
<1> DEFINE box == With(a.mailbox, c, all)
<1>4. b = [a EXCEPT !.mailbox = box]
  OBVIOUS
<1> HIDE DEF all, box
<1>5. b.handed = a.handed /\ b.mailbox = box
  <2>1. a = AppOf(a.held, a.fresh, a.handed, a.settled, a.mailbox)
    BY AppIs
  <2>2. b = AppOf(a.held, a.fresh, a.handed, a.settled, box)
    BY <1>4, <2>1 DEF AppOf
  <2> QED BY <2>2 DEF AppOf
<1> QED BY <1>3, <1>5, MailMeant DEF box

LEMMA ReceiveBodyFirst ==
    ASSUME IInv, FirstInv, ~ session.failed, ReceiveBody,
           workload' = workload, lock' = lock, broker' = broker
    PROVE  FirstInv'
<1> DEFINE g == Head(inbox)
           state == "CONTENT_BODY_RECEIVED"
           next == [message EXCEPT !.bodies = Append(@, g)]
           refused == SM!Refuses(manager, state, None)
           tag == next.delivery.for
           c == consumers[tag].call
<1>1. /\ Takes("Body") /\ "Body" # "ConsumeOk"
      /\ task' = task /\ consumers' = consumers /\ outbox' = outbox
      /\ IF refused
         THEN Receives(state) /\ message' = message /\ futures' = futures /\ app' = app
         ELSE IF IsComplete(next)
         THEN /\ manager' = Enter(Enter(manager, state), "MESSAGE_ASSEMBLED")
              /\ Complete(next)
         ELSE /\ Receives(state)
              /\ message' = next /\ futures' = futures /\ app' = app
  BY DEF ReceiveBody
<1>2. {state, "MESSAGE_ASSEMBLED"} \subseteq ClientState
  BY StatesAre
<1>3. /\ OwnCallbacks' /\ AllMeant(app) /\ GetsAreGets(futures.done)
      /\ InQueue(lock, task') = InQueue(lock, task)
  BY <1>1 DEF FirstInv, OwnCallbacks
<1>4. /\ message \in Message /\ (message.delivery.id[1] = 1 => broker.channel = 1)
      /\ g \in BodyFrame
  BY <1>1, PartOfOpen, TakesIs, FrameIs
<1>5. next \in Message /\ next.delivery = message.delivery
  <2> DEFINE all == Append(message.bodies, g)
  <2>1. all \in Seq(BodyFrame) /\ next = [message EXCEPT !.bodies = all]
    BY <1>4 DEF Message
  <2> HIDE DEF all, next
  <2> QED BY <1>4, <2>1 DEF Message
<1>6. tag \in Calls
  BY <1>5 DEF Message, Delivery
<1>7. CASE refused \/ ~ IsComplete(next)
  <2>1. Receives(state) /\ message' \in {message, next} /\ futures' = futures /\ app' = app
    BY <1>1, <1>7
  <2>2. session'.transport = session.transport
    BY <1>2, <2>1, ReceivesIs
  <2>3. Closed(manager) => Closed(manager')
    BY <1>2, <2>1, EnterStaysClosed DEF Receives
  <2>4. message'.delivery.id[1] = 1 => broker.channel = 1
    BY <1>4, <1>5, <2>1
  <2> HIDE DEF next, refused, state
  <2> QED BY <1>1, <1>3, <2>1, <2>2, <2>3, <2>4, SilentFirst
<1>8. CASE ~ (refused \/ ~ IsComplete(next))
  <2>1. manager' = Enter(Enter(manager, state), "MESSAGE_ASSEMBLED") /\ Complete(next)
    BY <1>1, <1>8
  <2>2. Closed(manager) => Closed(manager')
    <3> DEFINE m == Enter(manager, state)
    <3>1. m \in Managers /\ (Closed(manager) => Closed(m))
      BY <1>2, InvIs, EnterKeepsType, ClosedStays
    <3>2. manager' = Enter(m, "MESSAGE_ASSEMBLED")
      BY <2>1
    <3> HIDE DEF m
    <3> QED BY <1>2, <3>1, <3>2, ClosedStays
  <2> HIDE DEF next, refused, state
  <2>3. CASE next.delivery.get
    <3> DEFINE r == [message |-> next]
    <3>1. /\ Fails(~ GetIsAwaited)
          /\ futures' = IF GetIsAwaited THEN GetResult(next) ELSE futures
          /\ message' = IF futures.get = None THEN next ELSE None
          /\ app' = app
      BY <2>1, <2>3 DEF Complete
    <3>2. session'.transport = session.transport /\ (~ GetIsAwaited => session'.failed)
      <4>1. (~ GetIsAwaited) \in BOOLEAN
        OBVIOUS
      <4> QED BY <3>1, <4>1, InvIs, FailsIs
    <3>3. CASE GetIsAwaited
      <4>1. futures.get # None /\ futures.get \notin DOMAIN futures.done
        BY <3>3 DEF GetIsAwaited
      <4>2. futures' = [futures EXCEPT !.done = With(@, futures.get, [message |-> next])]
        BY <3>1, <3>3 DEF GetResult
      <4>3. CallsOwn(task, futures)
        BY InvIs
      <4>4. /\ futures'.pending = futures.pending
            /\ futures'.done = With(futures.done, futures.get, r)
        BY <1>5, <4>1, <4>2, <4>3, OwnResult
      <4>5. r.message = next
        OBVIOUS
      <4> HIDE DEF r
      <4>6. GetsAreGets(futures'.done)
        BY <1>3, <2>3, <4>4, <4>5, GetsWith
      <4>7. message' = None /\ AllMeant(app')
        BY <1>3, <3>1, <4>1
      <4> QED BY <1>1, <1>3, <2>2, <3>2, <4>4, <4>6, <4>7, ResultFirst
    <3> QED BY <3>2, <3>3, FailedFirst
  <2>4. CASE ~ next.delivery.get
    <3>1. /\ Fails(tag \notin DOMAIN consumers)
          /\ app' = IF tag \notin DOMAIN consumers THEN app
                    ELSE IF consumers[tag].method = "consume"
                    THEN [app EXCEPT !.mailbox = With(@, c, Append(MailOf(c), next))]
                    ELSE Hand(app, c, next)
          /\ message' = IF tag \notin DOMAIN consumers THEN next ELSE None
          /\ futures' = futures
      BY <2>1, <2>4 DEF Complete
    <3>2. session'.transport = session.transport
          /\ (tag \notin DOMAIN consumers => session'.failed)
      <4>1. (tag \notin DOMAIN consumers) \in BOOLEAN
        OBVIOUS
      <4> HIDE DEF tag
      <4> QED BY <3>1, <4>1, InvIs, FailsIs
    <3>3. CASE tag \in DOMAIN consumers
      <4>1. c \in Calls
        BY <3>3, ConsumersAre DEF Awaiting
      <4>2. Meant(next, c)
        <5> SUFFICES ASSUME next.delivery.id[1] = 1
                     PROVE  c = next.delivery.for
          BY DEF Meant
        <5>1. broker.channel = 1
          BY <1>4, <1>5
        <5> QED BY <3>3, <5>1 DEF FirstInv, OwnCallbacks
      <4>3. AllMeant(app')
        <5>1. CASE consumers[tag].method = "consume"
          <6> DEFINE q == MailOf(c)
          <6>1. q = IF c \in DOMAIN app.mailbox THEN app.mailbox[c] ELSE <<>>
            BY DEF MailOf
          <6>2. app' = [app EXCEPT !.mailbox = With(@, c, Append(q, next))]
            BY <3>1, <3>3, <5>1
          <6>3. AppTyped(app)
            BY InvIs
          <6> HIDE DEF c, q
          <6> QED BY <1>3, <1>5, <4>1, <4>2, <6>1, <6>2, <6>3, MailJoins
        <5>2. CASE consumers[tag].method # "consume"
          <6>1. app' = Hand(app, c, next) /\ AppTyped(app)
            BY <3>1, <3>3, <5>2, InvIs
          <6> HIDE DEF c
          <6> QED BY <1>3, <1>5, <4>1, <4>2, <6>1, HandMeant
        <5> QED BY <5>1, <5>2
      <4>4. message' = None /\ futures'.pending = futures.pending /\ GetsAreGets(futures'.done)
        BY <1>3, <3>1, <3>3
      <4> HIDE DEF tag, c
      <4> QED BY <1>1, <1>3, <2>2, <3>2, <4>3, <4>4, ResultFirst
    <3> QED BY <3>2, <3>3, FailedFirst
  <2> QED BY <2>3, <2>4
<1> QED BY <1>7, <1>8

LEMMA ReceiveFirst ==
    ASSUME IInv, FirstInv, ~ session.failed, Receive
    PROVE  FirstInv'
<1>1. workload' = workload /\ lock' = lock /\ broker' = broker
  BY DEF Receive
<1>2. CASE ReceiveMessage("Deliver", "BASIC_DELIVER_RECEIVED")
  BY <1>1, <1>2, ReceiveMessageFirst
<1>3. CASE ReceiveMessage("GetOk", "BASIC_GETOK_RECEIVED")
  BY <1>1, <1>3, ReceiveMessageFirst
<1>4. CASE ReceiveConsumeOk \/ ReceiveCancelOk \/ ReceiveGetEmpty \/ ReceiveDeclareOk
  BY <1>1, <1>4, ReceiveConsumeOkFirst, ReceiveCancelOkFirst, ReceiveGetEmptyFirst,
     ReceiveDeclareOkFirst
<1>5. CASE ReceiveHeader \/ ReceiveBody \/ ReceiveCancel
  BY <1>1, <1>5, ReceiveHeaderFirst, ReceiveBodyFirst, ReceiveCancelFirst
<1>6. CASE ReceiveChannelClose \/ ReceiveChannelOpenOk \/ Disconnected
  BY <1>1, <1>6, ReceiveChannelCloseFirst, ReceiveChannelOpenOkFirst, ReceiveCancelFirst
<1> QED BY <1>2, <1>3, <1>4, <1>5, <1>6 DEF Receive

---------------------------------------------------------------------------
(* The broker *)

\* Requests that grant nothing are taken.
LEMMA AskedTaken ==
    ASSUME NEW out \in Seq(OutFrame), out # <<>>, Head(out).type \notin ConsumeMethods,
           NEW p, NEW ahead, InLine(p, ahead, Asked(out))
    PROVE  /\ InLine(p, ahead, Asked(Tail(out)))
           /\ CallsIn(Asked(Tail(out))) = CallsIn(Asked(out))
<1> DEFINE s == Asked(out)
<1>1. s \in Seq(Calls \cup {None}) /\ s # <<>> /\ s[1] = None /\ Asked(Tail(out)) = Tail(s)
  BY AskedIs, AskedTail DEF AskedOf
<1> HIDE DEF s
<1>2. InLine(p, ahead, s)
  BY DEF s
<1>3. InLine(p, ahead \cup ({s[1]} \ {None}), Tail(s))
  BY <1>1, <1>2, LineAdvances
<1>4. CallsIn(s) = CallsIn(Tail(s)) \cup ({s[1]} \ {None})
  BY <1>1, TailLine
<1>5. {s[1]} \ {None} = {}
  BY <1>1
<1>6. ahead \cup ({s[1]} \ {None}) = ahead
  BY <1>5
<1> QED BY <1>1, <1>3, <1>4, <1>5, <1>6 DEF s

LEMMA GrantedOneMore ==
    ASSUME NEW in \in Seq(InFrame), NEW frame \in InFrame
    PROVE  Granted(in \o <<frame>>) = Append(Granted(in), GrantedOf(frame))
<1> DEFINE all == in \o <<frame>>
           s == Granted(in)
           n == Granted(all)
           C == Calls \cup {None}
           c == GrantedOf(frame)
<1>1. /\ s \in Seq(C) /\ Len(s) = Len(in) /\ \A i \in DOMAIN in : s[i] = GrantedOf(in[i])
      /\ DOMAIN s = DOMAIN in
  BY GrantedIs
<1>2. /\ all \in Seq(InFrame) /\ Len(all) = Len(in) + 1 /\ Len(in) \in Nat
      /\ DOMAIN in = 1..Len(in) /\ DOMAIN all = 1..(Len(in) + 1)
      /\ all[Len(in) + 1] = frame /\ \A i \in DOMAIN in : all[i] = in[i]
  OBVIOUS
<1> HIDE DEF all
<1>3. /\ n \in Seq(C) /\ Len(n) = Len(in) + 1 /\ DOMAIN n = DOMAIN all
      /\ \A i \in DOMAIN all : n[i] = GrantedOf(all[i])
  BY <1>2, GrantedIs
<1>4. n[Len(in) + 1] = c /\ c \in C
  BY <1>2, <1>3
<1> HIDE DEF s, n, C, c
<1> DEFINE u == Append(s, c)
<1>5. /\ u \in Seq(C) /\ Len(u) = Len(n)
      /\ \A i \in 1..Len(in) : u[i] = s[i]
      /\ u[Len(in) + 1] = c
  BY <1>1, <1>2, <1>3, <1>4
<1> HIDE DEF u
<1>6. \A i \in 1..Len(n) : n[i] = u[i]
  <2>1. SUFFICES ASSUME NEW i \in 1..(Len(in) + 1)
                 PROVE  n[i] = u[i]
    BY <1>3
  <2>2. CASE i = Len(in) + 1
    BY <1>4, <1>5, <2>2
  <2>3. CASE i \in 1..Len(in)
    BY <1>1, <1>2, <1>3, <1>5, <2>3
  <2> QED BY <1>2, <2>2, <2>3
<1>7. n = u
  BY <1>3, <1>5, <1>6, SameSequence
<1> QED BY <1>7 DEF s, n, c, all, u

\* The calls that are granted or ask are the same.
AheadAlike(in, out, next, rest) ==
    CallsIn(Granted(next)) \cup CallsIn(Asked(rest))
       = CallsIn(Granted(in)) \cup CallsIn(Asked(out))

\* The first that asks is granted: it is now the last of those that are granted.
LEMMA AskedIsGranted ==
    ASSUME NEW f, NEW in \in Seq(InFrame), NEW out \in Seq(OutFrame), out # <<>>,
           NEW frame \in InFrame, GrantedOf(frame) = AskedOf(Head(out)),
           GrantedInLine(f, in), AskedInLine(f, in, out),
           NEW next, next = in \o <<frame>>
    PROVE  /\ GrantedInLine(f, next) /\ AskedInLine(f, next, Tail(out))
           /\ AheadAlike(in, out, next, Tail(out))
<1> DEFINE g == Granted(in)
           s == Asked(out)
           c == s[1]
           p == f.pending
           C == Calls \cup {None}
           ahead == CallsIn(g)
<1>1. g \in Seq(C) /\ Granted(next) = Append(g, c)
  BY GrantedIs, GrantedOneMore, AskedTail
<1>2. s \in Seq(C) /\ s # <<>> /\ Asked(Tail(out)) = Tail(s)
  BY AskedIs, AskedTail
<1>3. InLine(p, {}, g) /\ InLine(p, ahead, s)
  BY DEF GrantedInLine, AskedInLine
<1> HIDE DEF g, s, p, ahead, C
<1>4. c \in C /\ 1 \in DOMAIN s
  BY <1>2
<1>5. CallsBefore(s, 1) = {}
  BY <1>2, TailLine
<1>6. c # None => \E n \in DOMAIN p : p[n].call = c /\ PendingBefore(p, n) = ahead
  <2>1. SUFFICES ASSUME c # None
                 PROVE  \E n \in DOMAIN p : p[n].call = c /\ PendingBefore(p, n) = ahead
    OBVIOUS
  <2>2. PICK n \in DOMAIN p : /\ p[n].call = s[1]
                              /\ PendingBefore(p, n) = ahead \cup CallsBefore(s, 1)
    BY <1>3, <1>4, <2>1 DEF InLine
  <2> QED BY <1>5, <2>2
<1>7. c # None => \E n \in DOMAIN p : p[n].call = c /\ PendingBefore(p, n) = {} \cup CallsIn(g)
  BY <1>6 DEF ahead
<1>8. /\ InLine(p, {}, Append(g, c)) /\ CallsIn(Append(g, c)) = CallsIn(g) \cup ({c} \ {None})
  <2> HIDE DEF c
  <2> QED BY <1>1, <1>3, <1>4, <1>7, LineJoined
<1>9. /\ InLine(p, ahead \cup ({c} \ {None}), Tail(s))
      /\ CallsIn(s) = CallsIn(Tail(s)) \cup ({c} \ {None})
  BY <1>2, <1>3, LineAdvances, TailLine
<1>10. GrantedInLine(f, next)
  BY <1>1, <1>8 DEF GrantedInLine, p
<1>11. CallsIn(Granted(next)) = ahead \cup ({c} \ {None})
  BY <1>1, <1>8 DEF ahead
<1>12. AskedInLine(f, next, Tail(out))
  BY <1>2, <1>9, <1>11 DEF AskedInLine, p
<1>13. CallsIn(Granted(next)) \cup CallsIn(Asked(Tail(out))) = ahead \cup CallsIn(s)
  BY <1>2, <1>9, <1>11
<1> QED BY <1>10, <1>12, <1>13 DEF ahead, g, s, AheadAlike

\* The answer to basic_consume keeps the lines.
LEMMA LinesGranted ==
    ASSUME IInv, ConsumesInLine, ClientUnchanged, session.transport = "open",
           broker.phase = "open", broker'.channel = broker.channel,
           outbox # <<>>, outbox' = Tail(outbox),
           NEW frame \in InFrame, GrantedOf(frame) = AskedOf(Head(outbox)),
           inbox' = inbox \o <<frame>>
    PROVE  ConsumesInLine'
<1>1. /\ inbox \in Seq(InFrame) /\ outbox \in Seq(OutFrame)
      /\ lock' = lock /\ task' = task /\ futures' = futures /\ manager' = manager
      /\ session' = session
  BY InvIs DEF ClientUnchanged
<1> SUFFICES ASSUME broker.channel = 1
             PROVE  /\ GrantedInLine(futures, inbox') /\ AskedInLine(futures, inbox', outbox')
                    /\ ~ Closed(manager) => QueuedInLine(futures, inbox', outbox', lock, task)
  BY <1>1 DEF ConsumesInLine, LinesWith
<1>2. /\ GrantedInLine(futures, inbox) /\ AskedInLine(futures, inbox, outbox)
      /\ ~ Closed(manager) => QueuedInLine(futures, inbox, outbox, lock, task)
  BY DEF ConsumesInLine, LinesWith
<1>3. /\ GrantedInLine(futures, inbox') /\ AskedInLine(futures, inbox', Tail(outbox))
      /\ AheadAlike(inbox, outbox, inbox', Tail(outbox))
  <2>1. PICK next : next = inbox'
    OBVIOUS
  <2>2. /\ GrantedInLine(futures, next) /\ AskedInLine(futures, next, Tail(outbox))
        /\ AheadAlike(inbox, outbox, next, Tail(outbox))
    BY <1>1, <1>2, <2>1, AskedIsGranted
  <2> QED BY <2>1, <2>2
<1>4. ASSUME QueuedInLine(futures, inbox, outbox, lock, task)
      PROVE  QueuedInLine(futures, inbox', outbox', lock, task)
  BY <1>3, <1>4 DEF QueuedInLine, AheadAlike
<1> QED BY <1>2, <1>3, <1>4

\* So do frames that grant nothing, and a request that does not ask for a consumer.
LEMMA LinesSent ==
    ASSUME IInv, ConsumesInLine, ClientUnchanged, session.transport = "open",
           broker'.channel = 1 => broker.channel = 1
                                  /\ (broker'.phase = "open" => broker.phase = "open"),
           NEW more \in Seq(InFrame), \A i \in DOMAIN more : more[i].type # "ConsumeOk",
           inbox' = inbox \o more,
           \/ outbox' = outbox
           \/ /\ outbox # <<>> /\ outbox' = Tail(outbox)
              /\ Head(outbox).type \notin ConsumeMethods \/ broker'.phase # "open"
    PROVE  ConsumesInLine'
<1>1. /\ inbox \in Seq(InFrame) /\ outbox \in Seq(OutFrame)
      /\ lock' = lock /\ task' = task /\ futures' = futures /\ manager' = manager
      /\ session' = session
  BY InvIs DEF ClientUnchanged
<1> SUFFICES ASSUME broker'.channel = 1
             PROVE  /\ GrantedInLine(futures, inbox')
                    /\ broker'.phase = "open" =>
                          /\ AskedInLine(futures, inbox', outbox')
                          /\ ~ Closed(manager) =>
                                QueuedInLine(futures, inbox', outbox', lock, task)
  BY <1>1 DEF ConsumesInLine, LinesWith
<1>2. /\ GrantedInLine(futures, inbox)
      /\ broker'.phase = "open" =>
            /\ AskedInLine(futures, inbox, outbox)
            /\ ~ Closed(manager) => QueuedInLine(futures, inbox, outbox, lock, task)
  BY DEF ConsumesInLine, LinesWith
<1>3. GrantedAlike(futures.pending, inbox, inbox')
  <2>1. InLine(futures.pending, {}, Granted(inbox))
    BY <1>2 DEF GrantedInLine
  <2>2. /\ InLine(futures.pending, {}, Granted(inbox \o more))
        /\ CallsIn(Granted(inbox \o more)) = CallsIn(Granted(inbox))
    BY <1>1, <2>1, GrantedMore
  <2> QED BY <2>2 DEF GrantedAlike
<1>4. GrantedInLine(futures, inbox')
  BY <1>3, BehindGranted
<1>5. ASSUME broker'.phase = "open"
      PROVE  /\ AskedInLine(futures, inbox', outbox')
             /\ CallsIn(Asked(outbox')) = CallsIn(Asked(outbox))
  <2>1. AskedInLine(futures, inbox', outbox)
    BY <1>2, <1>3, <1>5, BehindGranted
  <2>2. CASE outbox' = outbox
    BY <2>1, <2>2
  <2>3. CASE outbox' # outbox
    <3>1. outbox # <<>> /\ outbox' = Tail(outbox) /\ Head(outbox).type \notin ConsumeMethods
      BY <1>5, <2>3
    <3>2. InLine(futures.pending, CallsIn(Granted(inbox')), Asked(outbox))
      BY <2>1 DEF AskedInLine
    <3>3. /\ InLine(futures.pending, CallsIn(Granted(inbox')), Asked(Tail(outbox)))
          /\ CallsIn(Asked(Tail(outbox))) = CallsIn(Asked(outbox))
      <4>1. PICK ahead : ahead = CallsIn(Granted(inbox'))
        OBVIOUS
      <4> QED BY <1>1, <3>1, <3>2, <4>1, AskedTaken
    <3> QED BY <3>1, <3>3 DEF AskedInLine
  <2> QED BY <2>2, <2>3
<1>6. ASSUME broker'.phase = "open", ~ Closed(manager)
      PROVE  QueuedInLine(futures, inbox', outbox', lock, task)
  <2>1. QueuedInLine(futures, inbox', outbox, lock, task)
    BY <1>2, <1>3, <1>6, BehindGranted
  <2> QED BY <1>5, <1>6, <2>1, StillQueued
<1> QED BY <1>4, <1>5, <1>6

\* What the broker sends has begun on a channel that is not the first, or it is still the
\* first that is open.
LEMMA OverSent ==
    ASSUME IInv, FirstIsOver, ClientUnchanged, NEW more \in Seq(InFrame),
           inbox' = inbox \o more,
           broker'.channel # 1 =>
              /\ broker.channel # 1 \/ NoneOfFirst(message, inbox)
              /\ \A i \in DOMAIN more : Begins(more[i]) => more[i].delivery.id[1] # 1
    PROVE  FirstIsOver'
<1>1. workload' = workload /\ message' = message /\ inbox \in Seq(InFrame)
  BY InvIs DEF ClientUnchanged
<1> SUFFICES ASSUME broker'.channel # 1
             PROVE  NoneOfFirst(message, inbox')
  BY <1>1 DEF FirstIsOver, NoneOfFirst
<1>2. NoneOfFirst(message, inbox)
  BY DEF FirstIsOver
<1>3. ASSUME NEW i \in DOMAIN inbox', Begins(inbox'[i])
      PROVE  inbox'[i].delivery.id[1] # 1
  <2>1. /\ Len(inbox') = Len(inbox) + Len(more) /\ inbox' \in Seq(InFrame)
        /\ \A j \in 1..Len(inbox) : inbox'[j] = inbox[j]
        /\ \A j \in 1..Len(more) : inbox'[Len(inbox) + j] = more[j]
    BY <1>1, ConcatIs
  <2>2. /\ DOMAIN inbox' = 1..(Len(inbox) + Len(more)) /\ DOMAIN inbox = 1..Len(inbox)
        /\ DOMAIN more = 1..Len(more) /\ Len(inbox) \in Nat /\ Len(more) \in Nat
    BY <1>1, <2>1
  <2>3. CASE i \in 1..Len(inbox)
    BY <1>2, <1>3, <2>1, <2>2, <2>3 DEF NoneOfFirst
  <2>4. CASE i \notin 1..Len(inbox)
    <3>1. PICK j : j = i - Len(inbox)
      OBVIOUS
    <3>2. j \in DOMAIN more /\ Len(inbox) + j = i
      BY <2>2, <2>4, <3>1
    <3>3. inbox'[i] = more[j]
      BY <2>1, <2>2, <3>2
    <3> QED BY <1>3, <3>2, <3>3
  <2> QED BY <2>3, <2>4
<1> QED BY <1>2, <1>3 DEF NoneOfFirst

\* The parts of the invariant that the broker may disturb.
LEMMA BrokerFirst ==
    ASSUME IInv, FirstInv, ~ session.failed, ClientUnchanged, session.transport = "open",
           broker'.channel # 0, broker'.channel = 1 => broker.channel = 1,
           ConsumesInLine', FirstIsOver', FirstCloses'
    PROVE  FirstInv'
<1>1. /\ workload' = workload /\ futures' = futures /\ consumers' = consumers
      /\ session' = session /\ app' = app
  BY DEF ClientUnchanged
<1>2. AllMeant(app') /\ GetsAreGets(futures'.done) /\ OwnCallbacks'
  BY <1>1 DEF FirstInv, OwnCallbacks
<1> QED BY <1>1, <1>2 DEF FirstInv

\* What an open broker sends, when it is not that it closes the channel.
LEMMA ClosesSent ==
    ASSUME IInv, FirstCloses, ClientUnchanged, Reads,
           broker'.channel = broker.channel, broker'.phase = broker.phase,
           NEW more \in Seq(InFrame), \A i \in DOMAIN more : more[i].type # "Channel.Close",
           inbox' = inbox \o more, broker.phase = "open" \/ more = <<>>
    PROVE  FirstCloses'
<1>1. inbox \in Seq(InFrame) /\ outbox \in Seq(OutFrame) /\ session' = session
  BY InvIs DEF ClientUnchanged
<1> SUFFICES ASSUME broker.channel = 1, session.transport = "open"
             PROVE  /\ broker.phase = "open" => /\ ~ Carries(inbox', "Channel.Close")
                                                /\ ~ Carries(outbox', "Channel.CloseOk")
                    /\ broker.phase = "closing" =>
                          \/ inbox' = <<>>
                          \/ /\ \A i \in DOMAIN inbox' :
                                   inbox'[i].type = "Channel.Close" => i = Len(inbox')
                             /\ ~ Carries(outbox', "Channel.CloseOk")
                    /\ broker.phase = "closed" => inbox' = <<>>
  BY <1>1 DEF FirstCloses
<1>2. /\ broker.phase = "open" => /\ ~ Carries(inbox, "Channel.Close")
                                  /\ ~ Carries(outbox, "Channel.CloseOk")
      /\ broker.phase = "closing" =>
            \/ inbox = <<>>
            \/ /\ \A i \in DOMAIN inbox : inbox[i].type = "Channel.Close" => i = Len(inbox)
               /\ ~ Carries(outbox, "Channel.CloseOk")
      /\ broker.phase = "closed" => inbox = <<>>
  BY DEF FirstCloses
<1>3. Carries(outbox', "Channel.CloseOk") => Carries(outbox, "Channel.CloseOk")
  <2>1. CASE outbox' = outbox
    BY <2>1
  <2>2. CASE outbox # <<>> /\ outbox' = Tail(outbox)
    <3>1. \A i \in DOMAIN outbox' : i + 1 \in DOMAIN outbox /\ outbox'[i] = outbox[i + 1]
      BY <1>1, <2>2, TailIs
    <3> QED BY <3>1 DEF Carries
  <2> QED BY <2>1, <2>2 DEF Reads
<1>4. CASE broker.phase = "open"
  <2>1. ~ Carries(inbox', "Channel.Close")
    <3>1. SUFFICES ASSUME NEW i \in DOMAIN inbox', inbox'[i].type = "Channel.Close"
                   PROVE  FALSE
      BY DEF Carries
    <3>2. /\ Len(inbox') = Len(inbox) + Len(more) /\ inbox' \in Seq(InFrame)
          /\ \A j \in 1..Len(inbox) : inbox'[j] = inbox[j]
          /\ \A j \in 1..Len(more) : inbox'[Len(inbox) + j] = more[j]
      BY <1>1, ConcatIs
    <3>3. /\ DOMAIN inbox' = 1..(Len(inbox) + Len(more)) /\ DOMAIN inbox = 1..Len(inbox)
          /\ DOMAIN more = 1..Len(more) /\ Len(inbox) \in Nat /\ Len(more) \in Nat
      BY <1>1, <3>2
    <3>4. CASE i \in 1..Len(inbox)
      BY <1>2, <1>4, <3>1, <3>2, <3>3, <3>4 DEF Carries
    <3>5. CASE i \notin 1..Len(inbox)
      <4>1. PICK j : j = i - Len(inbox)
        OBVIOUS
      <4>2. j \in DOMAIN more /\ Len(inbox) + j = i
        BY <3>3, <3>5, <4>1
      <4>3. inbox'[i] = more[j]
        BY <3>2, <3>3, <4>2
      <4> QED BY <3>1, <4>2, <4>3
    <3> QED BY <3>4, <3>5
  <2> QED BY <1>2, <1>3, <1>4, <2>1
<1>5. CASE broker.phase # "open"
  <2>1. inbox' = inbox
    BY <1>1, <1>5
  <2> QED BY <1>2, <1>3, <1>5, <2>1
<1> QED BY <1>4, <1>5

\* The broker sends frames, or takes one, and is in the same phase.
LEMMA SentFirst ==
    ASSUME IInv, FirstInv, ~ session.failed, ClientUnchanged, session.transport = "open",
           broker'.channel = broker.channel, broker'.phase = broker.phase,
           NEW more \in Seq(InFrame), Sends(more), broker.phase = "open" \/ more = <<>>,
           \A i \in DOMAIN more : /\ more[i].type \notin {"ConsumeOk", "Channel.Close"}
                                  /\ Begins(more[i]) => more[i].delivery.id[1] = broker.channel,
           \/ outbox' = outbox
           \/ /\ outbox # <<>> /\ outbox' = Tail(outbox)
              /\ Head(outbox).type \notin ConsumeMethods \/ broker.phase # "open"
    PROVE  FirstInv'
<1>1. inbox' = inbox \o more
  BY DEF Sends
<1>2. \A i \in DOMAIN more : more[i].type # "ConsumeOk"
  OBVIOUS
<1>3. \A i \in DOMAIN more : more[i].type # "Channel.Close"
  OBVIOUS
<1>4. ConsumesInLine /\ FirstIsOver /\ FirstCloses /\ broker.channel # 0
  BY DEF FirstInv
<1>5. ConsumesInLine'
  BY <1>1, <1>2, <1>4, LinesSent
<1>6. FirstIsOver'
  BY <1>1, <1>4, OverSent
<1>7. FirstCloses'
  BY <1>1, <1>3, <1>4, ClosesSent DEF Reads
<1> QED BY <1>4, <1>5, <1>6, <1>7, BrokerFirst

\* One frame that is neither.
LEMMA SentOneFirst ==
    ASSUME IInv, FirstInv, ~ session.failed, ClientUnchanged, session.transport = "open",
           broker'.channel = broker.channel, broker'.phase = broker.phase,
           broker.phase = "open", NEW frame \in InFrame, Sends(<<frame>>),
           frame.type \notin Content \cup {"ConsumeOk", "Channel.Close"},
           \/ outbox' = outbox
           \/ /\ outbox # <<>> /\ outbox' = Tail(outbox)
              /\ Head(outbox).type \notin ConsumeMethods
    PROVE  FirstInv'
<1> DEFINE more == <<frame>>
<1>1. more \in Seq(InFrame) /\ DOMAIN more = {1} /\ more[1] = frame
  OBVIOUS
<1>2. ~ Begins(frame)
  BY DEF Begins, Content
<1>3. \A i \in DOMAIN more :
         /\ more[i].type \notin {"ConsumeOk", "Channel.Close"}
         /\ Begins(more[i]) => more[i].delivery.id[1] = broker.channel
  BY <1>1, <1>2
<1>4. Sends(more)
  OBVIOUS
<1> HIDE DEF more
<1> QED BY <1>1, <1>3, <1>4, SentFirst

LEMMA SentNothingFirst ==
    ASSUME IInv, FirstInv, ~ session.failed, ClientUnchanged, session.transport = "open",
           broker'.channel = broker.channel, broker'.phase = broker.phase, inbox' = inbox,
           \/ outbox' = outbox
           \/ /\ outbox # <<>> /\ outbox' = Tail(outbox)
              /\ Head(outbox).type \notin ConsumeMethods \/ broker.phase # "open"
    PROVE  FirstInv'
<1> DEFINE more == <<>>
<1>1. more \in Seq(InFrame) /\ DOMAIN more = {} /\ more = <<>>
  OBVIOUS
<1>2. Sends(more)
  <2>1. inbox \o <<>> = inbox
    BY InvIs
  <2> QED BY <2>1 DEF Sends
<1> HIDE DEF more
<1>3. \A i \in DOMAIN more :
         /\ more[i].type \notin {"ConsumeOk", "Channel.Close"}
         /\ Begins(more[i]) => more[i].delivery.id[1] = broker.channel
  BY <1>1
<1> QED BY <1>1, <1>2, <1>3, SentFirst

LEMMA BrokerClosesFirst ==
    ASSUME IInv, FirstInv, ~ session.failed, ClientUnchanged, session.transport = "open",
           broker.phase = "open", outbox # <<>>, outbox' = Tail(outbox), BrokerClosesChannel
    PROVE  FirstInv'
<1> DEFINE close == [type |-> "Channel.Close"]
           more == <<close>>
           ready == broker.ready \cup MessagesOf(DOMAIN broker.unacked)
           b == BrokerOf("closing", broker.channel, ready, {}, <<>>, broker.sent,
                         broker.delivered, broker.settled)
<1>1. broker' = b
  BY BrokerNow DEF BrokerClosesChannel, BrokerOf
<1>2. b.phase = "closing" /\ b.channel = broker.channel
  BY DEF BrokerOf
<1> HIDE DEF b, ready
<1>3. /\ close \in InFrame /\ close.type = "Channel.Close" /\ close.type \notin Content
      /\ inbox' = inbox \o more
  BY PlainFrames DEF BrokerClosesChannel, Sends
<1> HIDE DEF close
<1>4. more \in Seq(InFrame) /\ DOMAIN more = {1} /\ more[1] = close
  BY <1>3
<1>5. ConsumesInLine /\ FirstIsOver /\ FirstCloses /\ broker.channel # 0
      /\ inbox \in Seq(InFrame) /\ outbox \in Seq(OutFrame) /\ session' = session
  BY InvIs DEF FirstInv, ClientUnchanged
<1>6. /\ \A i \in DOMAIN more : more[i].type # "ConsumeOk"
      /\ \A i \in DOMAIN more : Begins(more[i]) => more[i].delivery.id[1] # 1
  BY <1>3, <1>4 DEF Begins, Content
<1>7. inbox' = inbox \o <<close>>
  BY <1>3
<1> HIDE DEF more
<1>8. ConsumesInLine'
  BY <1>1, <1>2, <1>3, <1>4, <1>5, <1>6, LinesSent
<1>9. FirstIsOver'
  BY <1>1, <1>2, <1>3, <1>4, <1>5, <1>6, OverSent
<1>10. FirstCloses'
  <2> SUFFICES ASSUME broker.channel = 1
               PROVE  /\ \A i \in DOMAIN inbox' :
                            inbox'[i].type = "Channel.Close" => i = Len(inbox')
                      /\ ~ Carries(outbox', "Channel.CloseOk")
    BY <1>1, <1>2, <1>5 DEF FirstCloses
  <2>1. ~ Carries(inbox, "Channel.Close") /\ ~ Carries(outbox, "Channel.CloseOk")
    BY <1>5 DEF FirstCloses
  <2>2. \A i \in DOMAIN outbox' : i + 1 \in DOMAIN outbox /\ outbox'[i] = outbox[i + 1]
    BY <1>5, TailIs
  <2>3. ASSUME NEW i \in DOMAIN inbox', inbox'[i].type = "Channel.Close"
        PROVE  i = Len(inbox')
    <3>1. /\ Len(inbox') = Len(inbox) + 1 /\ DOMAIN inbox' = 1..(Len(inbox) + 1)
          /\ DOMAIN inbox = 1..Len(inbox) /\ Len(inbox) \in Nat
          /\ \A j \in 1..Len(inbox) : inbox'[j] = inbox[j]
      BY <1>3, <1>5, <1>7
    <3>2. i \notin DOMAIN inbox
      BY <2>1, <2>3, <3>1 DEF Carries
    <3> QED BY <3>1, <3>2
  <2> QED BY <2>1, <2>2, <2>3 DEF Carries
<1> QED BY <1>1, <1>2, <1>5, <1>8, <1>9, <1>10, BrokerFirst

LEMMA BrokerSettlesFirst ==
    ASSUME IInv, FirstInv, ~ session.failed, ClientUnchanged, session.transport = "open",
           broker.phase = "open", outbox # <<>>, outbox' = Tail(outbox),
           Head(outbox).type \notin ConsumeMethods, BrokerSettles(Head(outbox))
    PROVE  FirstInv'
<1> DEFINE frame == Head(outbox)
           tags == {n \in DOMAIN broker.unacked :
                       n = frame.tag \/ (frame.multiple /\ n < frame.tag)}
           ready == IF frame.type # "ack" /\ frame.requeue
                    THEN broker.ready \cup MessagesOf(tags) ELSE broker.ready
           settled == broker.settled \cup {broker.unacked[n].id : n \in tags}
           unacked == Without(broker.unacked, tags)
           b == BrokerOf(broker.phase, broker.channel, ready, broker.consumers, unacked,
                         broker.sent, broker.delivered, settled)
<1>1. CASE frame.tag \notin DOMAIN broker.unacked
  BY <1>1, BrokerClosesFirst DEF BrokerSettles
<1>2. CASE frame.tag \in DOMAIN broker.unacked
  <2>1. /\ broker' = [broker EXCEPT !.unacked = unacked, !.settled = settled, !.ready = ready]
        /\ inbox' = inbox
    BY <1>2 DEF BrokerSettles
  <2> HIDE DEF ready, settled, unacked
  <2>2. broker' = b
    BY <2>1, BrokerNow DEF BrokerOf
  <2>3. b.phase = broker.phase /\ b.channel = broker.channel
    BY DEF BrokerOf
  <2> HIDE DEF b
  <2> QED BY <2>1, <2>2, <2>3, SentNothingFirst
<1> QED BY <1>1, <1>2

LEMMA BrokerDeliversFirst ==
    ASSUME IInv, FirstInv, ~ session.failed, ClientUnchanged, session.transport = "open",
           broker.phase = "open", NEW type, type = "Deliver" \/ type = "GetOk",
           NEW for \in Calls, BrokerDelivers(type, for),
           \/ outbox' = outbox
           \/ /\ outbox # <<>> /\ outbox' = Tail(outbox)
              /\ Head(outbox).type \notin ConsumeMethods
    PROVE  FirstInv'
<1>1. /\ \A d \in Delivery : d.msg \in DOMAIN workload.bodies => Size(workload, d) \in Nat
      /\ DOMAIN workload.bodies \subseteq Nat
  BY BrokerHas
<1>2. PICK msg \in broker.ready :
        LET delivery == [id |-> <<broker.channel, broker.sent + 1>>, for |-> for,
                         get |-> type = "GetOk", msg |-> msg]
        IN  /\ Sends(<<[type |-> type, delivery |-> delivery],
                       [type |-> "Header", of |-> delivery]>> \o Bodies(delivery))
            /\ broker' = [broker EXCEPT !.ready = @ \ {msg}, !.sent = @ + 1,
                                        !.unacked = With(@, broker.sent + 1, delivery),
                                        !.delivered = @ \cup {delivery}]
  BY DEF BrokerDelivers
<1> DEFINE d == [id |-> <<broker.channel, broker.sent + 1>>, for |-> for,
                 get |-> type = "GetOk", msg |-> msg]
           more == FramesOf(workload, type, d)
           ready == broker.ready \ {msg}
           sent == broker.sent + 1
           unacked == With(broker.unacked, sent, d)
           delivered == broker.delivered \cup {d}
           b == BrokerOf(broker.phase, broker.channel, ready, broker.consumers, unacked,
                         sent, delivered, broker.settled)
<1>3. msg \in DOMAIN workload.bodies /\ msg \in Nat /\ sent \in Nat /\ broker.channel \in Nat
  BY <1>1, BrokerNow
<1>4. d \in Delivery /\ d.msg = msg /\ d.id[1] = broker.channel
  <2>1. (type = "GetOk") \in BOOLEAN /\ <<broker.channel, sent>> \in Nat \X Nat
    BY <1>3
  <2> QED BY <1>3, <2>1 DEF Delivery
<1>5. Sends(more)
  BY <1>2 DEF FramesOf, HeaderOf, PartOf, Size, Bodies
<1>6. broker' = [broker EXCEPT !.ready = ready, !.sent = sent, !.unacked = unacked,
                               !.delivered = delivered]
  BY <1>2
<1> HIDE DEF d
<1>7. more \in Seq(InFrame) /\ ContentOf(more, d)
  <2>1. Size(workload, d) \in Nat
    BY <1>1, <1>3, <1>4
  <2> HIDE DEF more
  <2>2. more = FramesOf(workload, type, d)
    BY DEF more
  <2> QED BY <1>4, <2>1, <2>2, FramesAre
<1> HIDE DEF more, ready, sent, unacked, delivered
<1>8. broker' = b
  BY <1>6, BrokerNow DEF BrokerOf
<1>9. b.phase = broker.phase /\ b.channel = broker.channel
  BY DEF BrokerOf
<1> HIDE DEF b
<1>10. \A i \in DOMAIN more :
          /\ more[i].type \notin {"ConsumeOk", "Channel.Close"}
          /\ Begins(more[i]) => more[i].delivery.id[1] = broker.channel
  BY <1>4, <1>7 DEF ContentOf, Content
<1> QED BY <1>5, <1>7, <1>8, <1>9, <1>10, SentFirst

LEMMA BrokerConsumeFirst ==
    ASSUME IInv, FirstInv, ~ session.failed, ClientUnchanged, session.transport = "open",
           broker.phase = "open", outbox # <<>>, outbox' = Tail(outbox),
           Head(outbox).type \in ConsumeMethods,
           Sends(<<[type |-> "ConsumeOk", tag |-> Head(outbox).by]>>),
           broker' = [broker EXCEPT !.consumers = @ \cup {Head(outbox).by}]
    PROVE  FirstInv'
<1> DEFINE by == Head(outbox).by
           frame == [type |-> "ConsumeOk", tag |-> by]
           tags == broker.consumers \cup {by}
           more == <<frame>>
           b == BrokerOf(broker.phase, broker.channel, broker.ready, tags, broker.unacked,
                         broker.sent, broker.delivered, broker.settled)
<1>1. by \in Calls
  <2>1. Head(outbox) \in OutFrame
    BY InvIs, TailElements
  <2>2. ConsumeMethods \subseteq DOMAIN Request \ {"basic_cancel"}
    BY DEF ConsumeMethods, Request
  <2>3. \A m \in ConsumeMethods : m \notin DOMAIN SettledState
                                  /\ m \notin {"Channel.CloseOk", "Channel.Open"}
    BY DEF ConsumeMethods, SettledState
  <2> QED BY <2>1, <2>2, <2>3 DEF OutFrame
<1>2. /\ frame \in InFrame /\ frame.type = "ConsumeOk"
      /\ GrantedOf(frame) = AskedOf(Head(outbox))
  BY <1>1 DEF InFrame, GrantedOf, AskedOf
<1>3. broker' = [broker EXCEPT !.consumers = tags] /\ inbox' = inbox \o <<frame>>
  BY DEF Sends
<1> HIDE DEF frame, tags, by
<1>4. broker' = b
  BY <1>3, BrokerNow DEF BrokerOf
<1>5. b.phase = broker.phase /\ b.channel = broker.channel
  BY DEF BrokerOf
<1> HIDE DEF b
<1>6. ConsumesInLine /\ FirstIsOver /\ FirstCloses /\ broker.channel # 0
  BY DEF FirstInv
<1>7. ConsumesInLine'
  BY <1>2, <1>3, <1>4, <1>5, <1>6, LinesGranted
<1>8. /\ more \in Seq(InFrame) /\ inbox' = inbox \o more
      /\ \A i \in DOMAIN more : more[i] = frame
  BY <1>2, <1>3
<1>9. frame.type # "Channel.Close" /\ ~ Begins(frame)
  BY <1>2 DEF Begins
<1> HIDE DEF more
<1>10. FirstIsOver'
  BY <1>4, <1>5, <1>6, <1>8, <1>9, OverSent
<1>11. FirstCloses'
  <2>1. \A i \in DOMAIN more : more[i].type # "Channel.Close"
    BY <1>8, <1>9
  <2> QED BY <1>4, <1>5, <1>6, <1>8, <2>1, ClosesSent DEF Reads
<1> QED BY <1>4, <1>5, <1>6, <1>7, <1>10, <1>11, BrokerFirst

LEMMA BrokerAnswersFirst ==
    ASSUME IInv, FirstInv, ~ session.failed, ClientUnchanged, session.transport = "open",
           broker.phase = "open", outbox # <<>>, outbox' = Tail(outbox),
           Head(outbox).type \in DOMAIN Request, BrokerAnswers(Head(outbox))
    PROVE  FirstInv'
<1> DEFINE frame == Head(outbox)
<1>1. /\ frame.by \in Calls
      /\ frame.type = "basic_cancel" => frame.tag \in Calls
  <2>1. frame \in OutFrame
    BY InvIs, TailElements
  <2>2. \A m \in DOMAIN Request : m \notin DOMAIN SettledState
                                  /\ m \notin {"Channel.CloseOk", "Channel.Open"}
    BY DEF SettledState, Request
  <2> QED BY <2>1, <2>2 DEF OutFrame
<1>2. CASE Consumes(frame.type)
  <2>1. /\ Sends(<<[type |-> "ConsumeOk", tag |-> frame.by]>>)
        /\ broker' = [broker EXCEPT !.consumers = @ \cup {frame.by}]
    BY <1>2 DEF BrokerAnswers, Consumes
  <2>2. frame.type \in ConsumeMethods
    BY <1>2 DEF Consumes, ConsumeMethods
  <2> QED BY <2>1, <2>2, BrokerConsumeFirst
<1>3. CASE frame.type = "basic_cancel"
  <2> DEFINE answer == [type |-> "CancelOk", tag |-> frame.tag]
             tags == broker.consumers \ {frame.tag}
             b == BrokerOf(broker.phase, broker.channel, broker.ready, tags, broker.unacked,
                           broker.sent, broker.delivered, broker.settled)
  <2>1. Sends(<<answer>>) /\ broker' = [broker EXCEPT !.consumers = tags]
    BY <1>3 DEF BrokerAnswers, Consumes
  <2>2. answer \in InFrame /\ answer.type \notin Content \cup {"ConsumeOk", "Channel.Close"}
    BY <1>1, <1>3 DEF InFrame, Content
  <2>3. frame.type \notin ConsumeMethods
    BY <1>3 DEF ConsumeMethods
  <2> HIDE DEF answer, tags
  <2>4. broker' = b
    BY <2>1, BrokerNow DEF BrokerOf
  <2>5. b.phase = broker.phase /\ b.channel = broker.channel
    BY DEF BrokerOf
  <2> HIDE DEF b
  <2> QED BY <2>1, <2>2, <2>3, <2>4, <2>5, SentOneFirst
<1>4. CASE frame.type = "basic_get"
  <2>1. frame.type \notin ConsumeMethods
    BY <1>4 DEF ConsumeMethods
  <2>2. CASE broker.ready = {} \/ broker.sent = MaxDeliveries
    <3>1. Sends(<<[type |-> "GetEmpty"]>>) /\ broker' = broker
      BY <1>4, <2>2 DEF BrokerAnswers, Consumes
    <3>2. [type |-> "GetEmpty"].type \notin Content \cup {"ConsumeOk", "Channel.Close"}
      BY DEF Content
    <3> QED BY <2>1, <3>1, <3>2, PlainFrames, SentOneFirst
  <2>3. CASE ~ (broker.ready = {} \/ broker.sent = MaxDeliveries)
    <3>1. BrokerDelivers("GetOk", frame.by)
      BY <1>4, <2>3 DEF BrokerAnswers, Consumes
    <3> QED BY <1>1, <2>1, <3>1, BrokerDeliversFirst
  <2> QED BY <2>2, <2>3
<1>5. CASE frame.type = "queue_declare"
  <2>1. Sends(<<[type |-> "DeclareOk"]>>) /\ broker' = broker
    BY <1>5 DEF BrokerAnswers, Consumes
  <2>2. frame.type \notin ConsumeMethods
    BY <1>5 DEF ConsumeMethods
  <2>3. [type |-> "DeclareOk"].type \notin Content \cup {"ConsumeOk", "Channel.Close"}
    BY DEF Content
  <2> QED BY <2>1, <2>2, <2>3, PlainFrames, SentOneFirst
<1> QED BY <1>2, <1>3, <1>4, <1>5 DEF Request, Consumes

\* Nothing of the first channel is under way when the broker has closed it and is told so.
LEMMA FirstIsPast ==
    ASSUME IInv, FirstInv, ~ session.failed, session.transport = "open",
           broker.phase = "closed"
    PROVE  NoneOfFirst(message, inbox)
<1>1. CASE broker.channel # 1
  BY <1>1 DEF FirstInv, FirstIsOver
<1>2. CASE broker.channel = 1
  <2>1. inbox = <<>>
    BY <1>2 DEF FirstInv, FirstCloses
  <2>2. DOMAIN inbox = {} /\ Len(inbox) = 0
    BY <2>1
  <2>3. Before(message, inbox, Len(inbox) + 1) = LastTaken(message)
    BY <2>2 DEF Before
  <2>4. InOrder(workload, message, inbox, TRUE)
    BY DEF IInv, ContentOK
  <2>5. ~ Partial(workload, LastTaken(message))
    BY <2>3, <2>4 DEF InOrder
  <2> QED BY <2>2, <2>5 DEF NoneOfFirst
<1> QED BY <1>1, <1>2

LEMMA BrokerReadsFirst ==
    ASSUME IInv, FirstInv, ~ session.failed, ClientUnchanged, BrokerReads
    PROVE  FirstInv'
<1> DEFINE frame == Head(outbox)
           b == broker
<1>1. /\ outbox # <<>> /\ outbox' = Tail(outbox) /\ session.transport = "open"
      /\ session' = session
  BY DEF BrokerReads, FirstInv, ClientUnchanged
<1>2. /\ frame.type \in DOMAIN Request => frame.type \notin DOMAIN SettledState
      /\ frame.type \in DOMAIN SettledState => frame.type \notin ConsumeMethods
      /\ \A type \in {"Channel.Open", "Channel.CloseOk"} :
            type \notin ConsumeMethods /\ type \notin DOMAIN Request
      /\ ConsumeMethods \subseteq DOMAIN Request
  BY DEF Request, SettledState, ConsumeMethods
<1>3. CASE broker.phase = "open" /\ frame.type \in DOMAIN Request
  <2>1. BrokerAnswers(frame) \/ BrokerClosesChannel
    BY <1>2, <1>3 DEF BrokerReads
  <2> QED BY <1>1, <1>3, <2>1, BrokerAnswersFirst, BrokerClosesFirst
<1>4. CASE broker.phase = "open" /\ frame.type \in DOMAIN SettledState
  <2>1. BrokerSettles(frame)
    BY <1>2, <1>4 DEF BrokerReads
  <2> QED BY <1>1, <1>2, <1>4, <2>1, BrokerSettlesFirst
<1>5. CASE broker.phase = "closing" /\ frame.type = "Channel.CloseOk"
  <2> DEFINE next == BrokerOf("closed", b.channel, b.ready, b.consumers, b.unacked, b.sent,
                              b.delivered, b.settled)
             more == <<>>
  <2>1. broker' = [broker EXCEPT !.phase = "closed"] /\ inbox' = inbox
    BY <1>5 DEF BrokerReads
  <2>2. broker' = next
    BY <2>1, BrokerNow DEF BrokerOf
  <2>3. next.phase = "closed" /\ next.channel = broker.channel
    BY DEF BrokerOf
  <2> HIDE DEF next
  <2>4. more \in Seq(InFrame) /\ DOMAIN more = {} /\ inbox' = inbox \o more
    BY <2>1, InvIs
  <2> HIDE DEF more
  <2>5. ConsumesInLine /\ FirstIsOver /\ FirstCloses /\ broker.channel # 0
    BY DEF FirstInv
  <2>6. \A i \in DOMAIN more : more[i].type # "ConsumeOk"
    BY <2>4
  <2>7. ConsumesInLine'
    BY <1>1, <2>2, <2>3, <2>4, <2>5, <2>6, LinesSent
  <2>8. FirstIsOver'
    BY <2>2, <2>3, <2>4, <2>5, OverSent
  <2>9. FirstCloses'
    <3> SUFFICES ASSUME broker.channel = 1
                 PROVE  inbox' = <<>>
      BY <2>2, <2>3 DEF FirstCloses
    <3>1. Carries(outbox, "Channel.CloseOk")
      <4>1. outbox \in Seq(OutFrame)
        BY InvIs
      <4>2. 1 \in DOMAIN outbox /\ frame = outbox[1]
        BY <1>1, <4>1, TailIs
      <4> QED BY <1>5, <4>2 DEF Carries
    <3> QED BY <1>1, <1>5, <2>1, <2>5, <3>1 DEF FirstCloses
  <2> QED BY <1>1, <2>2, <2>3, <2>5, <2>7, <2>8, <2>9, BrokerFirst
<1>6. CASE broker.phase = "closed" /\ frame.type = "Channel.Open"
  <2> DEFINE channel == b.channel + 1
             next == BrokerOf("open", channel, b.ready, b.consumers, b.unacked, 0,
                              b.delivered, b.settled)
             opened == [type |-> "Channel.OpenOk"]
             more == <<opened>>
  <2>1. /\ inbox' = inbox \o more
        /\ broker' = [broker EXCEPT !.phase = "open", !.channel = channel, !.sent = 0]
    BY <1>1, <1>6 DEF BrokerReads, Sends
  <2>2. channel \in Nat /\ channel # 0 /\ channel # 1
    BY BrokerNow DEF FirstInv
  <2>3. opened \in InFrame /\ ~ Begins(opened)
    BY PlainFrames DEF Begins
  <2> HIDE DEF channel, opened
  <2>4. broker' = next /\ next.phase = "open" /\ next.channel = channel
    BY <2>1, BrokerNow DEF BrokerOf
  <2> HIDE DEF next
  <2>5. more \in Seq(InFrame) /\ \A i \in DOMAIN more : more[i] = opened
    BY <2>3
  <2> HIDE DEF more
  <2>6. FirstIsOver /\ NoneOfFirst(message, inbox)
    BY <1>1, <1>6, FirstIsPast DEF FirstInv
  <2>7. FirstIsOver'
    BY <2>1, <2>3, <2>5, <2>6, OverSent
  <2>8. ConsumesInLine' /\ FirstCloses'
    BY <2>2, <2>4 DEF ConsumesInLine, LinesWith, FirstCloses
  <2> QED BY <1>1, <2>2, <2>4, <2>7, <2>8, BrokerFirst
<1>7. CASE broker.phase = "closed" /\ frame.type # "Channel.Open"
  <2> DEFINE next == BrokerOf("gone", b.channel, b.ready, b.consumers, b.unacked, b.sent,
                              b.delivered, b.settled)
             lost == [type |-> "Disconnected"]
             more == <<lost>>
  <2>1. inbox' = inbox \o more /\ broker' = [broker EXCEPT !.phase = "gone"]
    BY <1>1, <1>7 DEF BrokerReads, Sends
  <2>2. broker' = next
    BY <2>1, BrokerNow DEF BrokerOf
  <2>3. next.phase = "gone" /\ next.channel = broker.channel
    BY DEF BrokerOf
  <2>4. lost \in InFrame /\ lost.type = "Disconnected" /\ ~ Begins(lost)
    BY PlainFrames DEF Begins
  <2> HIDE DEF next, lost
  <2>5. more \in Seq(InFrame) /\ \A i \in DOMAIN more : more[i] = lost
    BY <2>4
  <2> HIDE DEF more
  <2>6. ConsumesInLine /\ FirstIsOver /\ broker.channel # 0
    BY DEF FirstInv
  <2>7. \A i \in DOMAIN more : more[i].type # "ConsumeOk"
    BY <2>4, <2>5
  <2>8. ConsumesInLine'
    BY <1>1, <2>1, <2>2, <2>3, <2>5, <2>6, <2>7, LinesSent
  <2>9. FirstIsOver'
    BY <2>1, <2>2, <2>3, <2>4, <2>5, <2>6, OverSent
  <2>10. FirstCloses'
    BY <2>2, <2>3 DEF FirstCloses
  <2> QED BY <1>1, <2>2, <2>3, <2>6, <2>8, <2>9, <2>10, BrokerFirst
<1>8. CASE /\ ~ (broker.phase = "open" /\ frame.type \in DOMAIN Request)
           /\ ~ (broker.phase = "open" /\ frame.type \in DOMAIN SettledState)
           /\ ~ (broker.phase = "closing" /\ frame.type = "Channel.CloseOk")
           /\ ~ (broker.phase = "closed" /\ frame.type = "Channel.Open")
           /\ ~ (broker.phase = "closed" /\ frame.type # "Channel.Open")
  <2>1. broker' = broker /\ inbox' = inbox
    BY <1>8 DEF BrokerReads
  <2>2. frame.type \notin ConsumeMethods \/ broker.phase # "open"
    BY <1>2, <1>8
  <2> QED BY <1>1, <2>1, <2>2, SentNothingFirst
<1> QED BY <1>3, <1>4, <1>5, <1>6, <1>7, <1>8

LEMMA BrokerTurnFirst ==
    ASSUME IInv, FirstInv, ~ session.failed, Broker
    PROVE  FirstInv'
<1>1. ClientUnchanged
  BY DEF Broker
<1>2. CASE BrokerReads
  BY <1>1, <1>2, BrokerReadsFirst
<1>3. CASE BrokerDeliversToConsumer
  <2>1. PICK tag \in broker.consumers : BrokerDelivers("Deliver", tag)
    BY <1>3 DEF BrokerDeliversToConsumer
  <2>2. outbox' = outbox /\ session.transport = "open" /\ broker.phase = "open"
        /\ tag \in Calls
    BY <1>3, BrokerNow DEF BrokerDeliversToConsumer
  <2> QED BY <1>1, <2>1, <2>2, BrokerDeliversFirst
<1>4. CASE BrokerCancels
  <2>1. PICK tag \in broker.consumers :
           /\ Sends(<<[type |-> "Cancel"]>>)
           /\ broker' = [broker EXCEPT !.consumers = @ \ {tag}]
    BY <1>4 DEF BrokerCancels
  <2> DEFINE tags == broker.consumers \ {tag}
             b == BrokerOf(broker.phase, broker.channel, broker.ready, tags, broker.unacked,
                           broker.sent, broker.delivered, broker.settled)
  <2>2. outbox' = outbox /\ session.transport = "open" /\ broker.phase = "open"
    BY <1>4 DEF BrokerCancels
  <2>3. broker' = [broker EXCEPT !.consumers = tags]
    BY <2>1
  <2> HIDE DEF tags
  <2>4. broker' = b
    BY <2>3, BrokerNow DEF BrokerOf
  <2>5. b.phase = broker.phase /\ b.channel = broker.channel
    BY DEF BrokerOf
  <2> HIDE DEF b
  <2>6. [type |-> "Cancel"].type \notin Content \cup {"ConsumeOk", "Channel.Close"}
    BY DEF Content
  <2> QED BY <1>1, <2>1, <2>2, <2>4, <2>5, <2>6, PlainFrames, SentOneFirst
<1> QED BY <1>2, <1>3, <1>4 DEF Broker

\* What has arrived when the socket is lost is of those that are granted.
LEMMA SocketLostFirst ==
    ASSUME IInv, FirstInv, ~ session.failed, SocketLost
    PROVE  FirstInv'
<1> DEFINE frame == [type |-> "Disconnected"]
<1>1. /\ session' = [session EXCEPT !.transport = "lost"]
      /\ outbox' = <<>> /\ workload' = workload /\ futures' = futures
      /\ consumers' = consumers /\ message' = message /\ app' = app /\ broker' = broker
  BY DEF SocketLost
<1>2. PICK n \in 0..Len(inbox) : inbox' = Append(SubSeq(inbox, 1, n), frame)
  BY DEF SocketLost
<1>3. session'.transport = "lost"
  BY <1>1, InvIs DEF Sessions
<1>4. frame \in InFrame /\ frame.type = "Disconnected" /\ ~ Begins(frame)
  BY PlainFrames DEF Begins
<1> DEFINE some == SubSeq(inbox, 1, n)
<1>5. /\ inbox \in Seq(InFrame) /\ some \in Seq(InFrame) /\ Len(some) = n
      /\ DOMAIN some = 1..n /\ n \in Nat /\ n <= Len(inbox) /\ DOMAIN inbox = 1..Len(inbox)
      /\ \A i \in 1..n : i \in DOMAIN inbox /\ some[i] = inbox[i]
  BY InvIs
<1>6. inbox' = Append(some, frame)
  BY <1>2
<1> HIDE DEF some, frame
<1>7. inbox' = some \o <<frame>>
  <2>1. some \in Seq(InFrame) /\ frame \in InFrame
    BY <1>4, <1>5
  <2>2. Append(some, frame) = some \o <<frame>>
    BY <2>1
  <2> QED BY <1>6, <2>2
<1>8. FirstIsOver'
  <2> SUFFICES ASSUME broker.channel # 1
               PROVE  NoneOfFirst(message, inbox')
    BY <1>1 DEF FirstIsOver, NoneOfFirst
  <2>1. NoneOfFirst(message, inbox)
    BY DEF FirstInv, FirstIsOver
  <2>2. \A i \in DOMAIN inbox' : (i \in 1..n /\ inbox'[i] = inbox[i]) \/ inbox'[i] = frame
    BY <1>4, <1>5, <1>6
  <2>3. \A i \in DOMAIN inbox' : Begins(inbox'[i]) => inbox'[i].delivery.id[1] # 1
    BY <1>4, <1>5, <2>1, <2>2 DEF NoneOfFirst
  <2> QED BY <2>1, <2>3 DEF NoneOfFirst
<1>9. ConsumesInLine'
  <2> SUFFICES ASSUME broker.channel = 1
               PROVE  GrantedInLine(futures, inbox')
    BY <1>1, <1>3 DEF ConsumesInLine, LinesWith
  <2> DEFINE p == futures.pending
             s == Granted(inbox)
             u == Granted(some)
  <2>1. InLine(p, {}, s)
    BY DEF FirstInv, ConsumesInLine, LinesWith, GrantedInLine
  <2>2. /\ s \in Seq(Calls \cup {None}) /\ Len(s) = Len(inbox) /\ DOMAIN s = DOMAIN inbox
        /\ \A i \in DOMAIN inbox : s[i] = GrantedOf(inbox[i])
    BY <1>5, GrantedIs
  <2>3. /\ u \in Seq(Calls \cup {None}) /\ Len(u) = n /\ DOMAIN u = 1..n
        /\ \A i \in 1..n : u[i] = GrantedOf(some[i])
    BY <1>5, GrantedIs
  <2> HIDE DEF s, u, p
  <2>4. u = SubSeq(s, 1, n)
    <3> DEFINE v == SubSeq(s, 1, n)
    <3>1. /\ v \in Seq(Calls \cup {None}) /\ Len(v) = n /\ \A i \in 1..n : v[i] = s[i]
      BY <1>5, <2>2
    <3> HIDE DEF v
    <3>2. \A i \in 1..Len(u) : u[i] = v[i]
      BY <1>5, <2>2, <2>3, <3>1
    <3>3. u = v
      BY <2>3, <3>1, <3>2, SameSequence
    <3> QED BY <3>3 DEF v
  <2>5. InLine(p, {}, u)
    BY <1>5, <2>1, <2>2, <2>4, LineCut
  <2> DEFINE more == <<frame>>
  <2>6. /\ more \in Seq(InFrame) /\ \A i \in DOMAIN more : more[i] = frame
        /\ inbox' = some \o more
    BY <1>4, <1>7
  <2> HIDE DEF more
  <2>7. \A i \in DOMAIN more : more[i].type # "ConsumeOk"
    BY <1>4, <2>6
  <2>8. InLine(p, {}, Granted(some \o more))
    BY <1>5, <2>5, <2>6, <2>7, GrantedMore DEF u
  <2> QED BY <2>6, <2>8 DEF GrantedInLine, p
<1>10. AllMeant(app') /\ GetsAreGets(futures'.done) /\ OwnCallbacks'
  BY <1>1 DEF FirstInv, OwnCallbacks
<1>11. FirstCloses'
  BY <1>3 DEF FirstCloses
<1>12. broker'.channel # 0
  BY <1>1 DEF FirstInv
<1> QED BY <1>1, <1>8, <1>9, <1>10, <1>11, <1>12 DEF FirstInv

---------------------------------------------------------------------------
(* The beginning, and every step *)

LEMMA InitFirst ==
    ASSUME Init
    PROVE  FirstInv
<1>1. /\ session.transport = "open" /\ inbox = <<>> /\ outbox = <<>> /\ message = None
      /\ consumers = <<>> /\ lock = <<>>
      /\ app.handed = {} /\ app.mailbox = <<>>
      /\ futures.pending = <<>> /\ futures.done = <<>>
      /\ broker.phase = "open" /\ broker.channel = 1
  BY DEF Init
<1>2. DOMAIN <<>> = {}
  OBVIOUS
<1>3. /\ AllMeant(app) /\ GetsAreGets(futures.done) /\ OwnCallbacks
      /\ FirstIsOver
  BY <1>1, <1>2 DEF AllMeant, GetsAreGets, OwnCallbacks, FirstIsOver
<1>4. FirstCloses
  BY <1>1, <1>2 DEF FirstCloses, Carries
<1>5. ConsumesInLine
  <2>1. /\ DOMAIN Granted(inbox) = {} /\ DOMAIN Asked(outbox) = {}
        /\ DOMAIN InQueue(lock, task) = {}
    BY <1>1, <1>2 DEF Granted, Asked, InQueue
  <2>2. /\ CallsIn(Granted(inbox)) = {} /\ CallsIn(Asked(outbox)) = {}
        /\ CallsIn(InQueue(lock, task)) = {}
    BY <2>1 DEF CallsIn
  <2>3. {futures.pending[n].call : n \in DOMAIN futures.pending} = {}
    BY <1>1, <1>2
  <2>4. /\ GrantedInLine(futures, inbox) /\ AskedInLine(futures, inbox, outbox)
        /\ QueuedInLine(futures, inbox, outbox, lock, task)
    BY <2>1, <2>2, <2>3 DEF GrantedInLine, AskedInLine, QueuedInLine, InLine
  <2> QED BY <2>4 DEF ConsumesInLine, LinesWith
<1> QED BY <1>1, <1>3, <1>4, <1>5 DEF FirstInv

\* A client that has failed stays so.
LEMMA FailsStays ==
    ASSUME IInv, session.failed, NEW raised, Fails(raised)
    PROVE  session'.failed
BY InvIs DEF Fails, Sessions

LEMMA FailedStays ==
    ASSUME IInv, session.failed, Next
    PROVE  session'.failed
<1>1. session \in Sessions
  BY InvIs
<1>2. CASE Application
  BY <1>2, FailsStays DEF Application, Settle, Begin, TakeNext, Leave
<1>3. CASE RunReady /\ FramesUnchanged
  BY <1>3 DEF RunReady
<1>4. ASSUME NEW t \in Task, Proceeds(t)
      PROVE  session'.failed
  <2>1. session' = session \/ session' = [session EXCEPT !.lastError = None]
    BY <1>4 DEF Proceeds, Acquire, FutureIsDone, PollAnswered, PollChannelClosed, PollRaises,
       RaiseLastError
  <2> QED BY <1>1, <2>1 DEF Sessions
<1>5. CASE Receive
  <2>1. CASE ReceiveConsumeOk \/ ReceiveCancelOk \/ ReceiveGetEmpty
    BY <2>1, FailsStays DEF ReceiveConsumeOk, ReceiveCancelOk, ReceiveGetEmpty, Receives
  <2>2. CASE \/ ReceiveMessage("Deliver", "BASIC_DELIVER_RECEIVED")
             \/ ReceiveMessage("GetOk", "BASIC_GETOK_RECEIVED")
             \/ ReceiveHeader \/ ReceiveDeclareOk
    BY <2>2, FailsStays DEF ReceiveMessage, ReceiveHeader, ReceiveDeclareOk, Receives
  <2>3. CASE ReceiveBody
    BY <2>3, FailsStays DEF ReceiveBody, Complete, Receives
  <2>4. CASE ReceiveCancel \/ Disconnected
    BY <2>4 DEF ReceiveCancel, Disconnected
  <2>5. CASE ReceiveChannelClose
    <3>1. \/ Receives("CHANNEL_CLOSE_RECEIVED")
          \/ session' = [session EXCEPT !.lastError = "NotFound", !.channelOpen = FALSE]
      BY <2>5 DEF ReceiveChannelClose
    <3> QED BY <1>1, <3>1, FailsStays DEF Receives, Sessions
  <2>6. CASE ReceiveChannelOpenOk
    BY <1>1, <2>6 DEF ReceiveChannelOpenOk, Sessions
  <2> QED BY <1>5, <2>1, <2>2, <2>3, <2>4, <2>5, <2>6 DEF Receive
<1>6. CASE Broker
  BY <1>6 DEF Broker, ClientUnchanged
<1>7. CASE SocketLost
  BY <1>1, <1>7 DEF SocketLost, Sessions
<1> QED BY <1>2, <1>3, <1>4, <1>5, <1>6, <1>7 DEF Next

LEMMA StepKeepsFirst ==
    ASSUME IInv, FirstInv, [Next]_vars
    PROVE  FirstInv'
<1>1. CASE UNCHANGED vars
  BY <1>1 DEF vars, FirstInv, AllMeant, GetsAreGets, OwnCallbacks, FirstIsOver, NoneOfFirst,
     FirstCloses, ConsumesInLine, LinesWith
<1>2. CASE Next /\ session.failed
  BY <1>2, FailedStays, FailedFirst
<1>3. CASE Next /\ ~ session.failed
  BY <1>3, FirstLocal, ReceiveFirst, BrokerTurnFirst, SocketLostFirst DEF Next
<1> QED BY <1>1, <1>2, <1>3

\* The futures of basic_consume and of consume are pending in the order in which their
\* answers come, as long as the first channel is open.  (basic_consume, _on_frame)
THEOREM FirstInvariance == Spec => []FirstInv
BY ConsumersInvariance, InitFirst, StepKeepsFirst, PTL DEF Spec

\* Every message of the first channel that was sent for a consumer.
FirstAsMeant ==
    ~ session.failed =>
        \A h \in app.handed :
            ~ h.message.delivery.get /\ h.message.delivery.id[1] = 1
               => h.to = h.message.delivery.for

LEMMA FirstIsMeant ==
    ASSUME FirstInv
    PROVE  FirstAsMeant
BY DEF FirstInv, FirstAsMeant, AllMeant, Meant

\* On the first channel a message goes to the callback or to the generator of the call
\* whose consumer it was sent for, whatever the tasks do at once and whatever the broker
\* refuses.  (_on_frame, _pop_message)
THEOREM FirstArrivesAsMeant == Spec => []FirstAsMeant
BY FirstInvariance, FirstIsMeant, PTL

LEMMA InvariantHandedAsSent ==
    ASSUME IInv, FirstInv, ~ workload.careful
    PROVE  HandedAsSent
<1> SUFFICES ASSUME ~ session.failed, NEW h \in app.handed
             PROVE  LET msg == h.message IN
                    /\ HasAddressee(msg.delivery) => h.to = msg.delivery.for
                    /\ msg.header = msg.delivery /\ msg.bodies = Bodies(msg.delivery)
  BY DEF HandedAsSent
<1> DEFINE msg == h.message
<1>1. HasAddressee(msg.delivery) => h.to = msg.delivery.for
  BY FirstIsMeant DEF HasAddressee, FirstAsMeant
<1>2. msg.header = msg.delivery /\ msg.bodies = Bodies(msg.delivery)
  <2>1. msg \in Arrived
    BY DEF Arrived
  <2>2. msg # None
    <3>1. msg \in Message
      BY InvIs, AppIs
    <3> QED BY <3>1, MessageIs
  <2> QED BY <2>1, <2>2, InvariantWhole DEF ArrivedWhole
<1> QED BY <1>1, <1>2

\* What an application that is not careful is handed is what was sent to it.
\* (_on_frame, _pop_message)
THEOREM HandedArrivesAsSent == Spec => [](workload.careful \/ HandedAsSent)
<1>1. IInv /\ FirstInv => (workload.careful \/ HandedAsSent)
  BY InvariantHandedAsSent
<1> QED BY <1>1, ConsumersInvariance, FirstInvariance, PTL
=============================================================================
