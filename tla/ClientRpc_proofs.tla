-------------------------- MODULE ClientRpc_proofs --------------------------
(***************************************************************************)
(* Proofs about ClientRpc, for any number of tasks, of calls and of        *)
(* channels, and for every set of requests: nothing follows                *)
(* Connection.Close, and the client and the broker agree on the channel.   *)
(*                                                                         *)
(* Then, where the broker closes a channel only to refuse a request, and   *)
(* refuses requests of one task only: no call takes the answer or the      *)
(* error of another, the client stays usable, and close() disconnects.     *)
(* The invariant for these says where the client and the broker are in the *)
(* one exchange that may be under way.                                     *)
(***************************************************************************)
EXTENDS ClientRpc, FrameSequences, TLAPS

---------------------------------------------------------------------------
(* The types, of the frames and of the broker too *)

Managers == SM!ManagerWith(Error)
Callable == Requests \cup {"close"}
Numbers == 0..MaxChannels
Calls == Task \X Nat

InFrame == [type : Requests \cup {"Channel.OpenOk", "Channel.CloseOk",
                                  "Connection.CloseOk", "Disconnected"},
            channel : Numbers]
           \cup [type : {"Channel.Close"}, channel : Numbers, code : Codes]
           \cup [type : {"Connection.Close"}, channel : Numbers, code : {"ChannelError"}]
OutFrame == [type : Requests \cup {"Channel.Close"}, channel : Numbers, by : Calls]
            \cup [type : {"Channel.Open", "Channel.CloseOk", "Connection.Close"},
                  channel : Numbers]

WireOK ==
    /\ inbox \in Seq(InFrame) /\ outbox \in Seq(OutFrame)
    /\ broker \in [channel : Numbers, closing : BOOLEAN,
                   mode : {"normal", "tx", "confirm"}, gone : BOOLEAN,
                   unsolicited : 0..MaxUnsolicited, refusals : SUBSET Requests,
                   answers : SUBSET (Calls \X ({"answered"} \cup Codes))]

\* A task that is in a call has a call left, and a task that queues for the RPC
\* lock or holds it is in the queue of the lock.
CallsOK ==
    /\ \A t \in Task : task[t].pc # "idle" => task[t].left > 0 /\ task[t].call \in Callable
    /\ \A t \in Task : task[t].pc \in {"queued", "waiting"} => t \in Elements(lock)
    /\ \A t \in Task : task[t].pc = "waiting" => Head(lock) = t

---------------------------------------------------------------------------
(* What follows Connection.Close *)

\* The body of close(), behind its lock.
InClose(t) == task[t].call = "close" /\ task[t].pc \notin {"idle", "closeQueued"}

\* One task at a time is in the body of close(), the first in the queue of its lock.
CloseIsExclusive ==
    /\ \A i \in DOMAIN closeLock :
           task[closeLock[i]].pc # "idle" /\ task[closeLock[i]].call = "close"
    /\ \A i, j \in DOMAIN closeLock : closeLock[i] = closeLock[j] => i = j
    /\ \A t \in Task : InClose(t) => closeLock # <<>> /\ Head(closeLock) = t
    /\ \A t \in Task : task[t].pc = "closeQueued" =>
           task[t].call = "close" /\ t \in Elements(closeLock)

\* Once Connection.Close is on its way the client is closed, and no task is about
\* to disconnect it again.
ClosingIsFinal ==
    Carries(outbox, "Connection.Close") =>
        /\ manager.state \in {"CLOSING", "CLOSED", "EXCEPTION"}
        /\ \A t \in Task : InClose(t) => task[t].pc \notin {"queued", "waiting"}

---------------------------------------------------------------------------
(* The channel of the client and the channel of the broker *)

\* The connection as the client and the network see it.
Live == channel0 = "open" /\ transport = "open"

\* The broker has closed the channel and the client does not know of it yet.
CloseComing == Carries(inbox, "Channel.Close") \/ Carries(inbox, "Channel.CloseOk")

\* The client may take its channel for open, or is about to.
TakenForOpen == channelOpen \/ Carries(inbox, "Channel.OpenOk")

Reopening == Carries(outbox, "Channel.Open") \/ Carries(inbox, "Channel.OpenOk")

\* The states that the client passes through without resting there, or before
\* its first channel.
Passing == {"OPENED", "OPENING_CHANNEL", "CHANNEL_CLOSE_RECEIVED"}

\* At most one request to open the channel is under way, and it asks for the
\* channel the client counts on; what acknowledges the closing of the old channel
\* goes ahead of it.
OpensOnce ==
    /\ \A i, j \in DOMAIN outbox :
           outbox[i].type = "Channel.Open" /\ outbox[j].type = "Channel.Open" => i = j
    /\ \A i, j \in DOMAIN inbox :
           inbox[i].type = "Channel.OpenOk" /\ inbox[j].type = "Channel.OpenOk" => i = j
    /\ ~ (Carries(outbox, "Channel.Open") /\ Carries(inbox, "Channel.OpenOk"))
    /\ \A i \in DOMAIN outbox :
           outbox[i].type = "Channel.Open" =>
               /\ outbox[i].channel = channel
               /\ \A j \in DOMAIN outbox : i < j => outbox[j].type # "Channel.CloseOk"

ChannelFollows ==
    /\ Reopening => manager.state = "CHANNEL_OPEN_SENT"
    /\ manager.state \in {"CHANNEL_OPEN_SENT", "CHANNEL_CLOSEOK_SENT",
                          "CHANNEL_CLOSEOK_RECEIVED"} => ~ channelOpen
    /\ OpensOnce
    /\ Carries(outbox, "Channel.CloseOk") => ~ TakenForOpen
    /\ broker.closing => broker.channel # 0
    /\ TakenForOpen => CloseComing \/ (broker.channel = channel /\ ~ broker.closing)

\* While the socket holds, both ends of the channel keep in step.
ChannelInStep ==
    /\ manager.state \notin Passing
    /\ Live => ~ Carries(outbox, "Connection.Close") /\ ~ Carries(inbox, "Disconnected")
    /\ Live /\ broker.gone => Carries(inbox, "Connection.Close")
    /\ Live /\ ~ broker.gone => ChannelFollows

IInv ==
    /\ TypeOK /\ WireOK
    /\ CallsOK /\ CloseIsExclusive
    /\ ClosingIsFinal /\ NothingFollowsClose
    /\ ChannelInStep

---------------------------------------------------------------------------
(* The tables of the states *)

\* The states that requests set, and the states their answers set.
SentStates ==
    {"EXCHANGE_DECLARE_SENT", "EXCHANGE_DELETE_SENT", "EXCHANGE_BIND_SENT",
     "EXCHANGE_UNBIND_SENT", "QUEUE_DECLARE_SENT", "QUEUE_DELETE_SENT",
     "QUEUE_BIND_SENT", "QUEUE_UNBIND_SENT", "QUEUE_PURGE_SENT", "TX_SELECT_SENT",
     "TX_COMMIT_SENT", "TX_ROLLBACK_SENT", "BASIC_QOS_SENT", "BASIC_RECOVER_SENT",
     "CONFIRM_SELECT_SENT"}
OkStates ==
    {"EXCHANGE_DECLAREOK_RECEIVED", "EXCHANGE_DELETEOK_RECEIVED",
     "EXCHANGE_BINDOK_RECEIVED", "EXCHANGE_UNBINDOK_RECEIVED",
     "QUEUE_DECLAREOK_RECEIVED", "QUEUE_DELETEOK_RECEIVED", "QUEUE_BINDOK_RECEIVED",
     "QUEUE_UNBINDOK_RECEIVED", "QUEUE_PURGEOK_RECEIVED", "TX_SELECTOK_RECEIVED",
     "TX_COMMITOK_RECEIVED", "TX_ROLLBACKOK_RECEIVED", "BASIC_QOSOK_RECEIVED",
     "BASIC_RECOVEROK_RECEIVED", "CONFIRM_SELECTOK_RECEIVED"}

LEMMA MethodsAre ==
    Method = {"exchange_declare", "exchange_delete", "exchange_bind", "exchange_unbind",
              "queue_declare", "queue_delete", "queue_bind", "queue_unbind",
              "queue_purge", "tx_select", "tx_commit", "tx_rollback", "qos_prefetch",
              "basic_recover", "confirm_select", "close"}
BY DEF Method, ExchangeMethods, QueueMethods, TxMethods, ChannelMethods

LEMMA TablesAre ==
    /\ \A m \in DOMAIN ExchangeMethods : StatesOf(m) = ExchangeMethods[m]
    /\ \A m \in DOMAIN QueueMethods : StatesOf(m) = QueueMethods[m]
    /\ \A m \in DOMAIN TxMethods : StatesOf(m) = TxMethods[m]
    /\ \A m \in DOMAIN ChannelMethods : StatesOf(m) = ChannelMethods[m]
<1> DEFINE D1 == DOMAIN ExchangeMethods
           D2 == DOMAIN QueueMethods
           D3 == DOMAIN TxMethods
           D4 == DOMAIN ChannelMethods
<1>1. /\ D1 \cap D2 = {} /\ D1 \cap D3 = {} /\ D1 \cap D4 = {}
      /\ D2 \cap D3 = {} /\ D2 \cap D4 = {} /\ D3 \cap D4 = {}
  BY DEF ExchangeMethods, QueueMethods, TxMethods, ChannelMethods
<1>2. \A m : StatesOf(m) = CASE m \in D1 -> ExchangeMethods[m]
                              [] m \in D2 -> QueueMethods[m]
                              [] m \in D3 -> TxMethods[m]
                              [] m \in D4 -> ChannelMethods[m]
  BY DEF StatesOf
<1> HIDE DEF D1, D2, D3, D4
<1>3. /\ \A m \in D1 : StatesOf(m) = ExchangeMethods[m]
      /\ \A m \in D2 : StatesOf(m) = QueueMethods[m]
      /\ \A m \in D3 : StatesOf(m) = TxMethods[m]
      /\ \A m \in D4 : StatesOf(m) = ChannelMethods[m]
  BY <1>1, <1>2
<1> QED BY <1>3 DEF D1, D2, D3, D4

LEMMA RequestStates ==
    ASSUME NEW m \in Requests
    PROVE  Sent(m) \in SentStates /\ Ok(m) \in OkStates
<1>1. m \in Method \ {"close"}
  BY ClientRpcAssumption
<1> DEFINE row == StatesOf(m)
<1>2. CASE m \in DOMAIN ExchangeMethods
  <2>1. row = ExchangeMethods[m]
    BY <1>2, TablesAre
  <2> HIDE DEF row
  <2>2. row[1] \in SentStates /\ row[2] \in OkStates
    BY <1>2, <2>1 DEF ExchangeMethods, SentStates, OkStates
  <2> QED BY <2>2 DEF row, Sent, Ok
<1>3. CASE m \in DOMAIN QueueMethods
  <2>1. row = QueueMethods[m]
    BY <1>3, TablesAre
  <2> HIDE DEF row
  <2>2. row[1] \in SentStates /\ row[2] \in OkStates
    BY <1>3, <2>1 DEF QueueMethods, SentStates, OkStates
  <2> QED BY <2>2 DEF row, Sent, Ok
<1>4. CASE m \in DOMAIN TxMethods
  <2>1. row = TxMethods[m]
    BY <1>4, TablesAre
  <2> HIDE DEF row
  <2>2. row[1] \in SentStates /\ row[2] \in OkStates
    BY <1>4, <2>1 DEF TxMethods, SentStates, OkStates
  <2> QED BY <2>2 DEF row, Sent, Ok
<1>5. CASE m \in DOMAIN ChannelMethods
  <2>1. row = ChannelMethods[m]
    BY <1>5, TablesAre
  <2> HIDE DEF row
  <2>2. row[1] \in SentStates /\ row[2] \in OkStates
    BY <1>1, <1>5, <2>1 DEF ChannelMethods, SentStates, OkStates
  <2> QED BY <2>2 DEF row, Sent, Ok
<1> QED BY <1>1, <1>2, <1>3, <1>4, <1>5 DEF Method

LEMMA CloseStates ==
    Sent("close") = "CHANNEL_CLOSE_SENT" /\ Ok("close") = "CHANNEL_CLOSEOK_RECEIVED"
<1>1. "close" \in DOMAIN ChannelMethods
  BY DEF ChannelMethods
<1> QED BY <1>1, TablesAre DEF Sent, Ok, ChannelMethods

LEMMA StatesAre ==
    SentStates \cup OkStates \cup
    {"EXCEPTION", "UNINITIALIZED", "CLOSING", "CLOSED", "OPENED", "OPENING_CHANNEL",
     "CHANNEL_OPEN_SENT", "CHANNEL_OPENOK_RECEIVED", "CHANNEL_CLOSE_SENT",
     "CHANNEL_CLOSE_RECEIVED", "CHANNEL_CLOSEOK_SENT", "CHANNEL_CLOSEOK_RECEIVED"}
        \subseteq ClientState
BY DEF ClientState, Steps, Strict, Refusable, IdleWith, IdleAfter, SentStates, OkStates

LEMMA TransitionsAre ==
    /\ \A s \in DOMAIN Steps : ClientTransitions[s] = Steps[s]
    /\ \A s \in DOMAIN Strict : ClientTransitions[s] = Strict[s]
    /\ \A s \in DOMAIN Refusable :
          ClientTransitions[s] = Refusable[s] \cup {"CHANNEL_CLOSE_RECEIVED"}
    /\ \A s \in DOMAIN IdleWith : ClientTransitions[s] = IdleWith[s] \cup Idle
    /\ \A s \in IdleAfter : ClientTransitions[s] = Idle
<1> DEFINE D1 == DOMAIN Steps
           D2 == DOMAIN Strict
           D3 == DOMAIN Refusable
           D4 == DOMAIN IdleWith
<1>1. /\ D1 \cap D2 = {} /\ D1 \cap D3 = {} /\ D1 \cap D4 = {} /\ D1 \cap IdleAfter = {}
      /\ D2 \cap D3 = {} /\ D2 \cap D4 = {} /\ D2 \cap IdleAfter = {}
      /\ D3 \cap D4 = {} /\ D3 \cap IdleAfter = {} /\ D4 \cap IdleAfter = {}
  BY DEF Steps, Strict, Refusable, IdleWith, IdleAfter
<1>2. ClientTransitions = [s \in D1 \cup D2 \cup D3 \cup D4 \cup IdleAfter |->
                              CASE s \in D1 -> Steps[s]
                                [] s \in D2 -> Strict[s]
                                [] s \in D3 -> Refusable[s] \cup {"CHANNEL_CLOSE_RECEIVED"}
                                [] s \in D4 -> IdleWith[s] \cup Idle
                                [] s \in IdleAfter -> Idle]
  BY DEF ClientTransitions, ClientState
<1> HIDE DEF D1, D2, D3, D4
<1>3. /\ \A s \in D1 : ClientTransitions[s] = Steps[s]
      /\ \A s \in D2 : ClientTransitions[s] = Strict[s]
      /\ \A s \in D3 : ClientTransitions[s] = Refusable[s] \cup {"CHANNEL_CLOSE_RECEIVED"}
      /\ \A s \in D4 : ClientTransitions[s] = IdleWith[s] \cup Idle
      /\ \A s \in IdleAfter : ClientTransitions[s] = Idle
  BY <1>1, <1>2
<1> QED BY <1>3 DEF D1, D2, D3, D4

LEMMA StepsAre ==
    /\ ClientTransitions["OPENING_CHANNEL"] = {"CHANNEL_OPEN_SENT"}
    /\ ClientTransitions["CHANNEL_CLOSE_RECEIVED"] = {"CHANNEL_CLOSEOK_SENT"}
    /\ ClientTransitions["CHANNEL_CLOSEOK_SENT"] = {"OPENING_CHANNEL"}
    /\ ClientTransitions["CHANNEL_CLOSEOK_RECEIVED"] = {"OPENING_CHANNEL", "CLOSING"}
    /\ ClientTransitions["CLOSING"] = {"CLOSED"}
    /\ ClientTransitions["CLOSED"] = {"CONNECTING"}
    /\ ClientTransitions["EXCEPTION"] = {"CLOSING", "CLOSED", "DISCONNECTED"}
    /\ ClientTransitions["CHANNEL_OPEN_SENT"] = {"CHANNEL_OPENOK_RECEIVED"}
<1>1. "CHANNEL_OPEN_SENT" \in DOMAIN Strict
      /\ Strict["CHANNEL_OPEN_SENT"] = {"CHANNEL_OPENOK_RECEIVED"}
  BY DEF Strict
<1>2. /\ {"OPENING_CHANNEL", "CHANNEL_CLOSE_RECEIVED", "CHANNEL_CLOSEOK_SENT",
          "CHANNEL_CLOSEOK_RECEIVED", "CLOSING", "CLOSED", "EXCEPTION"} \subseteq DOMAIN Steps
      /\ Steps["OPENING_CHANNEL"] = {"CHANNEL_OPEN_SENT"}
      /\ Steps["CHANNEL_CLOSE_RECEIVED"] = {"CHANNEL_CLOSEOK_SENT"}
      /\ Steps["CHANNEL_CLOSEOK_SENT"] = {"OPENING_CHANNEL"}
      /\ Steps["CHANNEL_CLOSEOK_RECEIVED"] = {"OPENING_CHANNEL", "CLOSING"}
      /\ Steps["CLOSING"] = {"CLOSED"}
      /\ Steps["CLOSED"] = {"CONNECTING"}
      /\ Steps["EXCEPTION"] = {"CLOSING", "CLOSED", "DISCONNECTED"}
  BY DEF Steps
<1> QED BY <1>1, <1>2, TransitionsAre

\* From where the client may open a channel.
LEMMA OpensFrom ==
    ASSUME NEW s \in ClientState, "OPENING_CHANNEL" \in ClientTransitions[s]
    PROVE  s \in {"OPENED", "CHANNEL_CLOSEOK_SENT", "CHANNEL_CLOSEOK_RECEIVED"}
<1>1. "OPENING_CHANNEL" \notin Idle
  BY DEF Idle
<1>2. CASE s \in DOMAIN Steps
  <2>1. "OPENING_CHANNEL" \in Steps[s]
    BY <1>2, TransitionsAre
  <2> QED BY <1>2, <2>1 DEF Steps
<1>3. CASE s \in DOMAIN Strict
  <2>1. "OPENING_CHANNEL" \in Strict[s]
    BY <1>3, TransitionsAre
  <2> QED BY <1>3, <2>1 DEF Strict
<1>4. CASE s \in DOMAIN Refusable
  <2>1. "OPENING_CHANNEL" \in Refusable[s]
    BY <1>4, TransitionsAre
  <2> QED BY <1>4, <2>1 DEF Refusable
<1>5. CASE s \in DOMAIN IdleWith
  <2>1. "OPENING_CHANNEL" \in IdleWith[s]
    BY <1>1, <1>5, TransitionsAre
  <2> QED BY <1>5, <2>1 DEF IdleWith
<1>6. CASE s \in IdleAfter
  BY <1>1, <1>6, TransitionsAre
<1> QED BY <1>2, <1>3, <1>4, <1>5, <1>6 DEF ClientState

---------------------------------------------------------------------------
(* The operators of the state manager keep its type *)

Events == SUBSET (ClientState \X Task)

LEMMA ManagersAre ==
    Managers = [state : ClientState, exception : Error \cup {None}, waits : Events,
                ready : Seq(Events), fired : Events]
BY DEF Managers, SM!ManagerWith, SM!Event, Events

LEMMA SetStateKeepsType ==
    ASSUME NEW m \in Managers, NEW value \in ClientState, NEW exc \in Error \cup {None},
           NEW refusal \in Error
    PROVE  /\ SM!SetState(m, value, exc, refusal) \in Managers
           /\ SM!SetState(m, value, exc, refusal).state =
                  IF SM!Refuses(m, value, exc) THEN m.state ELSE value
<1>1. SM!Refuse(m, refusal) \in Managers /\ SM!Refuse(m, refusal).state = m.state
  BY ManagersAre DEF SM!Refuse
<1>2. SM!Scheduled(m, value) \in Events
  BY ManagersAre DEF SM!Scheduled, Events
<1>3. (IF SM!Scheduled(m, value) = {} THEN m.ready
       ELSE Append(m.ready, SM!Scheduled(m, value))) \in Seq(Events)
  BY <1>2, ManagersAre
<1>4. SM!Enter(m, value, exc) \in Managers /\ SM!Enter(m, value, exc).state = value
  BY <1>3, ManagersAre DEF SM!Enter
<1> QED BY <1>1, <1>4 DEF SM!SetState, SM!Refuses, SM!Unchanged

LEMMA EnterKeepsType ==
    ASSUME NEW m \in Managers, NEW value \in ClientState
    PROVE  /\ Enter(m, value) \in Managers
           /\ Enter(m, value).state =
                  IF SM!Refuses(m, value, None) THEN m.state ELSE value
           /\ SM!Refuse(m, STE) \in Managers /\ SM!Refuse(m, STE).state = m.state
<1>1. STE \in Error
  BY DEF Error
<1>2. SM!Refuse(m, STE) \in Managers /\ SM!Refuse(m, STE).state = m.state
  BY <1>1, ManagersAre DEF SM!Refuse
<1> QED BY <1>1, <1>2, SetStateKeepsType DEF Enter

LEMMA RegisterKeepsType ==
    ASSUME NEW m \in Managers, NEW t \in Task, NEW S \in SUBSET ClientState
    PROVE  SM!Register(m, t, S) \in Managers /\ SM!Register(m, t, S).state = m.state
BY ManagersAre DEF SM!Register, Events

LEMMA RunCallbacksKeepsType ==
    ASSUME NEW m \in Managers, m.ready # <<>>
    PROVE  SM!RunCallbacks(m) \in Managers /\ SM!RunCallbacks(m).state = m.state
<1>1. m.ready \in Seq(Events) /\ m.fired \in Events
  BY ManagersAre
<1>2. Head(m.ready) \in Events /\ Tail(m.ready) \in Seq(Events)
  <2> HIDE DEF Events
  <2> QED BY <1>1
<1>3. m.fired \cup Head(m.ready) \in Events
  BY <1>1, <1>2 DEF Events
<1> QED BY <1>2, <1>3, ManagersAre DEF SM!RunCallbacks

LEMMA AfterPollKeepsType ==
    ASSUME NEW m \in Managers, NEW t \in Task
    PROVE  SM!AfterPoll(m, t) \in Managers /\ SM!AfterPoll(m, t).state = m.state
<1>1. m.ready \in Seq(Events) /\ m.fired \in Events /\ m.waits \in Events
  BY ManagersAre
<1>2. [i \in DOMAIN m.ready |-> m.ready[i] \ SM!EventsOf(t)] \in Seq(Events)
  <2>1. /\ Len(m.ready) \in Nat /\ DOMAIN m.ready = 1..Len(m.ready)
        /\ \A i \in DOMAIN m.ready : m.ready[i] \in Events
    BY <1>1
  <2>2. \A i \in DOMAIN m.ready : m.ready[i] \ SM!EventsOf(t) \in Events
    BY <2>1 DEF Events
  <2> HIDE DEF Events
  <2> QED BY <2>1, <2>2
<1>3. m.fired \ SM!EventsOf(t) \in Events /\ m.waits \ SM!EventsOf(t) \in Events
  BY <1>1 DEF Events
<1>4. SM!ClearWaits(m, t) \in Managers /\ SM!ClearWaits(m, t).state = m.state
  BY <1>2, <1>3, ManagersAre DEF SM!ClearWaits
<1> QED BY <1>4, ManagersAre DEF SM!AfterPoll

---------------------------------------------------------------------------
(* The tasks and the locks *)

Pcs == {"idle", "queued", "closeQueued", "waiting", "opening", "raising", "closing",
        "reconnecting"}
Records == [pc : Pcs, call : Method \cup {None}, result : Outcome \cup {None},
            left : 0..MaxCalls]

FlowOK ==
    /\ lock \in Seq(Task) /\ closeLock \in Seq(Task) /\ task \in [Task -> Records]
    /\ CallsOK /\ CloseIsExclusive

LEMMA CallablesAre == Callable \subseteq Method
BY ClientRpcAssumption, MethodsAre DEF Callable

\* The task t holds the lock, whose queue is held.
Holds(t, held) ==
    /\ held \in Seq(Task) /\ held # <<>> /\ Head(held) = t
    /\ \A u \in Task : u # t =>
           /\ task[u].pc # "waiting"
           /\ task[u].pc = "queued" => u \in Elements(held)

LEMMA FreeLockHolds ==
    ASSUME FlowOK, NEW t \in Task, lock = <<>>
    PROVE  Holds(t, <<t>>)
<1>1. Elements(lock) = {}
  BY DEF Elements
<1> QED BY <1>1 DEF FlowOK, CallsOK, Holds

LEMMA HeadHolds ==
    ASSUME FlowOK, NEW t \in Task, task[t].pc \in {"queued", "waiting"}, Head(lock) = t
    PROVE  Holds(t, lock)
<1>1. t \in Elements(lock)
  BY DEF FlowOK, CallsOK
<1>2. lock # <<>>
  BY <1>1 DEF Elements
<1> QED BY <1>2 DEF FlowOK, CallsOK, Holds

LEMMA ReleasedLock ==
    ASSUME NEW t \in Task, NEW held, Holds(t, held)
    PROVE  /\ Tail(held) \in Seq(Task)
           /\ \A u \in Task : u # t /\ task[u].pc = "queued" => u \in Elements(Tail(held))
<1>1. held \in Seq(Task) /\ held # <<>> /\ Head(held) = t
  BY DEF Holds
<1>2. /\ \A i \in DOMAIN Tail(held) : Tail(held)[i] = held[i + 1]
      /\ \A i \in DOMAIN held : i = 1 \/ i - 1 \in DOMAIN Tail(held)
      /\ held[1] = t /\ DOMAIN held \subseteq Nat
  BY <1>1, TailIs
<1>3. ASSUME NEW u \in Task, u # t, task[u].pc = "queued"
      PROVE  u \in Elements(Tail(held))
  <2>1. PICK i \in DOMAIN held : held[i] = u
    BY <1>3 DEF Holds, Elements
  <2>2. i - 1 \in DOMAIN Tail(held) /\ Tail(held)[i - 1] = held[(i - 1) + 1]
    BY <1>2, <1>3, <2>1
  <2>3. (i - 1) + 1 = i
    BY <1>2, <2>1
  <2> QED BY <2>1, <2>2, <2>3 DEF Elements
<1>4. Tail(held) \in Seq(Task)
  BY <1>1
<1> QED BY <1>3, <1>4

\* The steps of a task, as the locks see them: the task leaves the RPC lock alone,
\* lets go of it, keeps it, or queues for it.
LeavesLock(t) == lock' = lock /\ task[t].pc \notin {"queued", "waiting"}
                              /\ task'[t].pc \notin {"queued", "waiting"}
LetsGo(t) == task'[t].pc \notin {"queued", "waiting"}
                 /\ \E held : Holds(t, held) /\ lock' = Tail(held)
KeepsLock(t) == task'[t].pc = "waiting" /\ \E held : Holds(t, held) /\ lock' = held
QueuesUp(t) == task'[t].pc = "queued" /\ lock # <<>> /\ lock' = Append(lock, t)

Locks(t) == LeavesLock(t) \/ LetsGo(t) \/ KeepsLock(t) \/ QueuesUp(t)

\* Only the record of t changes; its call goes on, and the call is one.
Alters(t) ==
    /\ task' \in [Task -> Records]
    /\ \A u \in Task : u # t => task'[u] = task[u]
    /\ task'[t].pc # "idle" => task'[t].left > 0 /\ task'[t].call \in Callable

LEMMA LocksKeepCalls ==
    ASSUME FlowOK, NEW t \in Task, Alters(t), Locks(t)
    PROVE  CallsOK' /\ lock' \in Seq(Task)
<1>1. \A u \in Task : task'[u].pc # "idle" => task'[u].left > 0 /\ task'[u].call \in Callable
  BY DEF FlowOK, CallsOK, Alters
<1>2. CASE LeavesLock(t)
  BY <1>1, <1>2 DEF FlowOK, CallsOK, Alters, LeavesLock, Elements
<1>3. CASE LetsGo(t)
  <2>1. PICK held : Holds(t, held) /\ lock' = Tail(held)
    BY <1>3 DEF LetsGo
  <2>2. /\ lock' \in Seq(Task)
        /\ \A u \in Task : u # t /\ task[u].pc = "queued" => u \in Elements(lock')
        /\ \A u \in Task : u # t => task[u].pc # "waiting"
    BY <2>1, ReleasedLock DEF Holds
  <2> QED BY <1>1, <1>3, <2>2 DEF CallsOK, Alters, LetsGo, Elements
<1>4. CASE KeepsLock(t)
  <2>1. Holds(t, lock') /\ task'[t].pc = "waiting"
    BY <1>4 DEF KeepsLock
  <2>2. lock' \in Seq(Task) /\ lock' # <<>> /\ Head(lock') = t
    BY <2>1 DEF Holds
  <2>3. t \in Elements(lock')
    BY <2>2, TailElements
  <2> QED BY <1>1, <2>1, <2>2, <2>3 DEF CallsOK, Alters, Holds, Elements
<1>5. CASE QueuesUp(t)
  <2>1. lock \in Seq(Task) /\ lock # <<>> /\ lock' = Append(lock, t)
    BY <1>5 DEF QueuesUp, FlowOK
  <2>2. /\ Head(lock') = Head(lock) /\ lock' \in Seq(Task)
        /\ t \in Elements(lock') /\ Elements(lock) \subseteq Elements(lock')
    <3>1. /\ Len(lock) \in Nat /\ Len(lock) > 0 /\ DOMAIN lock = 1..Len(lock)
          /\ lock' \in Seq(Task) /\ DOMAIN lock' = 1..(Len(lock) + 1)
          /\ \A i \in 1..Len(lock) : lock'[i] = lock[i]
          /\ lock'[Len(lock) + 1] = t
          /\ Head(lock') = lock'[1] /\ Head(lock) = lock[1]
      BY <2>1
    <3>2. Len(lock) + 1 \in DOMAIN lock' /\ 1 \in DOMAIN lock
          /\ DOMAIN lock \subseteq DOMAIN lock'
      BY <3>1
    <3> QED BY <3>1, <3>2 DEF Elements
  <2>3. task'[t].pc = "queued"
    BY <1>5 DEF QueuesUp
  <2> QED BY <1>1, <2>2, <2>3 DEF FlowOK, CallsOK, Alters, Elements
<1> QED BY <1>2, <1>3, <1>4, <1>5 DEF Locks

\* A call that ends lets go of the lock of close().
LEMMA EndKeepsExclusive ==
    ASSUME FlowOK, NEW t \in Task, Alters(t), task'[t].pc = "idle",
           closeLock' = Without(closeLock, t),
           task[t].pc = "closeQueued" => Head(closeLock) = t
    PROVE  CloseIsExclusive' /\ closeLock' \in Seq(Task)
<1>1. /\ closeLock \in Seq(Task) /\ CloseIsExclusive
      /\ \A u \in Task : u # t => task'[u] = task[u]
  BY DEF FlowOK, Alters
<1>2. CASE closeLock # <<>> /\ Head(closeLock) = t
  <2>1. closeLock' = Tail(closeLock) /\ closeLock' \in Seq(Task)
    BY <1>1, <1>2 DEF Without
  <2>2. /\ 1 \in DOMAIN closeLock /\ closeLock[1] = t
        /\ \A i \in DOMAIN closeLock' :
              i + 1 \in DOMAIN closeLock /\ closeLock'[i] = closeLock[i + 1]
        /\ \A i \in DOMAIN closeLock : i = 1 \/ i - 1 \in DOMAIN closeLock'
        /\ DOMAIN closeLock \subseteq Nat /\ DOMAIN closeLock' \subseteq Nat
    BY <1>1, <1>2, <2>1, TailIs
  <2>3. \A i \in DOMAIN closeLock' : closeLock'[i] # t /\ closeLock'[i] \in Task
    <3>1. ASSUME NEW i \in DOMAIN closeLock'
          PROVE  closeLock'[i] # t /\ closeLock'[i] \in Task
      <4>1. i + 1 \in DOMAIN closeLock /\ closeLock'[i] = closeLock[i + 1]
            /\ i \in Nat /\ i + 1 \in Nat
        BY <2>2
      <4>2. i + 1 # 1
        <5>1. i \in 1..Len(closeLock')
          BY <2>1
        <5> QED BY <5>1
      <4>3. closeLock[i + 1] # closeLock[1]
        BY <1>1, <2>2, <4>1, <4>2 DEF CloseIsExclusive
      <4>4. closeLock[i + 1] \in Task
        BY <1>1, <4>1
      <4> QED BY <2>2, <4>1, <4>3, <4>4
    <3> QED BY <3>1
  <2>4. \A i \in DOMAIN closeLock' :
           task'[closeLock'[i]].pc # "idle" /\ task'[closeLock'[i]].call = "close"
    BY <1>1, <2>2, <2>3 DEF CloseIsExclusive
  <2>5. \A i, j \in DOMAIN closeLock' : closeLock'[i] = closeLock'[j] => i = j
    <3>1. ASSUME NEW i \in DOMAIN closeLock', NEW j \in DOMAIN closeLock',
                 closeLock'[i] = closeLock'[j]
          PROVE  i = j
      <4>1. i + 1 = j + 1 /\ i \in Nat /\ j \in Nat
        BY <1>1, <2>2, <3>1 DEF CloseIsExclusive
      <4> QED BY <4>1
    <3> QED BY <3>1
  <2>6. \A u \in Task : ~ InClose(u)'
    BY <1>1, <1>2 DEF CloseIsExclusive, InClose
  <2>7. ASSUME NEW u \in Task, task'[u].pc = "closeQueued"
        PROVE  task'[u].call = "close" /\ u \in Elements(closeLock')
    <3>1. u # t /\ task'[u] = task[u]
      BY <1>1, <2>7
    <3>2. task[u].call = "close" /\ u \in Elements(closeLock)
      BY <1>1, <2>7, <3>1 DEF CloseIsExclusive
    <3>3. PICK i \in DOMAIN closeLock : closeLock[i] = u
      BY <3>2 DEF Elements
    <3>4. i - 1 \in DOMAIN closeLock' /\ closeLock'[i - 1] = closeLock[(i - 1) + 1]
      BY <2>2, <3>1, <3>3
    <3>5. (i - 1) + 1 = i
      BY <2>2, <3>3
    <3> QED BY <3>1, <3>2, <3>3, <3>4, <3>5 DEF Elements
  <2> QED BY <2>1, <2>4, <2>5, <2>6, <2>7 DEF CloseIsExclusive, Elements
<1>3. CASE ~ (closeLock # <<>> /\ Head(closeLock) = t)
  <2>1. closeLock' = closeLock
    BY <1>3 DEF Without
  <2>2. \A i \in DOMAIN closeLock : closeLock[i] # t
    <3>1. ASSUME NEW i \in DOMAIN closeLock, closeLock[i] = t
          PROVE  FALSE
      <4>1. closeLock # <<>>
        BY <3>1
      <4>2. task[t].pc # "idle" /\ task[t].call = "close"
        BY <1>1, <3>1 DEF CloseIsExclusive
      <4>3. InClose(t) \/ task[t].pc = "closeQueued"
        BY <4>2 DEF InClose
      <4> QED BY <1>1, <1>3, <4>1, <4>3 DEF CloseIsExclusive
    <3> QED BY <3>1
  <2>3. \A i \in DOMAIN closeLock : closeLock[i] \in Task
    BY <1>1
  <2> QED BY <1>1, <2>1, <2>2, <2>3 DEF CloseIsExclusive, InClose, Elements
<1> QED BY <1>2, <1>3

\* A call that goes on leaves it as it is.
LEMMA GoesKeepsExclusive ==
    ASSUME FlowOK, NEW t \in Task, Alters(t), closeLock' = closeLock,
           task'[t].pc \notin {"idle", "closeQueued"},
           IF task[t].pc = "idle" THEN task'[t].call # "close"
           ELSE /\ task'[t].call = task[t].call
                /\ task[t].pc = "closeQueued" => Head(closeLock) = t
    PROVE  CloseIsExclusive' /\ closeLock' \in Seq(Task)
<1>1. /\ closeLock \in Seq(Task) /\ CloseIsExclusive
      /\ \A u \in Task : u # t => task'[u] = task[u]
  BY DEF FlowOK, Alters
<1>2. \A i \in DOMAIN closeLock : closeLock[i] \in Task
  BY <1>1
<1>3. \A i \in DOMAIN closeLock :
         task'[closeLock[i]].pc # "idle" /\ task'[closeLock[i]].call = "close"
  BY <1>1, <1>2 DEF CloseIsExclusive
<1>4. ASSUME NEW u \in Task, InClose(u)'
      PROVE  closeLock # <<>> /\ Head(closeLock) = u
  <2>1. CASE InClose(u)
    BY <1>1, <2>1 DEF CloseIsExclusive
  <2>2. CASE ~ InClose(u)
    <3>1. u = t /\ task[t].pc = "closeQueued" /\ Head(closeLock) = t
      BY <1>1, <1>4, <2>2 DEF InClose
    <3>2. t \in Elements(closeLock)
      BY <1>1, <3>1 DEF CloseIsExclusive
    <3> QED BY <3>1, <3>2 DEF Elements
  <2> QED BY <2>1, <2>2
<1> QED BY <1>1, <1>3, <1>4 DEF CloseIsExclusive, Elements
LEMMA EndAlters ==
    ASSUME FlowOK, NEW t \in Task, task[t].left > 0, NEW m \in Callable,
           NEW result \in Outcome, End(t, m, result)
    PROVE  /\ Alters(t) /\ task'[t].pc = "idle" /\ task'[t].result = result
           /\ task'[t].left = task[t].left - 1 /\ task'[t].call = m
           /\ closeLock' = Without(closeLock, t)
<1>1. task[t] \in Records /\ task \in [Task -> Records]
  BY DEF FlowOK
<1> DEFINE r == [pc |-> "idle", call |-> m, result |-> result, left |-> task[t].left - 1]
<1>2. task[t].left - 1 \in 0..MaxCalls
  BY <1>1, ClientRpcAssumption DEF Records
<1>3. /\ r \in Records /\ r.pc = "idle" /\ r.call = m /\ r.result = result
      /\ r.left = task[t].left - 1
  BY <1>2, CallablesAre DEF Records, Pcs
<1>4. task' = [task EXCEPT ![t] = r] /\ closeLock' = Without(closeLock, t)
  BY DEF End
<1> HIDE DEF r
<1> QED BY <1>1, <1>3, <1>4 DEF Alters

\* The task t goes on, at pc, with its call of m.
Moves(t, m, pc) == task' = [task EXCEPT ![t].pc = pc, ![t].call = m]

LEMMA GoesAlters ==
    ASSUME FlowOK, NEW t \in Task, task[t].left > 0, NEW m \in Callable, NEW pc \in Pcs,
           Moves(t, m, pc)
    PROVE  /\ Alters(t) /\ task'[t].pc = pc /\ task'[t].call = m
           /\ task'[t].left = task[t].left
<1>1. task[t] \in Records /\ task \in [Task -> Records]
  BY DEF FlowOK
<1> DEFINE r == [task[t] EXCEPT !.pc = pc, !.call = m]
<1>2. /\ r \in Records /\ r.pc = pc /\ r.call = m /\ r.left = task[t].left
  BY <1>1, CallablesAre DEF Records
<1>3. task' = [task EXCEPT ![t] = r]
  BY <1>1 DEF Moves
<1> HIDE DEF r
<1> QED BY <1>1, <1>2, <1>3 DEF Alters

\* A step of a task that ends its call keeps the flow in order.
LEMMA FlowEnds ==
    ASSUME FlowOK, NEW t \in Task, task[t].left > 0, NEW m \in Callable,
           NEW result \in Outcome, End(t, m, result),
           LeavesLock(t) \/ (\E held : Holds(t, held) /\ lock' = Tail(held))
               \/ (lock' = lock /\ task[t].pc \notin {"queued", "waiting"}),
           task[t].pc = "closeQueued" => Head(closeLock) = t
    PROVE  FlowOK'
<1>1. Alters(t) /\ task'[t].pc = "idle" /\ closeLock' = Without(closeLock, t)
  BY EndAlters
<1>2. Locks(t)
  BY <1>1 DEF Locks, LetsGo, LeavesLock
<1>3. CallsOK' /\ lock' \in Seq(Task)
  BY <1>1, <1>2, LocksKeepCalls
<1>4. CloseIsExclusive' /\ closeLock' \in Seq(Task)
  BY <1>1, EndKeepsExclusive
<1> QED BY <1>1, <1>3, <1>4 DEF FlowOK, Alters

\* So does one that goes on with it.
LEMMA FlowGoes ==
    ASSUME FlowOK, NEW t \in Task, task[t].left > 0, NEW m \in Callable,
           NEW pc \in Pcs \ {"idle", "closeQueued"}, Goes(t, m, pc),
           \/ lock' = lock /\ task[t].pc \notin {"queued", "waiting"}
                 /\ pc \notin {"queued", "waiting"}
           \/ (\E held : Holds(t, held) /\ lock' = Tail(held))
                 /\ pc \notin {"queued", "waiting"}
           \/ pc = "waiting" /\ (\E held : Holds(t, held) /\ lock' = held)
           \/ pc = "queued" /\ lock # <<>> /\ lock' = Append(lock, t),
           IF task[t].pc = "idle" THEN m # "close"
           ELSE /\ m = task[t].call
                /\ task[t].pc = "closeQueued" => Head(closeLock) = t
    PROVE  FlowOK'
<1>1. Moves(t, m, pc) /\ closeLock' = closeLock
  BY DEF Goes, Moves
<1>2. Alters(t) /\ task'[t].pc = pc /\ task'[t].call = m
  <2>1. pc \in Pcs
    OBVIOUS
  <2> QED BY <1>1, <2>1, GoesAlters
<1>3. Locks(t)
  BY <1>2 DEF Locks, LetsGo, LeavesLock, KeepsLock, QueuesUp
<1>4. CallsOK' /\ lock' \in Seq(Task)
  BY <1>2, <1>3, LocksKeepCalls
<1>5. CloseIsExclusive' /\ closeLock' \in Seq(Task)
  BY <1>1, <1>2, GoesKeepsExclusive
<1> QED BY <1>2, <1>4, <1>5 DEF FlowOK, Alters

LEMMA FlowCloses ==
    ASSUME FlowOK, NEW t \in Task, Close(t)
    PROVE  FlowOK'
<1>1. /\ task[t].pc = "idle" /\ task[t].left > 0 /\ lock' = lock
      /\ closeLock' = Append(closeLock, t)
      /\ Moves(t, "close", "closeQueued")
  BY DEF Close, MayCall, Moves
<1>2. Alters(t) /\ task'[t].pc = "closeQueued" /\ task'[t].call = "close"
  <2>1. "closeQueued" \in Pcs /\ "close" \in Callable
    BY DEF Callable, Pcs
  <2> QED BY <1>1, <2>1, GoesAlters
<1>3. CallsOK' /\ lock' \in Seq(Task)
  BY <1>1, <1>2, LocksKeepCalls DEF Locks, LeavesLock
<1>4. /\ closeLock \in Seq(Task) /\ CloseIsExclusive
      /\ \A u \in Task : u # t => task'[u] = task[u]
  BY <1>2 DEF FlowOK, Alters
<1>5. /\ Len(closeLock) \in Nat /\ DOMAIN closeLock = 1..Len(closeLock)
      /\ \A i \in 1..Len(closeLock) : closeLock[i] \in Task
      /\ closeLock' \in Seq(Task) /\ DOMAIN closeLock' = 1..(Len(closeLock) + 1)
      /\ \A i \in 1..Len(closeLock) : closeLock'[i] = closeLock[i]
      /\ closeLock'[Len(closeLock) + 1] = t
      /\ closeLock # <<>> => closeLock' # <<>> /\ Head(closeLock') = Head(closeLock)
  BY <1>1, <1>4
<1> DEFINE last == Len(closeLock) + 1
<1>6. \A i \in 1..Len(closeLock) : closeLock[i] # t
  BY <1>1, <1>4, <1>5 DEF CloseIsExclusive
<1>7. \A i \in DOMAIN closeLock' : i = last \/ i \in DOMAIN closeLock
  BY <1>5
<1>8. \A i \in DOMAIN closeLock' :
         task'[closeLock'[i]].pc # "idle" /\ task'[closeLock'[i]].call = "close"
  BY <1>2, <1>4, <1>5, <1>6, <1>7 DEF CloseIsExclusive
<1>9. \A i, j \in DOMAIN closeLock' : closeLock'[i] = closeLock'[j] => i = j
  BY <1>4, <1>5, <1>6, <1>7 DEF CloseIsExclusive
<1>10. \A u \in Task : InClose(u)' => closeLock' # <<>> /\ Head(closeLock') = u
  BY <1>2, <1>4, <1>5 DEF CloseIsExclusive, InClose
<1>11. \A u \in Task : task'[u].pc = "closeQueued" =>
           task'[u].call = "close" /\ u \in Elements(closeLock')
  <2>1. t \in Elements(closeLock')
    <3>1. last \in DOMAIN closeLock' /\ closeLock'[last] = t
      BY <1>5
    <3> QED BY <3>1 DEF Elements
  <2>2. Elements(closeLock) \subseteq Elements(closeLock')
    <3>1. DOMAIN closeLock \subseteq DOMAIN closeLock'
      BY <1>5
    <3> QED BY <1>5, <3>1 DEF Elements
  <2> QED BY <1>2, <1>4, <2>1, <2>2 DEF CloseIsExclusive
<1> QED BY <1>2, <1>3, <1>5, <1>8, <1>9, <1>10, <1>11 DEF FlowOK, Alters, CloseIsExclusive

LEMMA FlowOpens ==
    ASSUME FlowOK, lock' = lock, closeLock' = closeLock,
           task' = [t \in Task |-> IF task[t].pc = "opening"
                                   THEN [task[t] EXCEPT !.pc = "raising"] ELSE task[t]]
    PROVE  FlowOK'
<1>1. ASSUME NEW t \in Task
      PROVE  /\ task'[t] \in Records
             /\ task'[t].left = task[t].left /\ task'[t].call = task[t].call
             /\ task'[t].pc = IF task[t].pc = "opening" THEN "raising" ELSE task[t].pc
  <2>1. task[t] \in Records
    BY DEF FlowOK
  <2>2. task'[t] = IF task[t].pc = "opening" THEN [task[t] EXCEPT !.pc = "raising"]
                   ELSE task[t]
    OBVIOUS
  <2> QED BY <2>1, <2>2 DEF Records, Pcs
<1>2. task' \in [Task -> Records]
  BY <1>1
<1>3. \A i \in DOMAIN closeLock : closeLock[i] \in Task
  BY DEF FlowOK
<1>4. CallsOK'
  BY <1>1 DEF FlowOK, CallsOK
<1>5. CloseIsExclusive'
  BY <1>1, <1>3 DEF FlowOK, CloseIsExclusive, InClose
<1> QED BY <1>2, <1>4, <1>5 DEF FlowOK
---------------------------------------------------------------------------
(* The frames, and what they leave of the invariants *)

LEMMA FrameNames ==
    Requests \cap {"Channel.Open", "Channel.OpenOk", "Channel.Close", "Channel.CloseOk",
                   "Connection.Close", "Connection.CloseOk", "Disconnected"} = {}
BY ClientRpcAssumption, MethodsAre

LEMMA WriteIs ==
    ASSUME WireOK, NEW frame \in OutFrame, Write(<<frame>>)
    PROVE  /\ outbox' \in Seq(OutFrame)
           /\ outbox' = outbox \/ (transport = "open" /\ outbox' = outbox \o <<frame>>)
           /\ \A type : Carries(outbox', type) => Carries(outbox, type) \/ frame.type = type
           /\ \A type : Carries(outbox, type) => Carries(outbox', type)
<1>1. outbox \in Seq(OutFrame)
  BY DEF WireOK
<1>2. outbox' = outbox \/ (transport = "open" /\ outbox' = outbox \o <<frame>>)
  BY DEF Write
<1>3. outbox \o <<frame>> \in Seq(OutFrame)
  BY <1>1, OneMore
<1>4. \A type : Carries(outbox \o <<frame>>, type) <=>
                    Carries(outbox, type) \/ frame.type = type
  BY <1>1, OneMoreCarries
<1> QED BY <1>1, <1>2, <1>3, <1>4

LEMMA SendsIs ==
    ASSUME WireOK, NEW frame \in InFrame, Sends(<<frame>>)
    PROVE  /\ inbox' \in Seq(InFrame)
           /\ inbox' = inbox \/ (transport = "open" /\ inbox' = inbox \o <<frame>>)
           /\ transport = "open" => inbox' = inbox \o <<frame>>
           /\ \A type : Carries(inbox', type) => Carries(inbox, type) \/ frame.type = type
           /\ \A type : Carries(inbox, type) => Carries(inbox', type)
           /\ transport = "open" => Carries(inbox', frame.type)
<1>1. inbox \in Seq(InFrame)
  BY DEF WireOK
<1>2. inbox' = inbox \/ (transport = "open" /\ inbox' = inbox \o <<frame>>)
  BY DEF Sends
<1>3. inbox \o <<frame>> \in Seq(InFrame)
  BY <1>1, OneMore
<1>4. \A type : Carries(inbox \o <<frame>>, type) <=>
                    Carries(inbox, type) \/ frame.type = type
  BY <1>1, OneMoreCarries
<1>5. transport = "open" => inbox' = inbox \o <<frame>>
  BY DEF Sends
<1> QED BY <1>1, <1>2, <1>3, <1>4, <1>5

LEMMA TakesIs ==
    ASSUME WireOK, NEW type, Takes(type)
    PROVE  /\ inbox # <<>> /\ inbox' = Tail(inbox) /\ inbox' \in Seq(InFrame)
           /\ Head(inbox) \in InFrame /\ Head(inbox).type = type
           /\ Carries(inbox, type)
           /\ \A other : Carries(inbox', other) => Carries(inbox, other)
           /\ \A other : Carries(inbox, other) => other = type \/ Carries(inbox', other)
<1>1. inbox \in Seq(InFrame)
  BY DEF WireOK
<1>2. inbox # <<>> /\ inbox' = Tail(inbox) /\ Head(inbox).type = type
  BY DEF Takes
<1> QED BY <1>1, <1>2, TailElements, TailCarries

Final == {"CLOSING", "CLOSED", "EXCEPTION"}

\* No task comes to the point where it might disconnect.
NobodyComes ==
    \A u \in Task : InClose(u)' /\ task'[u].pc \in {"queued", "waiting"} =>
        InClose(u) /\ task[u].pc \in {"queued", "waiting"}

LEMMA FinalKept ==
    ASSUME ClosingIsFinal, NothingFollowsClose, outbox' = outbox,
           manager.state \in Final => manager'.state \in Final,
           NobodyComes \/ ~ Carries(outbox, "Connection.Close")
    PROVE  ClosingIsFinal' /\ NothingFollowsClose'
BY DEF ClosingIsFinal, NothingFollowsClose, Final, NobodyComes, Carries

LEMMA FinalTaken ==
    ASSUME ClosingIsFinal, NothingFollowsClose, outbox \in Seq(OutFrame), outbox # <<>>,
           outbox' = Tail(outbox), manager' = manager, task' = task
    PROVE  ClosingIsFinal' /\ NothingFollowsClose'
<1>1. ClosingIsFinal'
  BY TailCarries DEF ClosingIsFinal, InClose
<1>2. NothingFollowsClose'
  <2> SUFFICES ASSUME NEW i \in DOMAIN outbox', NEW j \in DOMAIN outbox', i < j
               PROVE  outbox'[i].type # "Connection.Close"
    BY DEF NothingFollowsClose
  <2>1. /\ i + 1 \in DOMAIN outbox /\ outbox'[i] = outbox[i + 1] /\ j + 1 \in DOMAIN outbox
        /\ i \in Nat /\ j \in Nat
    BY TailIs
  <2>2. i + 1 < j + 1
    BY <2>1
  <2> QED BY <2>1, <2>2 DEF NothingFollowsClose
<1> QED BY <1>1, <1>2

\* A frame written before Connection.Close is.
LEMMA FinalWritten ==
    ASSUME NothingFollowsClose, ~ Carries(outbox, "Connection.Close"), WireOK,
           NEW frame \in OutFrame, Write(<<frame>>), frame.type # "Connection.Close"
    PROVE  ClosingIsFinal' /\ NothingFollowsClose'
<1>1. ~ Carries(outbox', "Connection.Close")
  BY WriteIs
<1> QED BY <1>1 DEF ClosingIsFinal, NothingFollowsClose, Carries

\* Connection.Close is written once.
LEMMA FinalDisconnected ==
    ASSUME NothingFollowsClose, ~ Carries(outbox, "Connection.Close"), WireOK,
           NEW frame \in OutFrame, Write(<<frame>>), manager'.state \in Final,
           \A u \in Task : InClose(u)' => task'[u].pc \notin {"queued", "waiting"}
    PROVE  ClosingIsFinal' /\ NothingFollowsClose'
<1>1. ClosingIsFinal'
  BY DEF ClosingIsFinal, Final
<1>2. outbox \in Seq(OutFrame)
  BY DEF WireOK
<1>3. CASE outbox' = outbox
  BY <1>1, <1>3 DEF NothingFollowsClose
<1>4. CASE outbox' = outbox \o <<frame>>
  <2> SUFFICES ASSUME NEW i \in DOMAIN outbox', NEW j \in DOMAIN outbox', i < j
               PROVE  outbox'[i].type # "Connection.Close"
    BY <1>1 DEF NothingFollowsClose
  <2> DEFINE last == Len(outbox) + 1
  <2>1. /\ i = last \/ (i < last /\ i \in DOMAIN outbox)
        /\ j = last \/ (j < last /\ j \in DOMAIN outbox)
        /\ \A k \in DOMAIN outbox : outbox'[k] = outbox[k]
    BY <1>2, <1>4, OneMoreIs
  <2>2. i \in DOMAIN outbox
    <3>1. last \in Nat /\ i \in Nat /\ j \in Nat
      BY <1>2, <1>4, OneMoreIs
    <3> HIDE DEF last
    <3> QED BY <2>1, <3>1
  <2> QED BY <2>1, <2>2 DEF Carries
<1> QED BY <1>3, <1>4, WriteIs
LEMMA InStepDead ==
    ASSUME manager'.state \notin Passing, channel0' # "open" \/ transport' # "open"
    PROVE  ChannelInStep'
BY DEF ChannelInStep, Live

\* A step of the client that says nothing of the channel.
LEMMA InStepKept ==
    ASSUME ChannelInStep, WireOK,
           UNCHANGED <<inbox, broker, channel, channelOpen, channel0, transport>>,
           manager'.state \notin Passing,
           \/ manager'.state = manager.state
           \/ /\ manager.state # "CHANNEL_OPEN_SENT"
              /\ manager'.state \notin {"CHANNEL_OPEN_SENT", "CHANNEL_CLOSEOK_SENT",
                                        "CHANNEL_CLOSEOK_RECEIVED"},
           \/ outbox' = outbox
           \/ \E frame \in OutFrame :
                 frame.type \in Callable \cup {"Channel.Close"} /\ Write(<<frame>>)
    PROVE  ChannelInStep'
<1> SUFFICES ASSUME Live
             PROVE  ChannelInStep'
  BY InStepDead DEF Live
<1>1. /\ outbox' \in Seq(OutFrame)
      /\ \A type \in {"Channel.Open", "Channel.CloseOk", "Connection.Close"} :
            Carries(outbox', type) => Carries(outbox, type)
      /\ \A i \in DOMAIN outbox' :
            outbox'[i].type \in {"Channel.Open", "Channel.CloseOk"} =>
                i \in DOMAIN outbox /\ outbox'[i] = outbox[i]
  <2>1. CASE outbox' = outbox
    BY <2>1 DEF WireOK
  <2>2. CASE \E frame \in OutFrame :
                frame.type \in Callable \cup {"Channel.Close"} /\ Write(<<frame>>)
    <3>1. PICK frame \in OutFrame :
              frame.type \in Callable \cup {"Channel.Close"} /\ Write(<<frame>>)
      BY <2>2
    <3>2. frame.type \notin {"Channel.Open", "Channel.CloseOk", "Connection.Close"}
      BY <3>1, FrameNames DEF Callable
    <3>3. outbox \in Seq(OutFrame)
      BY DEF WireOK
    <3>4. outbox' = outbox \/ outbox' = outbox \o <<frame>>
      BY <3>1, WriteIs
    <3>5. CASE outbox' = outbox \o <<frame>>
      <4>1. /\ \A i \in DOMAIN outbox' : i = Len(outbox) + 1 \/ i \in DOMAIN outbox
            /\ outbox'[Len(outbox) + 1] = frame
            /\ \A i \in DOMAIN outbox : outbox'[i] = outbox[i]
        BY <3>3, <3>5, OneMoreIs
      <4>2. \A i \in DOMAIN outbox' :
               outbox'[i].type \in {"Channel.Open", "Channel.CloseOk"} =>
                   i \in DOMAIN outbox /\ outbox'[i] = outbox[i]
        BY <3>2, <4>1
      <4>3. outbox' \in Seq(OutFrame)
        BY <3>1, WriteIs
      <4>4. \A type \in {"Channel.Open", "Channel.CloseOk", "Connection.Close"} :
               Carries(outbox', type) => Carries(outbox, type)
        BY <3>1, <3>2, WriteIs
      <4> QED BY <4>2, <4>3, <4>4
    <3> QED BY <3>3, <3>4, <3>5
  <2> QED BY <2>1, <2>2
<1>2. ASSUME ChannelFollows PROVE ChannelFollows'
  <2>1. OpensOnce'
    BY <1>1, <1>2 DEF ChannelFollows, OpensOnce
  <2>2. /\ Reopening' => Reopening
        /\ TakenForOpen' <=> TakenForOpen
        /\ CloseComing' <=> CloseComing
    BY <1>1 DEF Reopening, TakenForOpen, CloseComing, Carries
  <2> QED BY <1>1, <1>2, <2>1, <2>2 DEF ChannelFollows
<1> QED BY <1>1, <1>2 DEF ChannelInStep, Live, Carries

---------------------------------------------------------------------------
(* The steps of the tasks *)

SessionOK ==
    /\ channel \in Numbers /\ channelOpen \in BOOLEAN
    /\ lastError \in Codes \cup {"ChannelError", None}
    /\ mode \in [transactional : BOOLEAN, confirms : BOOLEAN]
    /\ channel0 \in {"open", "closing", "closed", "failed", None}
    /\ transport \in {"open", "lost", "closed"}

LEMMA InvariantIs ==
    ASSUME IInv
    PROVE  /\ manager \in Managers /\ FlowOK /\ SessionOK /\ WireOK
           /\ ClosingIsFinal /\ NothingFollowsClose /\ ChannelInStep
BY DEF IInv, TypeOK, FlowOK, SessionOK, Numbers, Records, Pcs, Managers

LEMMA InvariantNext ==
    ASSUME manager' \in Managers, FlowOK', SessionOK', WireOK',
           ClosingIsFinal', NothingFollowsClose', ChannelInStep'
    PROVE  IInv'
BY DEF IInv, TypeOK, FlowOK, SessionOK, Numbers, Records, Pcs, Managers

LEMMA OutcomesAre ==
    {"answered", "skipped", "rejected", "closed", "UnknownError", "ChannelError", STE}
        \cup Codes \subseteq Outcome
BY DEF Outcome

LEMMA NumbersAre ==
    /\ 0 \in Numbers /\ 1 \in Numbers
    /\ channel \in Numbers => NextChannel \in Numbers
BY ClientRpcAssumption DEF Numbers, NextChannel

\* The frames of the calls.
LEMMA CallFrameIs ==
    ASSUME IInv, NEW t \in Task, NEW m \in Callable
    PROVE  /\ CallFrame(t, m) \in OutFrame
           /\ CallFrame(t, m).type = IF m = "close" THEN "Channel.Close" ELSE m
           /\ CallFrame(t, m).by = <<t, task[t].left>>
<1>1. task[t].left \in Nat /\ channel \in Numbers
  <2>1. task[t] \in Records /\ channel \in Numbers
    BY InvariantIs DEF FlowOK, SessionOK
  <2> QED BY <2>1, ClientRpcAssumption DEF Records
<1>2. <<t, task[t].left>> \in Calls
  BY <1>1 DEF Calls
<1> QED BY <1>1, <1>2 DEF CallFrame, OutFrame, Callable

\* Only a task that is in close() holds its lock.
LEMMA OthersStayOut ==
    ASSUME FlowOK, NEW t \in Task, Head(closeLock) = t,
           \A u \in Task : u # t => task'[u] = task[u],
           task'[t].pc \in {"idle", "closing"}
    PROVE  \A u \in Task : InClose(u)' => task'[u].pc \notin {"queued", "waiting"}
BY DEF FlowOK, CloseIsExclusive, InClose

LEMMA DisconnectKeeps ==
    ASSUME IInv, NEW t \in Task, NEW m \in Managers, m.state = manager.state,
           task[t].pc # "idle", task[t].call = "close", Head(closeLock) = t,
           ~ Carries(outbox, "Connection.Close"),
           \/ lock' = lock /\ task[t].pc \notin {"queued", "waiting"}
           \/ \E held : Holds(t, held) /\ lock' = Tail(held),
           Disconnect(t, m)
    PROVE  IInv'
<1>1. /\ manager \in Managers /\ FlowOK /\ SessionOK /\ WireOK
      /\ ClosingIsFinal /\ NothingFollowsClose /\ ChannelInStep
  BY InvariantIs
<1>2. task[t].left > 0 /\ "close" \in Callable /\ "closing" \in Pcs /\ STE \in Outcome
      /\ "CLOSING" \in ClientState
  BY <1>1, OutcomesAre, StatesAre DEF FlowOK, CallsOK, Callable, Pcs
<1>3. /\ UNCHANGED <<channel, channelOpen, lastError, mode, transport, inbox, broker>>
      /\ manager.state \notin Passing
  BY <1>1 DEF Disconnect, ChannelInStep
<1>4. CASE SM!Refuses(m, "CLOSING", None)
  <2>1. /\ manager' = SM!Refuse(m, STE) /\ End(t, "close", STE)
        /\ UNCHANGED <<channel0, outbox>>
    BY <1>4 DEF Disconnect
  <2>2. manager' \in Managers /\ manager'.state = manager.state
    BY <1>2, <2>1, EnterKeepsType
  <2>3. FlowOK'
    BY <1>1, <1>2, <2>1, FlowEnds
  <2>4. ClosingIsFinal' /\ NothingFollowsClose'
    BY <1>1, <2>1, <2>2, FinalKept
  <2>5. ChannelInStep'
    BY <1>1, <1>3, <2>1, <2>2, InStepKept
  <2>6. WireOK' /\ SessionOK'
    BY <1>1, <1>3, <2>1 DEF SessionOK, WireOK
  <2> QED BY <2>2, <2>3, <2>4, <2>5, <2>6, InvariantNext
<1>5. CASE ~ SM!Refuses(m, "CLOSING", None)
  <2> DEFINE frame == Frame("Connection.Close", 0)
  <2>1. manager' = Enter(m, "CLOSING") /\ Write(<<frame>>)
    BY <1>5 DEF Disconnect
  <2>2. manager' \in Managers /\ manager'.state = "CLOSING"
    BY <1>2, <1>5, <2>1, EnterKeepsType
  <2>3. frame \in OutFrame
    BY NumbersAre DEF Frame, OutFrame
  <2>4. IF channel0 = "closed" THEN End(t, "close", STE) /\ UNCHANGED channel0
        ELSE Goes(t, "close", "closing") /\ channel0' = "closing"
    BY <1>5 DEF Disconnect
  <2>5. FlowOK' /\ task'[t].pc \in {"idle", "closing"}
        /\ \A u \in Task : u # t => task'[u] = task[u]
    <3>1. CASE channel0 = "closed"
      BY <1>1, <1>2, <2>4, <3>1, FlowEnds, EndAlters DEF Alters
    <3>2. CASE channel0 # "closed"
      <4>1. Goes(t, "close", "closing") /\ Moves(t, "close", "closing")
        BY <2>4, <3>2 DEF Goes, Moves
      <4>2. "closing" \in Pcs \ {"idle", "closeQueued"}
        BY DEF Pcs
      <4>3. FlowOK'
        BY <1>1, <1>2, <4>1, <4>2, FlowGoes
      <4> QED BY <1>1, <1>2, <4>1, <4>3, GoesAlters DEF Alters
    <3> QED BY <3>1, <3>2
  <2>6. \A u \in Task : InClose(u)' => task'[u].pc \notin {"queued", "waiting"}
    BY <1>1, <2>5, OthersStayOut
  <2> HIDE DEF frame
  <2>7. ClosingIsFinal' /\ NothingFollowsClose'
    BY <1>1, <2>1, <2>2, <2>3, <2>6, FinalDisconnected DEF Final
  <2>8. channel0' \in {"closed", "closing"}
    BY <2>4
  <2>9. ChannelInStep'
    BY <2>2, <2>8, InStepDead DEF Passing
  <2>10. WireOK'
    BY <1>1, <1>3, <2>1, <2>3, WriteIs DEF WireOK
  <2>11. SessionOK'
    BY <1>1, <1>3, <2>8 DEF SessionOK
  <2> QED BY <2>2, <2>5, <2>7, <2>9, <2>10, <2>11, InvariantNext
<1> QED BY <1>4, <1>5
LEMMA EndedStaysOut ==
    ASSUME NEW t \in Task, Alters(t), task'[t].pc \notin {"queued", "waiting"}
    PROVE  NobodyComes
BY DEF Alters, NobodyComes, InClose

LEMMA ClosedIsNoted ==
    ASSUME ~ IsClosed, ClosingIsFinal
    PROVE  ~ Carries(outbox, "Connection.Close") /\ manager.state \notin Final
BY DEF IsClosed, ClosedClientStates, ClosingIsFinal, Final

\* What a task may send for: the request of a call that begins, or its own.
MaySend(t, m) ==
    /\ task[t].pc \in {"idle", "queued", "closeQueued"} /\ task[t].left > 0
    /\ IF task[t].pc = "idle" THEN m # "close" ELSE m = task[t].call
    /\ task[t].pc = "closeQueued" => Head(closeLock) = t /\ ~ IsClosed

LEMMA SendSkippedKeeps ==
    ASSUME IInv, NEW t \in Task, NEW m \in Callable, NEW held, Holds(t, held),
           MaySend(t, m), SendSkipped(t, m, held)
    PROVE  IInv'
<1>1. /\ manager \in Managers /\ FlowOK /\ SessionOK /\ WireOK
      /\ ClosingIsFinal /\ NothingFollowsClose /\ ChannelInStep
  BY InvariantIs
<1>2. /\ IsClosed /\ lock' = Tail(held) /\ task[t].pc \in {"idle", "queued"}
      /\ task[t].left > 0 /\ IF task[t].pc = "idle" THEN m # "close" ELSE m = task[t].call
  BY DEF SendSkipped, MaySend
<1>3. CASE m = "close"
  <2>1. task[t].pc = "queued" /\ task[t].call = "close" /\ InClose(t)
    BY <1>2, <1>3 DEF InClose
  <2>2. Head(closeLock) = t /\ ~ Carries(outbox, "Connection.Close")
    BY <1>1, <2>1 DEF FlowOK, CloseIsExclusive, ClosingIsFinal
  <2>3. Disconnect(t, manager)
    BY <1>3 DEF SendSkipped
  <2> QED BY <1>1, <1>2, <2>1, <2>2, <2>3, DisconnectKeeps
<1>4. CASE m # "close"
  <2>1. /\ End(t, m, "skipped") /\ mode' = [mode EXCEPT !.confirms = @ \/ m = "confirm_select"]
        /\ UNCHANGED <<manager, channel, channelOpen, lastError, channel0,
                       transport, inbox, outbox, broker>>
    BY <1>4 DEF SendSkipped, Return
  <2>2. "skipped" \in Outcome
    BY OutcomesAre
  <2>3. Alters(t) /\ task'[t].pc = "idle"
    BY <1>1, <1>2, <2>1, <2>2, EndAlters
  <2>4. FlowOK'
    BY <1>1, <1>2, <2>1, <2>2, FlowEnds
  <2>5. ClosingIsFinal' /\ NothingFollowsClose'
    BY <1>1, <2>1, <2>3, EndedStaysOut, FinalKept
  <2>6. manager.state \notin Passing
    BY <1>1 DEF ChannelInStep
  <2>7. ChannelInStep'
    BY <1>1, <2>1, <2>6, InStepKept
  <2>8. mode' \in [transactional : BOOLEAN, confirms : BOOLEAN]
    BY <1>1, <2>1 DEF SessionOK
  <2>9. SessionOK' /\ WireOK'
    BY <1>1, <2>1, <2>8 DEF SessionOK, WireOK
  <2> QED BY <1>1, <2>1, <2>4, <2>5, <2>7, <2>9, InvariantNext
<1> QED BY <1>3, <1>4

LEMMA SendRefusedKeeps ==
    ASSUME IInv, NEW t \in Task, NEW m \in Callable, NEW held, Holds(t, held),
           MaySend(t, m), SendRefused(t, m, held)
    PROVE  IInv'
<1>1. /\ manager \in Managers /\ FlowOK /\ SessionOK /\ WireOK
      /\ ClosingIsFinal /\ NothingFollowsClose /\ ChannelInStep
  BY InvariantIs
<1> DEFINE frame == CallFrame(t, m)
<1>2. /\ ~ IsClosed /\ Write(<<frame>>) /\ manager' = SM!Refuse(manager, STE)
      /\ lock' = Tail(held) /\ End(t, m, STE)
      /\ UNCHANGED <<channel, channelOpen, lastError, mode, channel0, transport>>
      /\ UNCHANGED <<inbox, broker>>
  BY DEF SendRefused, session
<1>3. frame \in OutFrame /\ frame.type \in Callable \cup {"Channel.Close"}
  BY CallFrameIs
<1> HIDE DEF frame
<1>4. /\ STE \in Outcome /\ task[t].left > 0
      /\ task[t].pc = "closeQueued" => Head(closeLock) = t
  BY OutcomesAre DEF MaySend
<1>5. FlowOK'
  BY <1>1, <1>2, <1>4, FlowEnds DEF MaySend
<1>6. manager' \in Managers /\ manager'.state = manager.state
  BY <1>1, <1>2, StatesAre, EnterKeepsType
<1>7. frame.type # "Connection.Close"
  BY <1>3, FrameNames DEF Callable
<1>8. ClosingIsFinal' /\ NothingFollowsClose'
  BY <1>1, <1>2, <1>3, <1>7, ClosedIsNoted, FinalWritten
<1>9. manager.state \notin Passing
  BY <1>1 DEF ChannelInStep
<1>10. ChannelInStep'
  BY <1>1, <1>2, <1>3, <1>6, <1>9, InStepKept
<1>11. outbox' \in Seq(OutFrame)
  BY <1>1, <1>2, <1>3, WriteIs
<1>12. SessionOK' /\ WireOK'
  BY <1>1, <1>2, <1>11 DEF SessionOK, WireOK
<1> QED BY <1>5, <1>6, <1>8, <1>10, <1>12, InvariantNext

LEMMA SentIsApart ==
    ASSUME NEW m \in Callable
    PROVE  /\ Sent(m) \in ClientState /\ Ok(m) \in ClientState
           /\ Sent(m) \notin Passing \cup {"CHANNEL_OPENOK_RECEIVED", "CHANNEL_OPEN_SENT",
                                           "CHANNEL_CLOSEOK_SENT", "CHANNEL_CLOSEOK_RECEIVED",
                                           "EXCEPTION"}
<1>1. Sent(m) \in SentStates \cup {"CHANNEL_CLOSE_SENT"}
  BY RequestStates, CloseStates DEF Callable
<1>2. Ok(m) \in OkStates \cup {"CHANNEL_CLOSEOK_RECEIVED"}
  BY RequestStates, CloseStates DEF Callable
<1>3. Sent(m) \in ClientState /\ Ok(m) \in ClientState
  BY <1>1, <1>2, StatesAre
<1> QED BY <1>1, <1>3 DEF SentStates, Passing

LEMMA SendWaitsKeeps ==
    ASSUME IInv, NEW t \in Task, NEW m \in Callable, NEW held, Holds(t, held),
           MaySend(t, m), SendWaits(t, m, held)
    PROVE  IInv'
<1>1. /\ manager \in Managers /\ FlowOK /\ SessionOK /\ WireOK
      /\ ClosingIsFinal /\ NothingFollowsClose /\ ChannelInStep
  BY InvariantIs
<1> DEFINE frame == CallFrame(t, m)
           S == {Ok(m), "CHANNEL_CLOSE_RECEIVED"}
<1>2. /\ ~ IsClosed /\ ~ SM!Refuses(manager, Sent(m), None) /\ Write(<<frame>>)
      /\ manager' = SM!Register(Enter(manager, Sent(m)), t, S)
      /\ lock' = held /\ Goes(t, m, "waiting")
      /\ UNCHANGED <<channel, channelOpen, lastError, mode, channel0, transport>>
      /\ UNCHANGED <<inbox, broker>>
  BY DEF SendWaits, session
<1>3. frame \in OutFrame /\ frame.type \in Callable \cup {"Channel.Close"}
  BY CallFrameIs
<1>4. S \in SUBSET ClientState
  BY SentIsApart, StatesAre
<1> HIDE DEF frame, S
<1>5. /\ task[t].left > 0 /\ "waiting" \in Pcs \ {"idle", "closeQueued"}
      /\ IF task[t].pc = "idle" THEN m # "close"
         ELSE /\ m = task[t].call
              /\ task[t].pc = "closeQueued" => Head(closeLock) = t
  BY DEF MaySend, Pcs
<1>6. FlowOK'
  BY <1>1, <1>2, <1>5, FlowGoes
<1>7. Enter(manager, Sent(m)) \in Managers /\ Enter(manager, Sent(m)).state = Sent(m)
  BY <1>1, <1>2, SentIsApart, EnterKeepsType
<1>8. manager' \in Managers /\ manager'.state = Sent(m)
  BY <1>2, <1>4, <1>7, RegisterKeepsType
<1>9. frame.type # "Connection.Close"
  BY <1>3, FrameNames DEF Callable
<1>10. ClosingIsFinal' /\ NothingFollowsClose'
  BY <1>1, <1>2, <1>3, <1>9, ClosedIsNoted, FinalWritten
<1>11. manager.state # "CHANNEL_OPEN_SENT"
  BY <1>2, SentIsApart, StepsAre DEF SM!Refuses, SM!Unchanged
<1>12. ChannelInStep'
  BY <1>1, <1>2, <1>3, <1>8, <1>11, SentIsApart, InStepKept
<1>13. outbox' \in Seq(OutFrame)
  BY <1>1, <1>2, <1>3, WriteIs
<1>14. SessionOK' /\ WireOK'
  BY <1>1, <1>2, <1>13 DEF SessionOK, WireOK
<1> QED BY <1>6, <1>8, <1>10, <1>12, <1>14, InvariantNext

LEMMA SendKeeps ==
    ASSUME IInv, NEW t \in Task, NEW m \in Callable, NEW held, Holds(t, held),
           MaySend(t, m), Send(t, m, held)
    PROVE  IInv'
BY SendSkippedKeeps, SendRefusedKeeps, SendWaitsKeeps DEF Send
LEMMA RpcKeeps ==
    ASSUME IInv, NEW t \in Task, NEW m \in Callable, MaySend(t, m),
           task[t].pc # "queued", Rpc(t, m)
    PROVE  IInv'
<1>1. /\ manager \in Managers /\ FlowOK /\ SessionOK /\ WireOK
      /\ ClosingIsFinal /\ NothingFollowsClose /\ ChannelInStep
  BY InvariantIs
<1>2. CASE lock = <<>>
  <2>1. Send(t, m, <<t>>) /\ Holds(t, <<t>>)
    BY <1>1, <1>2, FreeLockHolds DEF Rpc
  <2> QED BY <2>1, SendKeeps
<1>3. CASE lock # <<>>
  <2>1. /\ lock' = Append(lock, t) /\ Goes(t, m, "queued")
        /\ UNCHANGED <<manager, session, inbox, outbox, broker>>
    BY <1>3 DEF Rpc
  <2>2. /\ task[t].left > 0 /\ "queued" \in Pcs \ {"idle", "closeQueued"}
        /\ IF task[t].pc = "idle" THEN m # "close"
           ELSE /\ m = task[t].call
                /\ task[t].pc = "closeQueued" => Head(closeLock) = t
    BY DEF MaySend, Pcs
  <2>3. FlowOK'
    BY <1>1, <1>3, <2>1, <2>2, FlowGoes
  <2>4. Moves(t, m, "queued") /\ "queued" \in Pcs
    BY <2>1 DEF Goes, Moves, Pcs
  <2>5. Alters(t) /\ task'[t].pc = "queued" /\ task'[t].call = m
    BY <1>1, <2>2, <2>4, GoesAlters
  <2>6. NobodyComes \/ ~ Carries(outbox, "Connection.Close")
    <3>1. CASE task[t].pc = "closeQueued"
      BY <1>1, <3>1, ClosedIsNoted DEF MaySend
    <3>2. CASE task[t].pc = "idle"
      BY <2>2, <2>5, <3>2 DEF NobodyComes, Alters, InClose
    <3> QED BY <3>1, <3>2 DEF MaySend
  <2>7. ClosingIsFinal' /\ NothingFollowsClose'
    BY <1>1, <2>1, <2>6, FinalKept
  <2>8. ChannelInStep' /\ SessionOK' /\ WireOK'
    BY <1>1, <2>1, InStepKept DEF session, SessionOK, WireOK, ChannelInStep
  <2> QED BY <1>1, <2>1, <2>3, <2>7, <2>8, InvariantNext
<1> QED BY <1>2, <1>3

LEMMA CallKeeps ==
    ASSUME IInv, NEW t \in Task, Call(t)
    PROVE  IInv'
<1>1. PICK m \in Requests : Rpc(t, m)
  BY DEF Call
<1>2. m \in Callable /\ m # "close"
  BY ClientRpcAssumption DEF Callable
<1>3. task[t].pc = "idle" /\ task[t].left > 0
  BY DEF Call, MayCall
<1>4. MaySend(t, m) /\ task[t].pc # "queued"
  BY <1>2, <1>3 DEF MaySend
<1> QED BY <1>1, <1>2, <1>4, RpcKeeps

LEMMA AcquireKeeps ==
    ASSUME IInv, NEW t \in Task, Acquire(t)
    PROVE  IInv'
<1>1. FlowOK
  BY InvariantIs
<1>2. /\ task[t].pc = "queued" /\ Head(lock) = t
      /\ Send(t, task[t].call, lock)
  BY DEF Acquire
<1>3. task[t].call \in Callable /\ task[t].left > 0
  BY <1>1, <1>2 DEF FlowOK, CallsOK
<1>4. MaySend(t, task[t].call)
  BY <1>2, <1>3 DEF MaySend
<1>5. Holds(t, lock)
  BY <1>1, <1>2, HeadHolds
<1> QED BY <1>2, <1>3, <1>4, <1>5, SendKeeps

\* A call that ends and changes nothing but the manager.
LEMMA EndKeeps ==
    ASSUME IInv, NEW t \in Task, task[t].left > 0, NEW m \in Callable,
           NEW result \in Outcome, End(t, m, result),
           \/ lock' = lock /\ task[t].pc \notin {"queued", "waiting"}
           \/ \E held : Holds(t, held) /\ lock' = Tail(held),
           task[t].pc = "closeQueued" => Head(closeLock) = t,
           UNCHANGED <<channel, channelOpen, channel0, transport, inbox, outbox, broker>>,
           lastError' \in {lastError, None},
           mode' \in [transactional : BOOLEAN, confirms : BOOLEAN],
           manager' \in Managers,
           manager'.state = manager.state \/ (manager'.state = "CLOSED" /\ IsClosed)
    PROVE  IInv'
<1>1. /\ manager \in Managers /\ FlowOK /\ SessionOK /\ WireOK
      /\ ClosingIsFinal /\ NothingFollowsClose /\ ChannelInStep
  BY InvariantIs
<1>2. Alters(t) /\ task'[t].pc = "idle"
  BY <1>1, EndAlters
<1>3. FlowOK'
  BY <1>1, FlowEnds
<1>4. NobodyComes
  BY <1>2, EndedStaysOut
<1>5. ClosingIsFinal' /\ NothingFollowsClose'
  BY <1>1, <1>4, FinalKept DEF Final
<1>6. manager.state \notin Passing
  BY <1>1 DEF ChannelInStep
<1>7. ChannelInStep'
  <2>1. CASE manager'.state = manager.state
    BY <1>1, <1>6, <2>1, InStepKept
  <2>2. CASE manager'.state = "CLOSED" /\ IsClosed
    <3>1. CASE manager.state = "CHANNEL_OPEN_SENT"
      <4>1. channel0 # "open"
        BY <2>2, <3>1, ClientRpcAssumption DEF IsClosed, ClosedClientStates
      <4> QED BY <2>2, <4>1, InStepDead DEF Passing
    <3>2. CASE manager.state # "CHANNEL_OPEN_SENT"
      BY <1>1, <2>2, <3>2, InStepKept DEF Passing
    <3> QED BY <3>1, <3>2
  <2> QED BY <2>1, <2>2
<1>8. SessionOK' /\ WireOK'
  BY <1>1 DEF SessionOK, WireOK
<1> QED BY <1>3, <1>5, <1>7, <1>8, InvariantNext

LEMMA CallFailsKeeps ==
    ASSUME IInv, NEW t \in Task, CallFails(t)
    PROVE  IInv'
<1>1. PICK m \in Requests : End(t, m, "rejected")
  BY DEF CallFails
<1>2. /\ task[t].pc = "idle" /\ task[t].left > 0
      /\ UNCHANGED <<manager, lock, session, inbox, outbox, broker>>
  BY DEF CallFails, MayCall
<1>3. m \in Callable /\ "rejected" \in Outcome
  BY OutcomesAre DEF Callable
<1>4. manager \in Managers /\ mode \in [transactional : BOOLEAN, confirms : BOOLEAN]
  BY InvariantIs DEF SessionOK
<1> QED BY <1>1, <1>2, <1>3, <1>4, EndKeeps DEF session

LEMMA CloseKeeps ==
    ASSUME IInv, NEW t \in Task, Close(t)
    PROVE  IInv'
<1>1. /\ manager \in Managers /\ FlowOK /\ SessionOK /\ WireOK
      /\ ClosingIsFinal /\ NothingFollowsClose /\ ChannelInStep
  BY InvariantIs
<1>2. /\ task[t].left > 0 /\ Moves(t, "close", "closeQueued")
      /\ UNCHANGED <<manager, lock, session, inbox, outbox, broker>>
  BY DEF Close, MayCall, Moves
<1>3. "closeQueued" \in Pcs /\ "close" \in Callable
  BY DEF Pcs, Callable
<1>4. Alters(t) /\ task'[t].pc = "closeQueued"
  BY <1>1, <1>2, <1>3, GoesAlters
<1>5. FlowOK'
  BY <1>1, FlowCloses
<1>6. ClosingIsFinal' /\ NothingFollowsClose'
  BY <1>1, <1>2, <1>4, EndedStaysOut, FinalKept
<1>7. ChannelInStep' /\ SessionOK' /\ WireOK'
  BY <1>1, <1>2, InStepKept DEF session, SessionOK, WireOK, ChannelInStep
<1> QED BY <1>1, <1>2, <1>5, <1>6, <1>7, InvariantNext

LEMMA CloseLockedKeeps ==
    ASSUME IInv, NEW t \in Task, CloseLocked(t)
    PROVE  IInv'
<1>1. /\ manager \in Managers /\ FlowOK /\ SessionOK /\ WireOK
      /\ ClosingIsFinal /\ NothingFollowsClose /\ ChannelInStep
  BY InvariantIs
<1>2. task[t].pc = "closeQueued" /\ Head(closeLock) = t
  BY DEF CloseLocked
<1>3. task[t].call = "close" /\ task[t].left > 0 /\ "close" \in Callable
  BY <1>1, <1>2 DEF FlowOK, CallsOK, CloseIsExclusive, Callable
<1>4. CASE IsClosed /\ CloseClosed(t)
  <2> DEFINE refused == manager.state # "CLOSED" /\ SM!Refuses(manager, "CLOSED", None)
             result == IF refused THEN STE ELSE "closed"
  <2>1. /\ manager' = IF manager.state = "CLOSED" THEN manager ELSE Enter(manager, "CLOSED")
        /\ End(t, "close", result)
        /\ UNCHANGED <<lock, channel, channelOpen, lastError, mode, channel0, transport>>
        /\ UNCHANGED <<inbox, outbox, broker>>
    BY <1>4 DEF CloseClosed, session
  <2>2. result \in Outcome
    BY OutcomesAre
  <2> HIDE DEF result
  <2>3. manager' \in Managers /\ manager'.state \in {manager.state, "CLOSED"}
    BY <1>1, <2>1, StatesAre, EnterKeepsType
  <2>4. mode \in [transactional : BOOLEAN, confirms : BOOLEAN]
    BY <1>1 DEF SessionOK
  <2> QED BY <1>2, <1>3, <1>4, <2>1, <2>2, <2>3, <2>4, EndKeeps
<1>5. CASE ~ IsClosed /\ channelOpen /\ Rpc(t, "close")
  <2>1. MaySend(t, "close") /\ task[t].pc # "queued"
    BY <1>2, <1>3, <1>5 DEF MaySend
  <2> QED BY <1>3, <1>5, <2>1, RpcKeeps
<1>6. CASE ~ IsClosed /\ ~ channelOpen /\ Disconnect(t, manager) /\ UNCHANGED lock
  <2>1. ~ Carries(outbox, "Connection.Close")
    BY <1>1, <1>6, ClosedIsNoted
  <2> QED BY <1>1, <1>2, <1>3, <1>6, <2>1, DisconnectKeeps
<1> QED BY <1>4, <1>5, <1>6 DEF CloseLocked
LEMMA RunReadyKeeps ==
    ASSUME IInv, RunReady
    PROVE  IInv'
<1>1. /\ manager \in Managers /\ FlowOK /\ SessionOK /\ WireOK
      /\ ClosingIsFinal /\ NothingFollowsClose /\ ChannelInStep
  BY InvariantIs
<1>2. /\ manager.ready # <<>> /\ manager' = SM!RunCallbacks(manager)
      /\ UNCHANGED <<flow, session, inbox, outbox, broker>>
  BY DEF RunReady
<1>3. manager' \in Managers /\ manager'.state = manager.state
  BY <1>1, <1>2, RunCallbacksKeepsType
<1>4. FlowOK'
  BY <1>1, <1>2 DEF flow, FlowOK, CallsOK, CloseIsExclusive, InClose
<1>5. NobodyComes
  BY <1>2 DEF flow, NobodyComes, InClose
<1>6. ClosingIsFinal' /\ NothingFollowsClose'
  BY <1>1, <1>2, <1>3, <1>5, FinalKept
<1>7. ChannelInStep'
  <2>1. manager.state \notin Passing
    BY <1>1 DEF ChannelInStep
  <2> QED BY <1>1, <1>2, <1>3, <2>1, InStepKept DEF session
<1>8. SessionOK' /\ WireOK'
  BY <1>1, <1>2 DEF session, SessionOK, WireOK
<1> QED BY <1>3, <1>4, <1>6, <1>7, <1>8, InvariantNext

\* A task whose wait ends has the lock.
LEMMA WaiterHolds ==
    ASSUME IInv, NEW t \in Task, Waits(t)
    PROVE  /\ Holds(t, lock) /\ task[t].pc = "waiting" /\ task[t].left > 0
           /\ task[t].call \in Callable
           /\ SM!AfterPoll(manager, t) \in Managers
           /\ SM!AfterPoll(manager, t).state = manager.state
<1>1. manager \in Managers /\ FlowOK
  BY InvariantIs
<1>2. task[t].pc = "waiting"
  BY DEF Waits
<1>3. task[t].left > 0 /\ task[t].call \in Callable /\ Head(lock) = t
  BY <1>1, <1>2 DEF FlowOK, CallsOK
<1> QED BY <1>1, <1>2, <1>3, HeadHolds, AfterPollKeepsType

LEMMA PollAnsweredKeeps ==
    ASSUME IInv, NEW t \in Task, PollAnswered(t)
    PROVE  IInv'
<1>1. /\ manager \in Managers /\ FlowOK /\ SessionOK /\ WireOK
      /\ ClosingIsFinal /\ NothingFollowsClose /\ ChannelInStep
  BY InvariantIs
<1> DEFINE m == SM!AfterPoll(manager, t)
<1>2. Waits(t) /\ PollReturnsNormally(t)
  BY DEF PollAnswered
<1>3. /\ Holds(t, lock) /\ task[t].pc = "waiting" /\ task[t].left > 0
      /\ task[t].call \in Callable /\ m \in Managers /\ m.state = manager.state
  BY <1>2, WaiterHolds
<1>4. lock' = Tail(lock)
  BY <1>2 DEF PollReturnsNormally
<1>5. CASE task[t].call = "close"
  <2>1. Disconnect(t, m)
    BY <1>2, <1>5 DEF PollReturnsNormally
  <2>2. InClose(t)
    BY <1>3, <1>5 DEF InClose
  <2>3. Head(closeLock) = t /\ ~ Carries(outbox, "Connection.Close")
    BY <1>1, <1>3, <2>2 DEF FlowOK, CloseIsExclusive, ClosingIsFinal
  <2> HIDE DEF m
  <2> QED BY <1>3, <1>4, <1>5, <2>1, <2>3, DisconnectKeeps
<1>6. CASE task[t].call # "close"
  <2>1. /\ manager' = m /\ Return(t, task[t].call, "answered")
        /\ UNCHANGED <<channel, channelOpen, lastError, channel0, transport,
                       inbox, outbox, broker>>
    BY <1>2, <1>6 DEF PollReturnsNormally
  <2>2. End(t, task[t].call, "answered") /\ "answered" \in Outcome
    BY <2>1, OutcomesAre DEF Return
  <2>3. mode' \in [transactional : BOOLEAN, confirms : BOOLEAN]
    BY <1>1, <2>1 DEF SessionOK, Return
  <2> HIDE DEF m
  <2> QED BY <1>3, <1>4, <2>1, <2>2, <2>3, EndKeeps
<1> QED BY <1>5, <1>6

LEMMA PollRaisesKeeps ==
    ASSUME IInv, NEW t \in Task, PollRaises(t)
    PROVE  IInv'
<1>1. /\ manager \in Managers /\ FlowOK /\ SessionOK /\ WireOK
      /\ ClosingIsFinal /\ NothingFollowsClose /\ ChannelInStep
  BY InvariantIs
<1>2. /\ Waits(t) /\ manager' = SM!AfterPoll(manager, t) /\ lock' = Tail(lock)
      /\ Goes(t, task[t].call, "reconnecting")
      /\ UNCHANGED <<session, inbox, outbox, broker>>
  BY DEF PollRaises
<1>3. /\ Holds(t, lock) /\ task[t].pc = "waiting" /\ task[t].left > 0
      /\ task[t].call \in Callable /\ manager' \in Managers
      /\ manager'.state = manager.state
  BY <1>2, WaiterHolds
<1>4. "reconnecting" \in Pcs \ {"idle", "closeQueued"} /\ "reconnecting" \in Pcs
  BY DEF Pcs
<1>5. FlowOK'
  BY <1>1, <1>2, <1>3, <1>4, FlowGoes
<1>6. Moves(t, task[t].call, "reconnecting")
  BY <1>2 DEF Goes, Moves
<1>7. Alters(t) /\ task'[t].pc = "reconnecting"
  BY <1>1, <1>3, <1>4, <1>6, GoesAlters
<1>8. ClosingIsFinal' /\ NothingFollowsClose'
  BY <1>1, <1>2, <1>3, <1>7, EndedStaysOut, FinalKept
<1>9. ChannelInStep'
  <2>1. manager.state \notin Passing
    BY <1>1 DEF ChannelInStep
  <2> QED BY <1>1, <1>2, <1>3, <2>1, InStepKept DEF session
<1>10. SessionOK' /\ WireOK'
  BY <1>1, <1>2 DEF session, SessionOK, WireOK
<1> QED BY <1>3, <1>5, <1>8, <1>9, <1>10, InvariantNext

LEMMA RaiseLastErrorKeeps ==
    ASSUME IInv, NEW t \in Task, RaiseLastError(t)
    PROVE  IInv'
<1> DEFINE result == IF lastError = None THEN "UnknownError" ELSE lastError
<1>1. /\ task[t].pc = "raising" /\ End(t, task[t].call, result) /\ lastError' = None
      /\ UNCHANGED <<manager, lock, channel, channelOpen, mode, channel0, transport,
                     inbox, outbox, broker>>
  BY DEF RaiseLastError
<1>2. /\ manager \in Managers /\ FlowOK /\ SessionOK
  BY InvariantIs
<1>3. task[t].left > 0 /\ task[t].call \in Callable
  BY <1>1, <1>2 DEF FlowOK, CallsOK
<1>4. result \in Outcome /\ mode' \in [transactional : BOOLEAN, confirms : BOOLEAN]
  BY <1>1, <1>2, OutcomesAre DEF SessionOK
<1> HIDE DEF result
<1> QED BY <1>1, <1>2, <1>3, <1>4, EndKeeps

LEMMA CloseFailsKeeps ==
    ASSUME IInv, NEW t \in Task, CloseFails(t)
    PROVE  IInv'
<1>1. /\ task[t].pc = "closing" /\ End(t, "close", STE)
      /\ UNCHANGED <<manager, lock, channel, channelOpen, lastError, mode, channel0,
                     transport, inbox, outbox, broker>>
  BY DEF CloseFails, session
<1>2. /\ manager \in Managers /\ FlowOK /\ SessionOK
  BY InvariantIs
<1>3. task[t].left > 0 /\ "close" \in Callable /\ STE \in Outcome
  BY <1>1, <1>2, OutcomesAre DEF FlowOK, CallsOK, Callable
<1>4. mode' \in [transactional : BOOLEAN, confirms : BOOLEAN]
  BY <1>1, <1>2 DEF SessionOK
<1> QED BY <1>1, <1>2, <1>3, <1>4, EndKeeps

LEMMA CloseEndsKeeps ==
    ASSUME IInv, NEW t \in Task, CloseEnds(t)
    PROVE  IInv'
<1>1. /\ manager \in Managers /\ FlowOK /\ SessionOK /\ WireOK
      /\ ClosingIsFinal /\ NothingFollowsClose /\ ChannelInStep
  BY InvariantIs
<1>2. /\ task[t].pc = "closing"
      /\ manager' = [manager EXCEPT !.state = "CLOSED", !.exception = None]
      /\ channel' = 0 /\ channelOpen' = FALSE
      /\ mode' = [mode EXCEPT !.confirms = FALSE]
      /\ channel0' = None /\ transport' = "closed"
      /\ End(t, "close", "closed")
      /\ UNCHANGED <<lock, lastError, inbox, outbox, broker>>
  BY DEF CloseEnds
<1>3. task[t].left > 0 /\ "close" \in Callable /\ "closed" \in Outcome
  BY <1>1, <1>2, OutcomesAre DEF FlowOK, CallsOK, Callable
<1>4. FlowOK'
  BY <1>1, <1>2, <1>3, FlowEnds
<1>5. Alters(t) /\ task'[t].pc = "idle"
  BY <1>1, <1>2, <1>3, EndAlters
<1>6. manager' \in Managers /\ manager'.state = "CLOSED"
  BY <1>1, <1>2, StatesAre, ManagersAre
<1>7. ClosingIsFinal' /\ NothingFollowsClose'
  BY <1>1, <1>2, <1>5, <1>6, EndedStaysOut, FinalKept DEF Final
<1>8. ChannelInStep'
  BY <1>2, <1>6, InStepDead DEF Passing
<1>9. SessionOK' /\ WireOK'
  BY <1>1, <1>2, NumbersAre DEF SessionOK, WireOK
<1> QED BY <1>4, <1>6, <1>7, <1>8, <1>9, InvariantNext
LEMMA OpeningIs ==
    ASSUME NEW m \in Managers, m.state \notin Passing,
           ~ SM!Refuses(m, "OPENING_CHANNEL", None)
    PROVE  /\ m.state \in {"CHANNEL_CLOSEOK_SENT", "CHANNEL_CLOSEOK_RECEIVED"}
           /\ Opening(m) \in Managers /\ Opening(m).state = "CHANNEL_OPEN_SENT"
<1>1. m.state \in ClientState
  BY ManagersAre
<1>2. "OPENING_CHANNEL" \in ClientTransitions[m.state]
  BY DEF SM!Refuses, SM!Unchanged, Passing
<1>3. m.state \in {"CHANNEL_CLOSEOK_SENT", "CHANNEL_CLOSEOK_RECEIVED"}
  BY <1>1, <1>2, OpensFrom DEF Passing
<1> DEFINE first == Enter(m, "OPENING_CHANNEL")
<1>4. first \in Managers /\ first.state = "OPENING_CHANNEL"
  BY StatesAre, EnterKeepsType
<1> HIDE DEF first
<1>5. ~ SM!Refuses(first, "CHANNEL_OPEN_SENT", None)
  BY <1>4, StepsAre DEF SM!Refuses
<1>6. /\ Enter(first, "CHANNEL_OPEN_SENT") \in Managers
      /\ Enter(first, "CHANNEL_OPEN_SENT").state = "CHANNEL_OPEN_SENT"
  BY <1>4, <1>5, StatesAre, EnterKeepsType
<1> QED BY <1>3, <1>6 DEF Opening, first

LEMMA PollChannelClosedKeeps ==
    ASSUME IInv, NEW t \in Task, PollChannelClosed(t)
    PROVE  IInv'
<1>1. /\ manager \in Managers /\ FlowOK /\ SessionOK /\ WireOK
      /\ ClosingIsFinal /\ NothingFollowsClose /\ ChannelInStep
  BY InvariantIs
<1> DEFINE m == SM!AfterPoll(manager, t)
           frame == Frame("Channel.Open", NextChannel)
           pc == IF channelOpen THEN "raising" ELSE "opening"
<1>2. /\ Waits(t) /\ lock' = Tail(lock)
      /\ UNCHANGED <<channelOpen, lastError, mode, channel0, transport, inbox, broker>>
  BY DEF PollChannelClosed
<1>3. /\ Holds(t, lock) /\ task[t].pc = "waiting" /\ task[t].left > 0
      /\ task[t].call \in Callable /\ m \in Managers /\ m.state = manager.state
  BY <1>2, WaiterHolds
<1>4. CASE SM!Refuses(m, "OPENING_CHANNEL", None)
  <2>1. /\ manager' = SM!Refuse(m, STE) /\ End(t, task[t].call, STE)
        /\ UNCHANGED <<channel, outbox>>
    BY <1>4 DEF PollChannelClosed
  <2> HIDE DEF m
  <2>2. manager' \in Managers /\ manager'.state = manager.state
    BY <1>3, <2>1, StatesAre, EnterKeepsType
  <2>3. STE \in Outcome /\ mode' \in [transactional : BOOLEAN, confirms : BOOLEAN]
    BY <1>1, <1>2, OutcomesAre DEF SessionOK
  <2> QED BY <1>2, <1>3, <2>1, <2>2, <2>3, EndKeeps
<1>5. CASE ~ SM!Refuses(m, "OPENING_CHANNEL", None)
  <2>1. /\ manager' = Opening(m) /\ channel' = NextChannel
        /\ Write(<<frame>>) /\ Goes(t, task[t].call, pc)
    BY <1>5 DEF PollChannelClosed
  <2>2. manager.state \notin Passing
    BY <1>1 DEF ChannelInStep
  <2> HIDE DEF m
  <2>3. /\ manager.state \in {"CHANNEL_CLOSEOK_SENT", "CHANNEL_CLOSEOK_RECEIVED"}
        /\ manager' \in Managers /\ manager'.state = "CHANNEL_OPEN_SENT"
    BY <1>3, <1>5, <2>1, <2>2, OpeningIs
  <2>4. channel' \in Numbers
    BY <1>1, <2>1, NumbersAre DEF SessionOK
  <2>5. /\ frame \in OutFrame /\ frame.type = "Channel.Open" /\ frame.channel = channel'
    BY <2>1, <2>4 DEF Frame, OutFrame
  <2>6. pc \in Pcs \ {"idle", "closeQueued"} /\ pc \in Pcs /\ pc \notin {"queued", "waiting"}
    BY DEF Pcs
  <2> HIDE DEF frame, pc
  <2>7. FlowOK'
    BY <1>1, <1>2, <1>3, <2>1, <2>6, FlowGoes
  <2>8. ~ Carries(outbox, "Connection.Close")
    BY <1>1, <2>3 DEF ClosingIsFinal
  <2>9. ClosingIsFinal' /\ NothingFollowsClose'
    BY <1>1, <2>1, <2>5, <2>8, FinalWritten
  <2>10. ChannelInStep'
    <3> SUFFICES ASSUME Live
                 PROVE  ChannelInStep'
      BY <1>2, <2>3, InStepDead DEF Live, Passing
    <3>1. /\ manager'.state \notin Passing
          /\ ~ Carries(outbox', "Connection.Close") /\ ~ Carries(inbox', "Disconnected")
          /\ broker'.gone => Carries(inbox', "Connection.Close")
      BY <1>1, <1>2, <2>1, <2>3, <2>5, WriteIs DEF ChannelInStep, Passing
    <3>2. ASSUME ~ broker'.gone
          PROVE  ChannelFollows'
      <4>1. ChannelFollows
        BY <1>1, <1>2, <3>2 DEF ChannelInStep
      <4>2. /\ ~ channelOpen' /\ ~ Carries(inbox', "Channel.OpenOk")
            /\ ~ Carries(outbox, "Channel.Open")
        BY <1>2, <2>3, <4>1 DEF ChannelFollows, Reopening
      <4>3. ~ TakenForOpen'
        BY <4>2 DEF TakenForOpen
      <4>4. OpensOnce'
        <5>1. CASE outbox' = outbox
          BY <4>2, <5>1 DEF OpensOnce, Carries
        <5>2. CASE outbox' = outbox \o <<frame>>
          <6>1. outbox \in Seq(OutFrame)
            BY <1>1 DEF WireOK
          <6>2. /\ \A i \in DOMAIN outbox' :
                      i = Len(outbox) + 1 \/ (i < Len(outbox) + 1 /\ i \in DOMAIN outbox)
                /\ outbox'[Len(outbox) + 1] = frame
                /\ \A i \in DOMAIN outbox : outbox'[i] = outbox[i]
                /\ DOMAIN outbox' \subseteq Nat /\ Len(outbox) + 1 \in Nat
            BY <2>5, <5>2, <6>1, OneMoreIs
          <6>3. \A i \in DOMAIN outbox' : outbox'[i].type = "Channel.Open" =>
                    i = Len(outbox) + 1 /\ outbox'[i] = frame
            BY <4>2, <6>2 DEF Carries
          <6>4. \A i, j \in DOMAIN outbox' : i = Len(outbox) + 1 => ~ (i < j)
            <7> DEFINE last == Len(outbox) + 1
            <7>1. \A j \in DOMAIN outbox' : (j = last \/ j < last) /\ j \in Nat /\ last \in Nat
              BY <6>2
            <7> HIDE DEF last
            <7>2. \A j \in DOMAIN outbox' : ~ (last < j)
              BY <7>1
            <7> QED BY <7>2 DEF last
          <6> QED BY <2>5, <4>2, <6>3, <6>4 DEF OpensOnce, Carries
        <5> QED BY <1>1, <2>1, <2>5, <5>1, <5>2, WriteIs
      <4> QED BY <1>2, <2>3, <4>1, <4>2, <4>3, <4>4 DEF ChannelFollows
    <3> QED BY <3>1, <3>2 DEF ChannelInStep
  <2>11. SessionOK'
    BY <1>1, <1>2, <2>4 DEF SessionOK
  <2>12. outbox' \in Seq(OutFrame)
    BY <1>1, <2>1, <2>5, WriteIs
  <2>13. WireOK'
    BY <1>1, <1>2, <2>12 DEF WireOK
  <2> QED BY <2>3, <2>7, <2>9, <2>10, <2>11, <2>13, InvariantNext
<1> QED BY <1>4, <1>5

---------------------------------------------------------------------------
(* The frames the client receives *)

LEMMA FlowSame ==
    ASSUME FlowOK, UNCHANGED flow
    PROVE  FlowOK' /\ NobodyComes
BY DEF flow, FlowOK, CallsOK, CloseIsExclusive, InClose, NobodyComes

\* A closed client refuses what is not about its closing.
LEMMA FinalRefuses ==
    ASSUME manager.state \in Final,
           NEW value, value \notin Final \cup {"CONNECTING", "DISCONNECTED"}
    PROVE  SM!Refuses(manager, value, None)
BY StepsAre DEF Final, SM!Refuses, SM!Unchanged

\* What Receives leaves: the state, or a Channel0 that has failed.
LEMMA ReceivesIs ==
    ASSUME IInv, NEW value \in ClientState, Receives(value)
    PROVE  /\ manager' \in Managers
           /\ channel0' \in {"open", "closing", "closed", "failed", None}
           /\ \/ channel0' = "failed" /\ manager'.state = manager.state
              \/ /\ channel0' = channel0 /\ manager'.state = value
                 /\ ~ SM!Refuses(manager, value, None)
           /\ value \notin Final \cup {"CONNECTING", "DISCONNECTED"} =>
                  (manager.state \in Final => manager'.state \in Final)
<1>1. manager \in Managers /\ SessionOK
  BY InvariantIs
<1>2. /\ manager' = Enter(manager, value)
      /\ channel0' = IF SM!Refuses(manager, value, None) THEN "failed" ELSE channel0
  BY DEF Receives
<1>3. /\ manager' \in Managers
      /\ manager'.state = IF SM!Refuses(manager, value, None) THEN manager.state ELSE value
  BY <1>1, <1>2, EnterKeepsType
<1>4. channel0' \in {"open", "closing", "closed", "failed", None}
  BY <1>1, <1>2 DEF SessionOK
<1> QED BY <1>2, <1>3, <1>4, FinalRefuses

LEMMA ReceiveOkKeeps ==
    ASSUME IInv, ReceiveOk
    PROVE  IInv'
<1>1. /\ manager \in Managers /\ FlowOK /\ SessionOK /\ WireOK
      /\ ClosingIsFinal /\ NothingFollowsClose /\ ChannelInStep
  BY InvariantIs
<1>2. PICK m \in Requests :
         /\ Takes(m) /\ Receives(Ok(m))
         /\ mode' = [mode EXCEPT !.transactional = @ \/ m = "tx_select"]
         /\ UNCHANGED <<flow, channel, channelOpen, lastError, transport, outbox, broker>>
  BY DEF ReceiveOk
<1>3. Ok(m) \in OkStates /\ Ok(m) \in ClientState
  BY RequestStates, StatesAre
<1>4. Ok(m) \notin Passing \cup Final \cup {"CONNECTING", "DISCONNECTED",
          "CHANNEL_OPENOK_RECEIVED", "CHANNEL_OPEN_SENT", "CHANNEL_CLOSEOK_SENT",
          "CHANNEL_CLOSEOK_RECEIVED"}
  BY <1>3 DEF OkStates, Passing, Final
<1>5. /\ manager' \in Managers
      /\ channel0' \in {"open", "closing", "closed", "failed", None}
      /\ \/ channel0' = "failed" /\ manager'.state = manager.state
         \/ /\ channel0' = channel0 /\ manager'.state = Ok(m)
            /\ ~ SM!Refuses(manager, Ok(m), None)
      /\ manager.state \in Final => manager'.state \in Final
  BY <1>2, <1>3, <1>4, ReceivesIs
<1>6. FlowOK' /\ NobodyComes
  BY <1>1, <1>2, FlowSame
<1>7. ClosingIsFinal' /\ NothingFollowsClose'
  BY <1>1, <1>2, <1>5, <1>6, FinalKept
<1>8. ChannelInStep'
  <2>1. manager'.state \notin Passing
    BY <1>1, <1>4, <1>5 DEF ChannelInStep
  <2>2. CASE channel0' = "failed"
    BY <2>1, <2>2, InStepDead
  <2>3. CASE /\ channel0' = channel0 /\ manager'.state = Ok(m)
             /\ ~ SM!Refuses(manager, Ok(m), None)
    <3>1. manager.state # "CHANNEL_OPEN_SENT"
      BY <1>4, <2>3, StepsAre DEF SM!Refuses, SM!Unchanged, Final
    <3>2. /\ \A other : Carries(inbox', other) => Carries(inbox, other)
          /\ \A other : Carries(inbox, other) => other = m \/ Carries(inbox', other)
      BY <1>1, <1>2, TakesIs
    <3>3. m \notin {"Channel.Close", "Channel.CloseOk", "Channel.OpenOk",
                    "Connection.Close"}
      BY FrameNames
    <3>4. ASSUME ChannelFollows PROVE ChannelFollows'
      <4>1. ~ Reopening /\ ~ Reopening'
        BY <1>2, <3>1, <3>2, <3>4 DEF ChannelFollows, Reopening
      <4>2. OpensOnce'
        BY <4>1 DEF OpensOnce, Reopening, Carries
      <4>3. (TakenForOpen' <=> TakenForOpen) /\ (CloseComing => CloseComing')
        BY <1>2, <3>2, <3>3 DEF TakenForOpen, CloseComing
      <4> QED BY <1>2, <1>4, <2>3, <3>4, <4>1, <4>2, <4>3 DEF ChannelFollows
    <3> QED BY <1>1, <1>2, <2>1, <2>3, <3>2, <3>3, <3>4 DEF ChannelInStep, Live
  <2> QED BY <1>5, <2>2, <2>3
<1>9. mode' \in [transactional : BOOLEAN, confirms : BOOLEAN]
  BY <1>1, <1>2 DEF SessionOK
<1>10. inbox' \in Seq(InFrame)
  BY <1>1, <1>2, TakesIs
<1>11. SessionOK' /\ WireOK'
  BY <1>1, <1>2, <1>5, <1>9, <1>10 DEF SessionOK, WireOK
<1> QED BY <1>5, <1>6, <1>7, <1>8, <1>11, InvariantNext
LEMMA ReceiveChannelCloseKeeps ==
    ASSUME IInv, ReceiveChannelClose
    PROVE  IInv'
<1>1. /\ manager \in Managers /\ FlowOK /\ SessionOK /\ WireOK
      /\ ClosingIsFinal /\ NothingFollowsClose /\ ChannelInStep
  BY InvariantIs
<1> DEFINE frame == Frame("Channel.CloseOk", channel)
           first == Enter(manager, "CHANNEL_CLOSE_RECEIVED")
<1>2. /\ Takes("Channel.Close") /\ ~ SM!Refuses(manager, "CHANNEL_CLOSE_RECEIVED", None)
      /\ manager' = Enter(first, "CHANNEL_CLOSEOK_SENT")
      /\ Write(<<frame>>) /\ lastError' = Head(inbox).code /\ channelOpen' = FALSE
      /\ UNCHANGED <<flow, channel, mode, channel0, transport, broker>>
  BY DEF ReceiveChannelClose
<1>3. first \in Managers /\ first.state = "CHANNEL_CLOSE_RECEIVED"
  BY <1>1, <1>2, StatesAre, EnterKeepsType
<1>4. frame \in OutFrame /\ frame.type = "Channel.CloseOk"
  BY <1>1 DEF Frame, OutFrame, SessionOK
<1> HIDE DEF first, frame
<1>5. ~ SM!Refuses(first, "CHANNEL_CLOSEOK_SENT", None)
  BY <1>3, StepsAre DEF SM!Refuses
<1>6. manager' \in Managers /\ manager'.state = "CHANNEL_CLOSEOK_SENT"
  BY <1>2, <1>3, <1>5, StatesAre, EnterKeepsType
<1>7. manager.state \notin Final /\ manager.state # "CHANNEL_OPEN_SENT"
  BY <1>2, StepsAre DEF SM!Refuses, SM!Unchanged, Final
<1>8. ~ Carries(outbox, "Connection.Close")
  BY <1>1, <1>7 DEF ClosingIsFinal, Final
<1>9. /\ inbox' \in Seq(InFrame) /\ Head(inbox) \in InFrame
      /\ Head(inbox).type = "Channel.Close"
      /\ \A other : Carries(inbox', other) => Carries(inbox, other)
      /\ \A other : Carries(inbox, other) => other = "Channel.Close" \/ Carries(inbox', other)
  BY <1>1, <1>2, TakesIs
<1>10. lastError' \in Codes
  BY <1>2, <1>9, FrameNames DEF InFrame
<1>11. /\ outbox' \in Seq(OutFrame)
       /\ \A type : Carries(outbox', type) => Carries(outbox, type) \/ frame.type = type
  BY <1>1, <1>2, <1>4, WriteIs
<1>12. FlowOK' /\ NobodyComes
  BY <1>1, <1>2, FlowSame
<1>13. ClosingIsFinal' /\ NothingFollowsClose'
  BY <1>1, <1>2, <1>4, <1>8, FinalWritten
<1>14. ChannelInStep'
  <2>1. ASSUME Live, ~ broker.gone
        PROVE  ChannelFollows'
    <3>1. ChannelFollows
      BY <1>1, <2>1 DEF ChannelInStep
    <3>2. ~ Carries(outbox, "Channel.Open") /\ ~ Carries(inbox, "Channel.OpenOk")
      BY <1>7, <3>1 DEF ChannelFollows, Reopening
    <3>3. ~ Carries(outbox', "Channel.Open") /\ ~ Carries(inbox', "Channel.OpenOk")
      BY <1>4, <1>9, <1>11, <3>2
    <3>4. ~ TakenForOpen' /\ ~ Reopening'
      BY <1>2, <3>3 DEF TakenForOpen, Reopening
    <3>5. OpensOnce'
      BY <3>3 DEF OpensOnce, Carries
    <3> QED BY <1>2, <1>6, <3>1, <3>4, <3>5 DEF ChannelFollows
  <2>2. Live' => Live
    BY <1>2 DEF Live
  <2>3. /\ manager'.state \notin Passing
        /\ Live => ~ Carries(outbox', "Connection.Close") /\ ~ Carries(inbox', "Disconnected")
        /\ Live /\ broker'.gone => Carries(inbox', "Connection.Close")
    BY <1>1, <1>2, <1>4, <1>6, <1>9, <1>11 DEF ChannelInStep, Passing
  <2> QED BY <1>2, <2>1, <2>2, <2>3 DEF ChannelInStep
<1>15. SessionOK' /\ WireOK'
  BY <1>1, <1>2, <1>9, <1>10, <1>11 DEF SessionOK, WireOK
<1> QED BY <1>6, <1>12, <1>13, <1>14, <1>15, InvariantNext

LEMMA ReceiveChannelCloseRefusedKeeps ==
    ASSUME IInv, ReceiveChannelCloseRefused
    PROVE  IInv'
<1>1. /\ manager \in Managers /\ FlowOK /\ SessionOK /\ WireOK
      /\ ClosingIsFinal /\ NothingFollowsClose /\ ChannelInStep
  BY InvariantIs
<1>2. /\ Takes("Channel.Close") /\ SM!Refuses(manager, "CHANNEL_CLOSE_RECEIVED", None)
      /\ Receives("CHANNEL_CLOSE_RECEIVED")
      /\ UNCHANGED <<flow, channel, channelOpen, lastError, mode, transport, outbox, broker>>
  BY DEF ReceiveChannelCloseRefused
<1>3. /\ manager' \in Managers
      /\ channel0' = "failed" /\ manager'.state = manager.state
  <2>1. "CHANNEL_CLOSE_RECEIVED" \in ClientState
    BY StatesAre
  <2>2. channel0' = "failed" /\ manager' = Enter(manager, "CHANNEL_CLOSE_RECEIVED")
    BY <1>2 DEF Receives
  <2> QED BY <1>1, <1>2, <2>1, <2>2, EnterKeepsType
<1>4. FlowOK' /\ NobodyComes
  BY <1>1, <1>2, FlowSame
<1>5. ClosingIsFinal' /\ NothingFollowsClose'
  BY <1>1, <1>2, <1>3, <1>4, FinalKept
<1>6. ChannelInStep'
  BY <1>1, <1>3, InStepDead DEF ChannelInStep
<1>7. inbox' \in Seq(InFrame)
  BY <1>1, <1>2, TakesIs
<1>8. SessionOK' /\ WireOK'
  BY <1>1, <1>2, <1>3, <1>7 DEF SessionOK, WireOK
<1> QED BY <1>3, <1>4, <1>5, <1>6, <1>8, InvariantNext

LEMMA ReceiveChannelCloseOkKeeps ==
    ASSUME IInv, ReceiveChannelCloseOk
    PROVE  IInv'
<1>1. /\ manager \in Managers /\ FlowOK /\ SessionOK /\ WireOK
      /\ ClosingIsFinal /\ NothingFollowsClose /\ ChannelInStep
  BY InvariantIs
<1> DEFINE value == "CHANNEL_CLOSEOK_RECEIVED"
<1>2. /\ Takes("Channel.CloseOk") /\ channelOpen' = FALSE /\ Receives(value)
      /\ UNCHANGED <<flow, channel, lastError, mode, transport, outbox, broker>>
  BY DEF ReceiveChannelCloseOk
<1>3. value \in ClientState /\ value \notin Final \cup {"CONNECTING", "DISCONNECTED"}
  BY StatesAre DEF Final
<1>4. /\ manager' \in Managers
      /\ channel0' \in {"open", "closing", "closed", "failed", None}
      /\ \/ channel0' = "failed" /\ manager'.state = manager.state
         \/ /\ channel0' = channel0 /\ manager'.state = value
            /\ ~ SM!Refuses(manager, value, None)
      /\ manager.state \in Final => manager'.state \in Final
  BY <1>2, <1>3, ReceivesIs
<1>5. FlowOK' /\ NobodyComes
  BY <1>1, <1>2, FlowSame
<1>6. ClosingIsFinal' /\ NothingFollowsClose'
  BY <1>1, <1>2, <1>4, <1>5, FinalKept
<1>7. /\ inbox' \in Seq(InFrame)
      /\ \A other : Carries(inbox', other) => Carries(inbox, other)
      /\ \A other : Carries(inbox, other) => other = "Channel.CloseOk" \/ Carries(inbox', other)
  BY <1>1, <1>2, TakesIs
<1>8. ChannelInStep'
  <2>1. manager'.state \notin Passing
    BY <1>1, <1>4 DEF ChannelInStep, Passing
  <2>2. CASE channel0' = "failed"
    BY <2>1, <2>2, InStepDead
  <2>3. CASE /\ channel0' = channel0 /\ manager'.state = value
             /\ ~ SM!Refuses(manager, value, None)
    <3>1. manager.state # "CHANNEL_OPEN_SENT"
      BY <2>3, StepsAre DEF SM!Refuses, SM!Unchanged
    <3>2. ASSUME ChannelFollows
          PROVE  ChannelFollows'
      <4>1. ~ Carries(outbox, "Channel.Open") /\ ~ Carries(inbox, "Channel.OpenOk")
        BY <3>1, <3>2 DEF ChannelFollows, Reopening
      <4>2. ~ Carries(outbox', "Channel.Open") /\ ~ Carries(inbox', "Channel.OpenOk")
        BY <1>2, <1>7, <4>1 DEF Carries
      <4>3. ~ TakenForOpen' /\ ~ Reopening'
        BY <1>2, <4>2 DEF TakenForOpen, Reopening
      <4>4. OpensOnce'
        BY <4>2 DEF OpensOnce, Carries
      <4> QED BY <1>2, <2>3, <3>2, <4>3, <4>4 DEF ChannelFollows
    <3> QED BY <1>1, <1>2, <1>7, <2>1, <2>3, <3>2 DEF ChannelInStep, Live
  <2> QED BY <1>4, <2>2, <2>3
<1>9. SessionOK' /\ WireOK'
  BY <1>1, <1>2, <1>4, <1>7 DEF SessionOK, WireOK
<1> QED BY <1>4, <1>5, <1>6, <1>8, <1>9, InvariantNext

LEMMA ReceiveChannelOpenOkKeeps ==
    ASSUME IInv, ReceiveChannelOpenOk
    PROVE  IInv'
<1>1. /\ manager \in Managers /\ FlowOK /\ SessionOK /\ WireOK
      /\ ClosingIsFinal /\ NothingFollowsClose /\ ChannelInStep
  BY InvariantIs
<1> DEFINE value == "CHANNEL_OPENOK_RECEIVED"
<1>2. /\ Takes("Channel.OpenOk") /\ channelOpen' = TRUE /\ Receives(value)
      /\ task' = [t \in Task |-> IF task[t].pc = "opening"
                                 THEN [task[t] EXCEPT !.pc = "raising"] ELSE task[t]]
      /\ UNCHANGED <<lock, closeLock, channel, lastError, mode, transport, outbox, broker>>
  BY DEF ReceiveChannelOpenOk
<1>3. value \in ClientState /\ value \notin Final \cup {"CONNECTING", "DISCONNECTED"}
  BY StatesAre DEF Final
<1>4. /\ manager' \in Managers
      /\ channel0' \in {"open", "closing", "closed", "failed", None}
      /\ \/ channel0' = "failed" /\ manager'.state = manager.state
         \/ /\ channel0' = channel0 /\ manager'.state = value
            /\ ~ SM!Refuses(manager, value, None)
      /\ manager.state \in Final => manager'.state \in Final
  BY <1>2, <1>3, ReceivesIs
<1>5. FlowOK'
  BY <1>1, <1>2, FlowOpens
<1>6. NobodyComes
  <2> SUFFICES ASSUME NEW u \in Task, task'[u].pc \in {"queued", "waiting"}
               PROVE  task'[u] = task[u]
    BY DEF NobodyComes, InClose
  <2>1. task'[u] = IF task[u].pc = "opening" THEN [task[u] EXCEPT !.pc = "raising"]
                   ELSE task[u]
    BY <1>2
  <2>2. task[u] \in Records
    BY <1>1 DEF FlowOK
  <2> QED BY <2>1, <2>2 DEF Records
<1>7. ClosingIsFinal' /\ NothingFollowsClose'
  BY <1>1, <1>2, <1>4, <1>6, FinalKept
<1>8. /\ inbox' \in Seq(InFrame) /\ inbox # <<>> /\ inbox' = Tail(inbox)
      /\ Head(inbox).type = "Channel.OpenOk" /\ Carries(inbox, "Channel.OpenOk")
      /\ \A other : Carries(inbox', other) => Carries(inbox, other)
      /\ \A other : Carries(inbox, other) => other = "Channel.OpenOk" \/ Carries(inbox', other)
  BY <1>1, <1>2, TakesIs
<1>9. ChannelInStep'
  <2>1. manager'.state \notin Passing
    BY <1>1, <1>4 DEF ChannelInStep, Passing
  <2>2. CASE channel0' = "failed"
    BY <2>1, <2>2, InStepDead
  <2>3. CASE channel0' = channel0 /\ manager'.state = value
    <3>1. ASSUME ChannelFollows
          PROVE  ChannelFollows'
      <4>1. TakenForOpen /\ Reopening
        BY <1>8 DEF TakenForOpen, Reopening
      <4>2. ~ Carries(outbox, "Channel.Open") /\ ~ Carries(outbox, "Channel.CloseOk")
        BY <1>8, <3>1, <4>1 DEF ChannelFollows, OpensOnce
      <4>3. ~ Carries(inbox', "Channel.OpenOk")
        <5> SUFFICES ASSUME NEW i \in DOMAIN inbox', inbox'[i].type = "Channel.OpenOk"
                     PROVE  FALSE
          BY DEF Carries
        <5>1. inbox \in Seq(InFrame)
          BY <1>1 DEF WireOK
        <5>2. /\ 1 \in DOMAIN inbox /\ inbox[1].type = "Channel.OpenOk"
              /\ i + 1 \in DOMAIN inbox /\ inbox[i + 1].type = "Channel.OpenOk"
              /\ i \in Nat /\ i # 0
          <6>1. /\ 1 \in DOMAIN inbox /\ inbox[1] = Head(inbox)
                /\ i + 1 \in DOMAIN inbox /\ inbox'[i] = inbox[i + 1] /\ i \in Nat
            BY <1>8, <5>1, TailIs
          <6>2. i # 0
            BY <1>8
          <6> QED BY <1>8, <6>1, <6>2
        <5>3. 1 = i + 1
          BY <3>1, <5>2 DEF ChannelFollows, OpensOnce
        <5> QED BY <5>2, <5>3
      <4>4. ~ Reopening'
        BY <1>2, <4>2, <4>3 DEF Reopening, Carries
      <4>5. OpensOnce'
        BY <1>2, <4>2, <4>3 DEF OpensOnce, Carries
      <4>6. CloseComing => CloseComing'
        BY <1>8 DEF CloseComing
      <4> QED BY <1>2, <2>3, <3>1, <4>1, <4>2, <4>4, <4>5, <4>6 DEF ChannelFollows
    <3> QED BY <1>1, <1>2, <1>8, <2>1, <2>3, <3>1 DEF ChannelInStep, Live
  <2> QED BY <1>4, <2>2, <2>3
<1>10. SessionOK' /\ WireOK'
  BY <1>1, <1>2, <1>4, <1>8 DEF SessionOK, WireOK
<1> QED BY <1>4, <1>5, <1>7, <1>9, <1>10, InvariantNext
LEMMA ReceiveConnectionCloseKeeps ==
    ASSUME IInv, ReceiveConnectionClose
    PROVE  IInv'
<1>1. /\ manager \in Managers /\ FlowOK /\ SessionOK /\ WireOK
      /\ ClosingIsFinal /\ NothingFollowsClose /\ ChannelInStep
  BY InvariantIs
<1>2. /\ Takes("Connection.Close")
      /\ UNCHANGED <<flow, channel, channelOpen, mode, transport, outbox, broker>>
  BY DEF ReceiveConnectionClose
<1>3. /\ inbox' \in Seq(InFrame) /\ Head(inbox) \in InFrame
      /\ Head(inbox).type = "Connection.Close"
  BY <1>1, <1>2, TakesIs
<1>4. Head(inbox).code = "ChannelError"
  BY <1>3, FrameNames DEF InFrame
<1>5. /\ manager' \in Managers /\ channel0' \in {"closed", "failed"}
      /\ manager'.state \in {manager.state, "EXCEPTION"}
      /\ lastError' \in Codes \cup {"ChannelError", None}
  <2>1. CASE channel0 = "open"
    <3>1. /\ channel0' = "closed" /\ lastError' = Head(inbox).code
          /\ manager' = SM!SetState(manager, "EXCEPTION", "ChannelError", STE)
      BY <2>1 DEF ReceiveConnectionClose
    <3>2. "EXCEPTION" \in ClientState /\ STE \in Error /\ "ChannelError" \in Error \cup {None}
      BY StatesAre DEF Error
    <3>3. manager' \in Managers /\ manager'.state \in {manager.state, "EXCEPTION"}
      BY <1>1, <3>1, <3>2, SetStateKeepsType
    <3> QED BY <1>4, <3>1, <3>3
  <2>2. CASE channel0 # "open"
    <3>1. channel0' = "failed" /\ UNCHANGED <<lastError, manager>>
      BY <2>2 DEF ReceiveConnectionClose
    <3> QED BY <1>1, <3>1 DEF SessionOK
  <2> QED BY <2>1, <2>2
<1>6. FlowOK' /\ NobodyComes
  BY <1>1, <1>2, FlowSame
<1>7. ClosingIsFinal' /\ NothingFollowsClose'
  BY <1>1, <1>2, <1>5, <1>6, FinalKept DEF Final
<1>8. ChannelInStep'
  BY <1>1, <1>5, InStepDead DEF ChannelInStep, Passing
<1>9. SessionOK' /\ WireOK'
  BY <1>1, <1>2, <1>3, <1>5 DEF SessionOK, WireOK
<1> QED BY <1>5, <1>6, <1>7, <1>8, <1>9, InvariantNext

LEMMA ReceiveConnectionCloseOkKeeps ==
    ASSUME IInv, ReceiveConnectionCloseOk
    PROVE  IInv'
<1>1. /\ manager \in Managers /\ FlowOK /\ SessionOK /\ WireOK
      /\ ClosingIsFinal /\ NothingFollowsClose /\ ChannelInStep
  BY InvariantIs
<1>2. /\ Takes("Connection.CloseOk") /\ channel0' \in {"closed", "failed"}
      /\ UNCHANGED <<manager, flow, channel, channelOpen, lastError, mode, transport,
                     outbox, broker>>
  BY DEF ReceiveConnectionCloseOk
<1>3. inbox' \in Seq(InFrame)
  BY <1>1, <1>2, TakesIs
<1>4. FlowOK' /\ NobodyComes
  BY <1>1, <1>2, FlowSame
<1>5. ClosingIsFinal' /\ NothingFollowsClose'
  BY <1>1, <1>2, <1>4, FinalKept
<1>6. ChannelInStep'
  BY <1>1, <1>2, InStepDead DEF ChannelInStep
<1>7. SessionOK' /\ WireOK'
  BY <1>1, <1>2, <1>3 DEF SessionOK, WireOK
<1> QED BY <1>1, <1>2, <1>4, <1>5, <1>6, <1>7, InvariantNext

LEMMA DisconnectedKeeps ==
    ASSUME IInv, Disconnected
    PROVE  IInv'
<1>1. /\ manager \in Managers /\ FlowOK /\ SessionOK /\ WireOK
      /\ ClosingIsFinal /\ NothingFollowsClose /\ ChannelInStep
  BY InvariantIs
<1>2. /\ Takes("Disconnected")
      /\ manager' = IF IsClosed THEN manager
                    ELSE SM!SetState(manager, "EXCEPTION", "ConnectionClosedException", STE)
      /\ UNCHANGED <<flow, session, outbox, broker>>
  BY DEF Disconnected
<1>3. inbox' \in Seq(InFrame) /\ Carries(inbox, "Disconnected")
  BY <1>1, <1>2, TakesIs
<1>4. /\ "EXCEPTION" \in ClientState /\ STE \in Error
      /\ "ConnectionClosedException" \in Error \cup {None}
  BY StatesAre DEF Error
<1>5. manager' \in Managers /\ manager'.state \in {manager.state, "EXCEPTION"}
  BY <1>1, <1>2, <1>4, SetStateKeepsType
<1>6. FlowOK' /\ NobodyComes
  BY <1>1, <1>2, FlowSame
<1>7. ClosingIsFinal' /\ NothingFollowsClose'
  BY <1>1, <1>2, <1>5, <1>6, FinalKept DEF Final
<1>8. ChannelInStep'
  BY <1>1, <1>2, <1>3, <1>5, InStepDead DEF ChannelInStep, Passing, Live, session
<1>9. SessionOK' /\ WireOK'
  BY <1>1, <1>2, <1>3 DEF SessionOK, WireOK, session
<1> QED BY <1>5, <1>6, <1>7, <1>8, <1>9, InvariantNext

LEMMA ReceiveKeeps ==
    ASSUME IInv, Receive
    PROVE  IInv'
BY ReceiveOkKeeps, ReceiveChannelCloseKeeps, ReceiveChannelCloseRefusedKeeps,
   ReceiveChannelCloseOkKeeps, ReceiveChannelOpenOkKeeps, ReceiveConnectionCloseKeeps,
   ReceiveConnectionCloseOkKeeps, DisconnectedKeeps DEF Receive

---------------------------------------------------------------------------
(* The broker and the network *)

BrokerType ==
    [channel : Numbers, closing : BOOLEAN, mode : {"normal", "tx", "confirm"},
     gone : BOOLEAN, unsolicited : 0..MaxUnsolicited, refusals : SUBSET Requests,
     answers : SUBSET (Calls \X ({"answered"} \cup Codes))]

\* What the broker may do with a frame that it reads: the frame it sends, if any,
\* and what becomes of the channel.
LEMMA BrokerReadsIs ==
    ASSUME WireOK, NEW frame \in OutFrame, ~ broker.gone,
           IF broker.channel # 0 /\ frame.channel = broker.channel
           THEN BrokerReadsOpenChannel(frame) ELSE BrokerReadsOther(frame)
    PROVE  /\ broker' \in BrokerType
           /\ inbox' = inbox \/ \E reply \in InFrame : Sends(<<reply>>)
           /\ \/ \* nothing, or an answer
                 /\ broker'.channel = broker.channel /\ broker'.closing = broker.closing
                 /\ ~ broker'.gone
                 /\ \/ inbox' = inbox
                    \/ \E reply \in InFrame :
                          Sends(<<reply>>) /\ reply.type \in Requests
              \/ \* the channel is refused
                 /\ broker'.channel = broker.channel /\ broker.channel # 0 /\ ~ broker'.gone
                 /\ \E reply \in InFrame : Sends(<<reply>>) /\ reply.type = "Channel.Close"
              \/ \* the channel is closed for the client
                 /\ broker'.channel = 0 /\ ~ broker'.closing /\ ~ broker'.gone
                 /\ \E reply \in InFrame : Sends(<<reply>>) /\ reply.type = "Channel.CloseOk"
              \/ \* the client has taken note that it is closed
                 /\ broker'.channel = 0 /\ ~ broker'.closing /\ ~ broker'.gone
                 /\ inbox' = inbox /\ frame.type = "Channel.CloseOk"
              \/ \* the channel is opened
                 /\ frame.type = "Channel.Open" /\ broker.channel = 0
                 /\ broker'.channel = frame.channel /\ broker'.closing = broker.closing
                 /\ ~ broker'.gone
                 /\ \E reply \in InFrame : Sends(<<reply>>) /\ reply.type = "Channel.OpenOk"
              \/ \* the connection is closed
                 /\ broker'.gone
                 /\ frame.type = "Connection.Close" \/
                        \E reply \in InFrame :
                            Sends(<<reply>>) /\ reply.type = "Connection.Close"
<1>1. broker \in BrokerType
  BY DEF WireOK, BrokerType
<1>2. frame.channel \in Numbers
  BY DEF OutFrame
<1>3. frame.type \in Requests => frame.by \in Calls
  BY FrameNames DEF OutFrame
<1>4. ASSUME NEW n \in Numbers, NEW type \in Requests \cup {"Channel.OpenOk", "Channel.CloseOk",
                                                   "Connection.CloseOk", "Disconnected"}
      PROVE  Frame(type, n) \in InFrame /\ Frame(type, n).type = type
  BY DEF Frame, InFrame
<1>5. ASSUME frame.type \in Requests, NEW outcome \in {"answered"} \cup Codes
      PROVE  /\ Answers(frame.by, outcome) \in BrokerType
             /\ Answers(frame.by, outcome).channel = broker.channel
             /\ Answers(frame.by, outcome).closing = broker.closing
             /\ Answers(frame.by, outcome).gone = broker.gone
             /\ Answers(frame.by, outcome).answers =
                    broker.answers \cup {<<frame.by, outcome>>}
  BY <1>1, <1>3, <1>5 DEF Answers, BrokerType
<1>6. CASE broker.channel # 0 /\ frame.channel = broker.channel
  <2>1. BrokerReadsOpenChannel(frame)
    BY <1>6
  <2>2. CASE /\ frame.type = "Channel.Close"
             /\ Sends(<<Frame("Channel.CloseOk", frame.channel)>>)
             /\ broker' = [broker EXCEPT !.channel = 0, !.closing = FALSE]
    <3>1. broker' \in BrokerType /\ broker'.channel = 0 /\ ~ broker'.closing /\ ~ broker'.gone
      BY <1>1, <2>2, NumbersAre DEF BrokerType
    <3> QED BY <1>2, <1>4, <2>2, <3>1
  <2>3. CASE /\ frame.type = "Channel.CloseOk" /\ inbox' = inbox
             /\ broker' = [broker EXCEPT !.channel = 0, !.closing = FALSE]
    <3>1. broker' \in BrokerType /\ broker'.channel = 0 /\ ~ broker'.closing /\ ~ broker'.gone
      BY <1>1, <2>3, NumbersAre DEF BrokerType
    <3> QED BY <2>3, <3>1
  <2>4. CASE broker' = broker /\ inbox' = inbox
    BY <1>1, <2>4
  <2>5. CASE BrokerAccepts(frame) \/ BrokerRefuses(frame)
    <3>1. CASE BrokerAccepts(frame)
      <4> DEFINE mode0 == CASE frame.type = "tx_select" -> "tx"
                            [] frame.type = "confirm_select" -> "confirm"
                            [] OTHER -> Answers(frame.by, "answered").mode
      <4>1. /\ frame.type \in Requests /\ Sends(<<Frame(frame.type, frame.channel)>>)
            /\ broker' = [Answers(frame.by, "answered") EXCEPT !.mode = mode0]
        BY <3>1 DEF BrokerAccepts
      <4>2. Answers(frame.by, "answered").mode \in {"normal", "tx", "confirm"}
        BY <1>5, <4>1 DEF BrokerType
      <4>3. mode0 \in {"normal", "tx", "confirm"}
        BY <4>2
      <4> HIDE DEF mode0
      <4>4. /\ broker' \in BrokerType /\ broker'.channel = broker.channel
            /\ broker'.closing = broker.closing /\ ~ broker'.gone
        BY <1>5, <4>1, <4>3 DEF BrokerType
      <4>5. Frame(frame.type, frame.channel) \in InFrame
            /\ Frame(frame.type, frame.channel).type = frame.type
        BY <1>2, <1>4, <4>1
      <4> QED BY <4>1, <4>4, <4>5
    <3>2. CASE BrokerRefuses(frame)
      <4>1. frame.type \in Requests
        BY <3>2 DEF BrokerRefuses
      <4>2. PICK code \in Codes :
               /\ Sends(<<[type |-> "Channel.Close", channel |-> frame.channel,
                           code |-> code]>>)
               /\ broker' = [Answers(frame.by, code) EXCEPT !.closing = TRUE]
        BY <3>2 DEF BrokerRefuses
      <4> DEFINE reply == [type |-> "Channel.Close", channel |-> frame.channel, code |-> code]
      <4>3. /\ broker' \in BrokerType /\ broker'.channel = broker.channel /\ ~ broker'.gone
        BY <1>5, <4>1, <4>2 DEF BrokerType
      <4>4. reply \in InFrame /\ reply.type = "Channel.Close"
        BY <1>2 DEF InFrame
      <4>5. Sends(<<reply>>)
        BY <4>2
      <4> HIDE DEF reply
      <4> QED BY <1>6, <4>3, <4>4, <4>5
    <3> QED BY <2>5, <3>1, <3>2
  <2> QED BY <2>1, <2>2, <2>3, <2>4, <2>5 DEF BrokerReadsOpenChannel
<1>7. CASE ~ (broker.channel # 0 /\ frame.channel = broker.channel)
  <2>1. BrokerReadsOther(frame)
    BY <1>7
  <2>2. CASE frame.type = "Connection.Close"
    <3>1. /\ Sends(<<Frame("Connection.CloseOk", 0)>>)
          /\ broker' = [broker EXCEPT !.gone = TRUE]
      BY <2>1, <2>2 DEF BrokerReadsOther
    <3>2. broker' \in BrokerType /\ broker'.gone
      BY <1>1, <3>1 DEF BrokerType
    <3> QED BY <1>4, <2>2, <3>1, <3>2, NumbersAre
  <2>3. CASE frame.type = "Channel.Open" /\ broker.channel = 0
    <3>1. /\ Sends(<<Frame("Channel.OpenOk", frame.channel)>>)
          /\ broker' = [broker EXCEPT !.channel = frame.channel, !.mode = "normal"]
      BY <2>1, <2>3 DEF BrokerReadsOther
    <3>2. /\ broker' \in BrokerType /\ broker'.channel = frame.channel
          /\ broker'.closing = broker.closing /\ ~ broker'.gone
      BY <1>1, <1>2, <3>1 DEF BrokerType
    <3> QED BY <1>2, <1>4, <2>3, <3>1, <3>2
  <2>4. CASE frame.type = "Channel.CloseOk"
    <3>1. broker' = broker /\ inbox' = inbox
      BY <2>1, <2>4 DEF BrokerReadsOther
    <3> QED BY <1>1, <3>1
  <2>5. CASE /\ frame.type \notin {"Connection.Close", "Channel.CloseOk"}
             /\ ~ (frame.type = "Channel.Open" /\ broker.channel = 0)
    <3> DEFINE reply == [type |-> "Connection.Close", channel |-> 0, code |-> "ChannelError"]
    <3>1. Sends(<<reply>>) /\ broker' = [broker EXCEPT !.gone = TRUE]
      BY <2>1, <2>5 DEF BrokerReadsOther
    <3>2. broker' \in BrokerType /\ broker'.gone
      BY <1>1, <3>1 DEF BrokerType
    <3>3. reply \in InFrame /\ reply.type = "Connection.Close"
      BY NumbersAre DEF InFrame
    <3> HIDE DEF reply
    <3> QED BY <3>1, <3>2, <3>3
  <2> QED BY <2>2, <2>3, <2>4, <2>5
<1> QED BY <1>6, <1>7

\* The broker takes a frame and may send one that is no Channel.OpenOk.
LEMMA OpensOnceRead ==
    ASSUME OpensOnce, WireOK, outbox # <<>>, outbox' = Tail(outbox), channel' = channel,
           \/ inbox' = inbox
           \/ \E reply \in InFrame :
                 reply.type # "Channel.OpenOk" /\ inbox' = inbox \o <<reply>>
    PROVE  OpensOnce'
<1>1. /\ \A i \in DOMAIN outbox' :
            i + 1 \in DOMAIN outbox /\ outbox'[i] = outbox[i + 1] /\ i \in Nat
      /\ \A type : Carries(outbox', type) => Carries(outbox, type)
  <2>1. outbox \in Seq(OutFrame)
    BY DEF WireOK
  <2> QED BY <2>1, TailIs, TailCarries
<1>2. /\ \A i \in DOMAIN inbox' : inbox'[i].type = "Channel.OpenOk" =>
            i \in DOMAIN inbox /\ inbox'[i] = inbox[i]
      /\ Carries(inbox', "Channel.OpenOk") => Carries(inbox, "Channel.OpenOk")
  <2>1. CASE inbox' = inbox
    BY <2>1
  <2>2. ASSUME NEW reply \in InFrame, reply.type # "Channel.OpenOk",
               inbox' = inbox \o <<reply>>
        PROVE  \A i \in DOMAIN inbox' : inbox'[i].type = "Channel.OpenOk" =>
                   i \in DOMAIN inbox /\ inbox'[i] = inbox[i]
    <3>1. inbox \in Seq(InFrame)
      BY DEF WireOK
    <3>2. /\ \A i \in DOMAIN inbox' : i = Len(inbox) + 1 \/ i \in DOMAIN inbox
          /\ inbox'[Len(inbox) + 1] = reply
          /\ \A i \in DOMAIN inbox : inbox'[i] = inbox[i]
      BY <2>2, <3>1, OneMoreIs
    <3> QED BY <2>2, <3>2
  <2>3. \A i \in DOMAIN inbox' : inbox'[i].type = "Channel.OpenOk" =>
            i \in DOMAIN inbox /\ inbox'[i] = inbox[i]
    BY <2>1, <2>2
  <2> QED BY <2>3 DEF Carries
<1>3. ASSUME NEW i \in DOMAIN outbox', NEW j \in DOMAIN outbox',
             outbox'[i].type = "Channel.Open"
      PROVE  /\ outbox'[j].type = "Channel.Open" => i = j
             /\ outbox'[i].channel = channel
             /\ i < j => outbox'[j].type # "Channel.CloseOk"
  <2>1. i \in Nat /\ j \in Nat /\ (i + 1 = j + 1 => i = j) /\ (i < j => i + 1 < j + 1)
    BY <1>1
  <2> QED BY <1>1, <1>3, <2>1 DEF OpensOnce
<1>4. \A i, j \in DOMAIN inbox' :
         inbox'[i].type = "Channel.OpenOk" /\ inbox'[j].type = "Channel.OpenOk" => i = j
  BY <1>2 DEF OpensOnce
<1> QED BY <1>1, <1>2, <1>3, <1>4 DEF OpensOnce

\* The broker opens the channel, and says so.
LEMMA OpensOnceOpened ==
    ASSUME OpensOnce, WireOK, outbox # <<>>, outbox' = Tail(outbox), channel' = channel,
           Head(outbox).type = "Channel.Open",
           NEW reply \in InFrame, inbox' = inbox \o <<reply>>
    PROVE  /\ OpensOnce' /\ Head(outbox).channel = channel
           /\ ~ Carries(outbox', "Channel.CloseOk")
<1>1. inbox \in Seq(InFrame) /\ outbox \in Seq(OutFrame)
  BY DEF WireOK
<1>2. /\ \A i \in DOMAIN outbox' :
            i + 1 \in DOMAIN outbox /\ outbox'[i] = outbox[i + 1] /\ i \in Nat
      /\ 1 \in DOMAIN outbox /\ outbox[1].type = "Channel.Open"
      /\ Head(outbox) = outbox[1]
  BY <1>1, TailIs
<1>3. \A i \in DOMAIN outbox' : 1 < i + 1 /\ 1 # i + 1
  <2>1. \A i \in DOMAIN outbox' : i > 0 /\ i \in Nat
    BY <1>1
  <2> QED BY <2>1
<1>4. ~ Carries(outbox', "Channel.Open") /\ ~ Carries(outbox', "Channel.CloseOk")
  BY <1>2, <1>3 DEF OpensOnce, Carries
<1>5. ~ Carries(inbox, "Channel.OpenOk")
  BY <1>2 DEF OpensOnce, Carries
<1>6. \A i, j \in DOMAIN inbox' :
         inbox'[i].type = "Channel.OpenOk" /\ inbox'[j].type = "Channel.OpenOk" => i = j
  <2>1. /\ \A i \in DOMAIN inbox' : i = Len(inbox) + 1 \/ i \in DOMAIN inbox
        /\ \A i \in DOMAIN inbox : inbox'[i] = inbox[i]
    BY <1>1, OneMoreIs
  <2>2. \A i \in DOMAIN inbox' : inbox'[i].type = "Channel.OpenOk" => i = Len(inbox) + 1
    BY <1>5, <2>1 DEF Carries
  <2> QED BY <2>2
<1> QED BY <1>2, <1>4, <1>6 DEF OpensOnce, Carries

LEMMA BrokerReadsKeeps ==
    ASSUME IInv, BrokerReads
    PROVE  IInv'
<1>1. /\ manager \in Managers /\ FlowOK /\ SessionOK /\ WireOK
      /\ ClosingIsFinal /\ NothingFollowsClose /\ ChannelInStep
  BY InvariantIs
<1> DEFINE frame == Head(outbox)
<1>2. /\ outbox # <<>> /\ outbox' = Tail(outbox)
      /\ IF broker.gone THEN UNCHANGED <<broker, inbox>>
         ELSE IF broker.channel # 0 /\ frame.channel = broker.channel
         THEN BrokerReadsOpenChannel(frame)
         ELSE BrokerReadsOther(frame)
      /\ UNCHANGED <<manager, flow, session>>
  BY DEF BrokerReads
<1>3. /\ outbox \in Seq(OutFrame) /\ outbox' \in Seq(OutFrame) /\ frame \in OutFrame
      /\ \A type : Carries(outbox', type) => Carries(outbox, type)
      /\ Carries(outbox, frame.type)
  <2>1. outbox \in Seq(OutFrame)
    BY <1>1 DEF WireOK
  <2> QED BY <1>2, <2>1, TailElements, TailCarries
<1>4. UNCHANGED <<manager, lock, closeLock, task, channel, channelOpen, lastError, mode,
                  channel0, transport>>
  BY <1>2 DEF flow, session
<1>5. FlowOK' /\ SessionOK'
  BY <1>1, <1>2, <1>4, FlowSame DEF SessionOK
<1>6. ClosingIsFinal' /\ NothingFollowsClose'
  BY <1>1, <1>2, <1>3, <1>4, FinalTaken
<1>7. manager'.state \notin Passing
  BY <1>1, <1>4 DEF ChannelInStep
<1>8. CASE broker.gone
  <2>1. UNCHANGED <<broker, inbox>>
    BY <1>2, <1>8
  <2>2. WireOK'
    BY <1>1, <1>3, <2>1 DEF WireOK
  <2>3. ChannelInStep'
    BY <1>1, <1>3, <1>4, <1>7, <1>8, <2>1 DEF ChannelInStep, Live, Carries
  <2> QED BY <1>1, <1>4, <1>5, <1>6, <2>2, <2>3, InvariantNext
<1>9. CASE ~ broker.gone
  <2>1. IF broker.channel # 0 /\ frame.channel = broker.channel
        THEN BrokerReadsOpenChannel(frame) ELSE BrokerReadsOther(frame)
    BY <1>2, <1>9
  <2> HIDE DEF frame
  <2>2. broker' \in BrokerType /\ (inbox' = inbox \/ \E reply \in InFrame : Sends(<<reply>>))
    BY <1>1, <1>3, <1>9, <2>1, BrokerReadsIs
  <2>3. inbox' \in Seq(InFrame)
    <3>1. inbox \in Seq(InFrame)
      BY <1>1 DEF WireOK
    <3> QED BY <1>1, <2>2, <3>1, SendsIs
  <2>4. WireOK'
    BY <1>3, <2>2, <2>3 DEF WireOK, BrokerType
  <2>5. ASSUME Live PROVE ChannelInStep'
    <3>1. ~ Carries(outbox', "Connection.Close") /\ frame.type # "Connection.Close"
      BY <1>1, <1>3, <2>5 DEF ChannelInStep
    <3>2. transport = "open" /\ ChannelFollows
      BY <1>1, <1>9, <2>5 DEF ChannelInStep, Live
    <3>3. ~ Carries(inbox, "Disconnected")
      BY <1>1, <2>5 DEF ChannelInStep
    \* What is left to show when the broker sends reply.
    <3>4. ASSUME NEW reply \in InFrame, Sends(<<reply>>)
          PROVE  /\ inbox' = inbox \o <<reply>> /\ Carries(inbox', reply.type)
                 /\ \A type : Carries(inbox', type) => Carries(inbox, type) \/ reply.type = type
                 /\ \A type : Carries(inbox, type) => Carries(inbox', type)
      BY <1>1, <3>2, <3>4, SendsIs
    <3>5. ASSUME ~ Carries(inbox', "Disconnected"),
                 ~ broker'.gone => ChannelFollows',
                 broker'.gone => Carries(inbox', "Connection.Close")
          PROVE  ChannelInStep'
      BY <1>7, <3>1, <3>5 DEF ChannelInStep
    \* A frame that is no Channel.OpenOk, or none.
    <3>6. ASSUME \/ inbox' = inbox
                 \/ \E reply \in InFrame :
                       Sends(<<reply>>) /\ reply.type \notin {"Channel.OpenOk", "Disconnected"}
          PROVE  /\ ~ Carries(inbox', "Disconnected")
                 /\ OpensOnce' /\ (Reopening' => Reopening) /\ (TakenForOpen' => TakenForOpen)
                 /\ CloseComing => CloseComing'
      <4>1. OpensOnce'
        <5>1. \/ inbox' = inbox
              \/ \E reply \in InFrame :
                    reply.type # "Channel.OpenOk" /\ inbox' = inbox \o <<reply>>
          BY <3>4, <3>6
        <5> QED BY <1>1, <1>2, <1>4, <3>2, <5>1, OpensOnceRead DEF ChannelFollows
      <4>2. /\ Carries(inbox', "Channel.OpenOk") => Carries(inbox, "Channel.OpenOk")
            /\ Carries(inbox', "Disconnected") => Carries(inbox, "Disconnected")
            /\ \A type : Carries(inbox, type) => Carries(inbox', type)
        BY <3>4, <3>6
      <4>3. Carries(outbox', "Channel.Open") => Carries(outbox, "Channel.Open")
        BY <1>3
      <4> QED BY <1>4, <3>3, <4>1, <4>2, <4>3 DEF Reopening, TakenForOpen, CloseComing
    <3>7. CASE /\ broker'.channel = broker.channel /\ broker'.closing = broker.closing
               /\ ~ broker'.gone
               /\ \/ inbox' = inbox
                  \/ \E reply \in InFrame : Sends(<<reply>>) /\ reply.type \in Requests
      <4>1. \/ inbox' = inbox
            \/ \E reply \in InFrame :
                  Sends(<<reply>>) /\ reply.type \notin {"Channel.OpenOk", "Disconnected"}
        BY <3>7, FrameNames
      <4>2. /\ ~ Carries(inbox', "Disconnected")
            /\ OpensOnce' /\ (Reopening' => Reopening) /\ (TakenForOpen' => TakenForOpen)
            /\ CloseComing => CloseComing'
        BY <3>6, <4>1
      <4>3. ChannelFollows'
        BY <1>3, <1>4, <3>2, <3>7, <4>2 DEF ChannelFollows
      <4> QED BY <3>5, <3>7, <4>2, <4>3
    <3>8. CASE /\ broker'.channel = broker.channel /\ broker.channel # 0 /\ ~ broker'.gone
               /\ \E reply \in InFrame : Sends(<<reply>>) /\ reply.type = "Channel.Close"
      <4>1. /\ ~ Carries(inbox', "Disconnected")
            /\ OpensOnce' /\ (Reopening' => Reopening) /\ (TakenForOpen' => TakenForOpen)
        BY <3>6, <3>8
      <4>2. CloseComing'
        BY <3>4, <3>8 DEF CloseComing
      <4>3. ChannelFollows'
        BY <1>3, <1>4, <3>2, <3>8, <4>1, <4>2 DEF ChannelFollows
      <4> QED BY <3>5, <3>8, <4>1, <4>3
    <3>9. CASE /\ broker'.channel = 0 /\ ~ broker'.closing /\ ~ broker'.gone
               /\ \E reply \in InFrame : Sends(<<reply>>) /\ reply.type = "Channel.CloseOk"
      <4>1. /\ ~ Carries(inbox', "Disconnected")
            /\ OpensOnce' /\ (Reopening' => Reopening) /\ (TakenForOpen' => TakenForOpen)
        BY <3>6, <3>9
      <4>2. CloseComing'
        BY <3>4, <3>9 DEF CloseComing
      <4>3. ChannelFollows'
        BY <1>3, <1>4, <3>2, <3>9, <4>1, <4>2 DEF ChannelFollows
      <4> QED BY <3>5, <3>9, <4>1, <4>3
    <3>10. CASE /\ broker'.channel = 0 /\ ~ broker'.closing /\ ~ broker'.gone
                /\ inbox' = inbox /\ frame.type = "Channel.CloseOk"
      <4>1. /\ ~ Carries(inbox', "Disconnected")
            /\ OpensOnce' /\ (Reopening' => Reopening) /\ (TakenForOpen' => TakenForOpen)
        BY <3>6, <3>10
      <4>2. ~ TakenForOpen
        BY <1>3, <3>2, <3>10 DEF ChannelFollows
      <4>3. ChannelFollows'
        BY <1>3, <1>4, <3>2, <3>10, <4>1, <4>2 DEF ChannelFollows
      <4> QED BY <3>5, <3>10, <4>1, <4>3
    <3>11. CASE /\ frame.type = "Channel.Open" /\ broker.channel = 0
                /\ broker'.channel = frame.channel /\ broker'.closing = broker.closing
                /\ ~ broker'.gone
                /\ \E reply \in InFrame : Sends(<<reply>>) /\ reply.type = "Channel.OpenOk"
      <4>1. PICK reply \in InFrame : Sends(<<reply>>) /\ reply.type = "Channel.OpenOk"
        BY <3>11
      <4>2. inbox' = inbox \o <<reply>> /\ ~ Carries(inbox', "Disconnected")
        BY <3>3, <3>4, <4>1
      <4>3. /\ OpensOnce' /\ frame.channel = channel
            /\ ~ Carries(outbox', "Channel.CloseOk")
        BY <1>1, <1>2, <1>4, <3>2, <3>11, <4>2, OpensOnceOpened DEF ChannelFollows, frame
      <4>4. manager.state = "CHANNEL_OPEN_SENT"
        BY <1>3, <3>2, <3>11 DEF ChannelFollows, Reopening
      <4>5. ~ broker.closing
        BY <3>2, <3>11 DEF ChannelFollows
      <4>6. ChannelFollows'
        BY <1>4, <3>2, <3>11, <4>3, <4>4, <4>5 DEF ChannelFollows
      <4> QED BY <3>5, <3>11, <4>2, <4>6
    <3>12. CASE /\ broker'.gone
                /\ frame.type = "Connection.Close" \/
                       \E reply \in InFrame :
                           Sends(<<reply>>) /\ reply.type = "Connection.Close"
      <4>1. ~ Carries(inbox', "Disconnected") /\ Carries(inbox', "Connection.Close")
        BY <3>1, <3>3, <3>4, <3>12
      <4> QED BY <3>5, <3>12, <4>1
    <3> QED BY <1>1, <1>3, <1>9, <2>1, <3>7, <3>8, <3>9, <3>10, <3>11, <3>12, BrokerReadsIs
  <2>6. ChannelInStep'
    BY <1>4, <1>7, <2>5, InStepDead DEF Live
  <2> QED BY <1>1, <1>4, <1>5, <1>6, <2>4, <2>6, InvariantNext
<1> QED BY <1>8, <1>9

LEMMA BrokerClosesChannelKeeps ==
    ASSUME IInv, BrokerClosesChannel
    PROVE  IInv'
<1>1. /\ manager \in Managers /\ FlowOK /\ SessionOK /\ WireOK
      /\ ClosingIsFinal /\ NothingFollowsClose /\ ChannelInStep
  BY InvariantIs
<1>2. /\ broker.unsolicited < MaxUnsolicited
      /\ broker.channel # 0 /\ ~ broker.closing /\ ~ broker.gone /\ transport = "open"
      /\ broker' = [broker EXCEPT !.closing = TRUE, !.unsolicited = @ + 1]
      /\ UNCHANGED <<manager, flow, channel, channelOpen, lastError, mode, channel0,
                     transport, outbox>>
  BY DEF BrokerClosesChannel, session
<1>3. PICK code \in Codes :
          Sends(<<[type |-> "Channel.Close", channel |-> broker.channel, code |-> code]>>)
  BY DEF BrokerClosesChannel
<1> DEFINE reply == [type |-> "Channel.Close", channel |-> broker.channel, code |-> code]
<1>4. broker \in BrokerType
  BY <1>1 DEF WireOK, BrokerType
<1>5. reply \in InFrame /\ reply.type = "Channel.Close" /\ Sends(<<reply>>)
  BY <1>3, <1>4 DEF InFrame, BrokerType
<1>6. broker.unsolicited + 1 \in 0..MaxUnsolicited
  BY <1>2, <1>4, ClientRpcAssumption DEF BrokerType
<1>7. /\ broker' \in BrokerType /\ broker'.channel = broker.channel /\ ~ broker'.gone
  BY <1>2, <1>4, <1>6 DEF BrokerType
<1> HIDE DEF reply
<1>8. /\ inbox' \in Seq(InFrame) /\ inbox' = inbox \o <<reply>>
      /\ \A type : Carries(inbox', type) => Carries(inbox, type) \/ reply.type = type
      /\ Carries(inbox', "Channel.Close")
  BY <1>1, <1>2, <1>5, SendsIs
<1>9. FlowOK' /\ NobodyComes
  BY <1>1, <1>2, FlowSame
<1>10. ClosingIsFinal' /\ NothingFollowsClose'
  BY <1>1, <1>2, <1>9, FinalKept
<1>11. ASSUME ChannelFollows PROVE ChannelFollows'
  <2>1. OpensOnce'
    <3>1. inbox \in Seq(InFrame)
      BY <1>1 DEF WireOK
    <3>2. /\ \A i \in DOMAIN inbox' : i = Len(inbox) + 1 \/ i \in DOMAIN inbox
          /\ inbox'[Len(inbox) + 1] = reply
          /\ \A i \in DOMAIN inbox : inbox'[i] = inbox[i]
      BY <1>5, <1>8, <3>1, OneMoreIs
    <3>3. /\ \A i \in DOMAIN inbox' : inbox'[i].type = "Channel.OpenOk" =>
                i \in DOMAIN inbox /\ inbox'[i] = inbox[i]
          /\ Carries(inbox', "Channel.OpenOk") => Carries(inbox, "Channel.OpenOk")
      BY <1>5, <1>8, <3>2
    <3> QED BY <1>2, <1>11, <3>3 DEF ChannelFollows, OpensOnce, Carries
  <2>2. (Reopening' => Reopening) /\ (TakenForOpen' => TakenForOpen) /\ CloseComing'
    BY <1>2, <1>5, <1>8 DEF Reopening, TakenForOpen, CloseComing, Carries
  <2> QED BY <1>2, <1>7, <1>11, <2>1, <2>2 DEF ChannelFollows, Carries
<1>12. ChannelInStep'
  BY <1>1, <1>2, <1>5, <1>7, <1>8, <1>11 DEF ChannelInStep, Live, Carries
<1>13. SessionOK' /\ WireOK'
  BY <1>1, <1>2, <1>7, <1>8 DEF SessionOK, WireOK, BrokerType
<1> QED BY <1>1, <1>2, <1>9, <1>10, <1>12, <1>13, InvariantNext

LEMMA SocketLostKeeps ==
    ASSUME IInv, SocketLost
    PROVE  IInv'
<1>1. /\ manager \in Managers /\ FlowOK /\ SessionOK /\ WireOK
      /\ ClosingIsFinal /\ NothingFollowsClose /\ ChannelInStep
  BY InvariantIs
<1>2. /\ transport' = "lost" /\ outbox' = <<>>
      /\ UNCHANGED <<manager, flow, channel, channelOpen, lastError, mode, channel0, broker>>
  BY DEF SocketLost
<1>3. PICK n \in 0..Len(inbox) :
          inbox' = Append(SubSeq(inbox, 1, n), Frame("Disconnected", 0))
  BY DEF SocketLost
<1>4. inbox' \in Seq(InFrame)
  <2>1. inbox \in Seq(InFrame)
    BY <1>1 DEF WireOK
  <2>2. SubSeq(inbox, 1, n) \in Seq(InFrame)
    BY <2>1, PrefixElements
  <2>3. Frame("Disconnected", 0) \in InFrame
    BY NumbersAre DEF Frame, InFrame
  <2> HIDE DEF InFrame
  <2> QED BY <1>3, <2>2, <2>3
<1>5. ~ Carries(outbox', "Connection.Close")
  BY <1>2 DEF Carries
<1>6. ClosingIsFinal' /\ NothingFollowsClose'
  BY <1>2, <1>5 DEF ClosingIsFinal, NothingFollowsClose
<1>7. ChannelInStep'
  BY <1>1, <1>2, InStepDead DEF ChannelInStep
<1>8. FlowOK' /\ SessionOK'
  BY <1>1, <1>2, FlowSame DEF SessionOK
<1>9. WireOK'
  <2>1. outbox' \in Seq(OutFrame)
    BY <1>2
  <2> QED BY <1>1, <1>2, <1>4, <2>1 DEF WireOK
<1> QED BY <1>1, <1>2, <1>6, <1>7, <1>8, <1>9, InvariantNext

---------------------------------------------------------------------------
(* The theorems *)

LEMMA InitInvariant == Init => IInv
<1> SUFFICES ASSUME Init PROVE IInv
  OBVIOUS
<1>1. PICK w \in Workloads :
          /\ task = [t \in Task |-> [pc |-> "idle", call |-> None, result |-> None,
                                     left |-> w.calls[t]]]
          /\ broker = [channel |-> 1, closing |-> FALSE, mode |-> "normal", gone |-> FALSE,
                       unsolicited |-> 0, refusals |-> w.refusals, answers |-> {}]
  BY DEF Init
<1>2. /\ w.calls \in [Task -> 0..MaxCalls] /\ w.refusals \in SUBSET Requests
      /\ 0 \in 0..MaxUnsolicited
  BY ClientRpcAssumption
<1>3. /\ task \in [Task -> Records] /\ \A t \in Task : task[t].pc = "idle"
  BY <1>1, <1>2 DEF Records, Pcs
<1>4. broker \in BrokerType
  BY <1>1, <1>2, NumbersAre DEF BrokerType
<1>5. /\ lock = <<>> /\ closeLock = <<>> /\ channel = 1 /\ channelOpen = TRUE
      /\ lastError = None /\ mode = [transactional |-> FALSE, confirms |-> FALSE]
      /\ channel0 = "open" /\ transport = "open" /\ inbox = <<>> /\ outbox = <<>>
      /\ manager = [SM!NewManager EXCEPT !.state = "CHANNEL_OPENOK_RECEIVED"]
  BY DEF Init
<1>6. manager \in Managers /\ manager.state = "CHANNEL_OPENOK_RECEIVED"
  <2>1. manager = [state |-> "CHANNEL_OPENOK_RECEIVED", exception |-> None, waits |-> {},
                   ready |-> <<>>, fired |-> {}]
    BY <1>5 DEF SM!NewManager
  <2>2. {} \in Events /\ <<>> \in Seq(Events)
    BY DEF Events
  <2> QED BY <2>1, <2>2, StatesAre, ManagersAre
<1>7. CallsOK /\ CloseIsExclusive
  BY <1>3, <1>5 DEF CallsOK, CloseIsExclusive, InClose
<1>8. WireOK
  BY <1>4, <1>5 DEF WireOK, BrokerType
<1>9. \A type : ~ Carries(inbox, type) /\ ~ Carries(outbox, type)
  BY <1>5 DEF Carries
<1>10. ClosingIsFinal /\ NothingFollowsClose
  BY <1>5, <1>9 DEF ClosingIsFinal, NothingFollowsClose
<1>11. ChannelInStep
  <2>1. OpensOnce
    BY <1>5, <1>9 DEF OpensOnce
  <2>2. broker.channel = channel /\ ~ broker.closing /\ ~ broker.gone
    BY <1>1, <1>5
  <2> QED BY <1>5, <1>6, <1>9, <2>1, <2>2
          DEF ChannelInStep, ChannelFollows, Reopening, TakenForOpen, Passing
<1>12. TypeOK
  BY <1>3, <1>5, <1>6, NumbersAre DEF TypeOK, Managers, Records, Pcs, Numbers
<1> QED BY <1>7, <1>8, <1>10, <1>11, <1>12 DEF IInv

LEMMA NextInvariant == IInv /\ Next => IInv'
<1> SUFFICES ASSUME IInv, Next PROVE IInv'
  OBVIOUS
<1>1. ASSUME NEW t \in Task, Call(t) \/ CallFails(t) \/ Close(t) \/ Proceeds(t)
      PROVE  IInv'
  <2>1. CASE Call(t) \/ CallFails(t) \/ Close(t)
    BY <2>1, CallKeeps, CallFailsKeeps, CloseKeeps
  <2>2. CASE Acquire(t) \/ CloseLocked(t) \/ RaiseLastError(t)
    BY <2>2, AcquireKeeps, CloseLockedKeeps, RaiseLastErrorKeeps
  <2>3. CASE Poll(t)
    BY <2>3, PollAnsweredKeeps, PollChannelClosedKeeps, PollRaisesKeeps DEF Poll
  <2>4. CASE CloseEnds(t) \/ CloseFails(t)
    BY <2>4, CloseEndsKeeps, CloseFailsKeeps
  <2> QED BY <1>1, <2>1, <2>2, <2>3, <2>4 DEF Proceeds
<1>2. CASE RunReady \/ Receive
  BY <1>2, RunReadyKeeps, ReceiveKeeps
<1>3. CASE BrokerReads \/ BrokerClosesChannel \/ SocketLost
  BY <1>3, BrokerReadsKeeps, BrokerClosesChannelKeeps, SocketLostKeeps
<1> QED BY <1>1, <1>2, <1>3 DEF Next

LEMMA StutterInvariant == IInv /\ UNCHANGED vars => IInv'
<1> SUFFICES ASSUME IInv, UNCHANGED vars PROVE IInv'
  OBVIOUS
<1>1. /\ manager \in Managers /\ FlowOK /\ SessionOK /\ WireOK
      /\ ClosingIsFinal /\ NothingFollowsClose /\ ChannelInStep
  BY InvariantIs
<1>2. UNCHANGED <<manager, flow, channel, channelOpen, lastError, mode, channel0, transport,
                  inbox, outbox, broker>>
  BY DEF vars, session
<1>3. FlowOK' /\ NobodyComes
  BY <1>1, <1>2, FlowSame
<1>4. ClosingIsFinal' /\ NothingFollowsClose'
  BY <1>1, <1>2, <1>3, FinalKept
<1>5. ChannelInStep'
  BY <1>1, <1>2, InStepKept DEF ChannelInStep
<1>6. SessionOK' /\ WireOK'
  BY <1>1, <1>2 DEF SessionOK, WireOK
<1> QED BY <1>1, <1>2, <1>3, <1>4, <1>5, <1>6, InvariantNext

\* The inductive invariant: every reachable state of a client, whatever its tasks
\* call, the broker refuses and the network loses.  (client.py)
THEOREM RpcInvariance == Spec => []IInv
<1>1. Init => IInv
  BY InitInvariant
<1>2. IInv /\ [Next]_vars => IInv'
  BY NextInvariant, StutterInvariant
<1> QED BY <1>1, <1>2, PTL DEF Spec

\* The client's own state has its type in every reachable state.  (client.py)
THEOREM RpcTypeCorrect == Spec => []TypeOK
<1>1. IInv => TypeOK
  BY DEF IInv
<1> QED BY <1>1, RpcInvariance, PTL

\* Nothing is written after Connection.Close, for any number of tasks queued behind
\* close(), and whatever they ask for.  (_send_rpc, close, _close)
THEOREM NothingIsWrittenAfterClose == Spec => []NothingFollowsClose
<1>1. IInv => NothingFollowsClose
  BY DEF IInv
<1> QED BY <1>1, RpcInvariance, PTL

\* With nothing on its way that closes the channel, what the client takes for its
\* open channel is the broker's, for any channel-max and however often the channel
\* was closed and opened again.  (_on_frame, _open_channel)
THEOREM ChannelsAgree == Spec => []ChannelAgrees
<1>1. IInv => ChannelAgrees
  BY DEF IInv, ChannelInStep, ChannelFollows, Live, ChannelAgrees, TakenForOpen, CloseComing,
         Carries
<1> QED BY <1>1, RpcInvariance, PTL

---------------------------------------------------------------------------
(* The wires *)

Lost == Frame("Disconnected", 0)

\* Nothing is on its way to the broker; to the client these frames are, and then the
\* loss of the socket when that is lost.
Comes(frames) ==
    /\ outbox = <<>>
    /\ inbox = IF transport = "open" THEN frames ELSE Append(frames, Lost)

\* Only these frames are on their way, to the broker.
Leaves(frames) == transport = "open" /\ inbox = <<>> /\ outbox = frames

BrokerHas(number, closing) ==
    transport = "open" =>
        ~ broker.gone /\ broker.channel = number /\ broker.closing = closing

---------------------------------------------------------------------------
(* The phases of an exchange *)

OnlyOne == \A t, u \in Task : task[t].left > 0 /\ task[u].left > 0 => t = u

Calm(t) == task[t].pc \in {"idle", "queued", "closeQueued"}

\* The broker has answered the call of t, or refused it with a code.
Said(t, outcome) == <<<<t, task[t].left>>, outcome>> \in broker.answers
Failing(t) == OnlyOne /\ lastError \in Codes /\ Said(t, lastError)

NoEvents == manager.waits = {} /\ SM!Pending(manager) = {}

RestStates == OkStates \cup {"CHANNEL_OPENOK_RECEIVED"}

\* Nobody has anything under way.
Resting ==
    /\ \A u \in Task : Calm(u)
    /\ manager.state \in RestStates /\ NoEvents
    /\ channelOpen /\ lastError = None
    /\ Comes(<<>>) /\ BrokerHas(channel, FALSE)

RequestLeaves(t) == Leaves(<<CallFrame(t, task[t].call)>>) /\ BrokerHas(channel, FALSE)

AnswerComes(t) ==
    /\ task[t].call # "close" /\ Said(t, "answered")
    /\ Comes(<<Frame(task[t].call, channel)>>) /\ BrokerHas(channel, FALSE)

CloseOkComes(t) ==
    /\ task[t].call = "close"
    /\ Comes(<<Frame("Channel.CloseOk", channel)>>) /\ BrokerHas(0, FALSE)

ChannelClose(code) == [type |-> "Channel.Close", channel |-> channel, code |-> code]

RefusalComes(t) ==
    /\ task[t].call # "close" /\ CanBeRefused(task[t].call) /\ OnlyOne
    /\ \E code \in Codes : Comes(<<ChannelClose(code)>>) /\ Said(t, code)
    /\ BrokerHas(channel, TRUE)

\* The request of t is under way, or its answer is.
Asking(t) ==
    /\ manager.state = Sent(task[t].call) /\ SM!Pending(manager) = {}
    /\ channelOpen /\ lastError = None
    /\ \/ RequestLeaves(t) \/ AnswerComes(t) \/ CloseOkComes(t) \/ RefusalComes(t)
       \/ transport = "lost" /\ Comes(<<>>)

\* The answer has come, and the loop has not resumed t yet.
Answered(t) ==
    LET m == task[t].call IN
    /\ manager.state = Ok(m) /\ SM!Pending(manager) = {<<Ok(m), t>>}
    /\ Comes(<<>>) /\ lastError = None
    /\ IF m = "close" THEN ~ channelOpen /\ BrokerHas(0, FALSE)
       ELSE channelOpen /\ BrokerHas(channel, FALSE) /\ Said(t, "answered")

\* The channel was closed, and t does not know yet.
Refused(t) ==
    /\ Failing(t) /\ task[t].call # "close"
    /\ manager.state = "CHANNEL_CLOSEOK_SENT" /\ ~ channelOpen
    /\ SM!Pending(manager) = {<<"CHANNEL_CLOSE_RECEIVED", t>>}
    /\ \/ Leaves(<<Frame("Channel.CloseOk", channel)>>) /\ BrokerHas(channel, TRUE)
       \/ Comes(<<>>) /\ BrokerHas(0, FALSE)

Waiting(t) ==
    /\ task[t].pc = "waiting"
    /\ manager.waits = {Ok(task[t].call), "CHANNEL_CLOSE_RECEIVED"} \X {t}
    /\ Asking(t) \/ Answered(t) \/ Refused(t)

OpenLeaves ==
    \/ \E old \in 1..MaxChannels :
          /\ Leaves(<<Frame("Channel.CloseOk", old), Frame("Channel.Open", channel)>>)
          /\ BrokerHas(old, TRUE)
    \/ Leaves(<<Frame("Channel.Open", channel)>>) /\ BrokerHas(0, FALSE)

OpenOkComes == Comes(<<Frame("Channel.OpenOk", channel)>>) /\ BrokerHas(channel, FALSE)

\* t opens another channel.
Reopens(t) ==
    /\ task[t].pc = "opening" /\ Failing(t)
    /\ manager.state = "CHANNEL_OPEN_SENT" /\ NoEvents /\ ~ channelOpen
    /\ OpenLeaves \/ OpenOkComes \/ (transport = "lost" /\ Comes(<<>>))

\* The channel is open, and t is about to raise the error.
Raises(t) ==
    /\ task[t].pc = "raising" /\ Failing(t)
    /\ manager.state = "CHANNEL_OPENOK_RECEIVED" /\ NoEvents /\ channelOpen
    /\ Comes(<<>>) /\ BrokerHas(channel, FALSE)

Busy(t) ==
    /\ \A u \in Task : u # t => Calm(u)
    /\ Waiting(t) \/ Reopens(t) \/ Raises(t)

Working ==
    /\ channel0 = "open" /\ transport \in {"open", "lost"}
    /\ manager.exception = None /\ channel # 0
    /\ Resting \/ \E t \in Task : Busy(t)

\* t waits for the connection to close.
Closes(t) ==
    /\ \A u \in Task : u # t => Calm(u)
    /\ task[t].pc = "closing" /\ task[t].call = "close"
    /\ transport = "open" /\ manager.state = "CLOSING"
    /\ \/ channel0 = "closing" /\ Leaves(<<Frame("Connection.Close", 0)>>) /\ ~ broker.gone
       \/ channel0 = "closing" /\ Comes(<<Frame("Connection.CloseOk", 0)>>)
       \/ channel0 = "closed" /\ Comes(<<>>)

\* The events that a task may still see are of what the broker has said.
HeardRight(t) ==
    /\ task[t].pc = "waiting" /\ <<Ok(task[t].call), t>> \in SM!Pending(manager)
           => task[t].call = "close" \/ Said(t, "answered")
    /\ task[t].pc = "waiting" /\ <<"CHANNEL_CLOSE_RECEIVED", t>> \in SM!Pending(manager)
           => lastError # None
    /\ task[t].pc = "raising" => OnlyOne /\ (lastError = None \/ Said(t, lastError))

\* The connection was lost or closed, and the client knows.
Over ==
    /\ transport # "open" /\ outbox = <<>>
    /\ manager.state \in {"EXCEPTION", "CLOSING", "CLOSED"}
    /\ \A i \in DOMAIN inbox : inbox[i].type \in {"Connection.CloseOk", "Disconnected"}
    /\ \A t \in Task : HeardRight(t)

Phases == Working \/ (\E t \in Task : Closes(t)) \/ Over

RefusalsFitTasks ==
    MayBeRefused(broker.refusals) # {} =>
        OnlyOne /\ \A m \in MayBeRefused(broker.refusals) : CanBeRefused(m)

ClosedIsGone == \A t \in Task : Ended(t, "closed") => transport # "open"

OInv == RefusalsFitTasks /\ Phases /\ AnswersMatch /\ ClosedIsGone
---------------------------------------------------------------------------
(* What happens on the wires *)

\* The frame that comes is taken.
LEMMA TakesOne ==
    ASSUME NEW f, Comes(<<f>>), NEW type, Takes(type)
    PROVE  /\ type = f.type /\ Head(inbox) = f
           /\ transport' = transport /\ outbox' = outbox => Comes(<<>>)'
<1>1. /\ inbox = IF transport = "open" THEN <<f>> ELSE Append(<<f>>, Lost)
      /\ outbox = <<>> /\ Head(inbox).type = type /\ inbox' = Tail(inbox)
  BY DEF Comes, Takes
<1>2. Head(inbox) = f /\ Tail(inbox) = IF transport = "open" THEN <<>> ELSE <<Lost>>
  <2>1. Append(<<f>>, Lost) = <<f, Lost>>
    BY PairsAre
  <2>2. Head(<<f, Lost>>) = f /\ Tail(<<f, Lost>>) = <<Lost>>
    BY PairsAre
  <2> QED BY <1>1, <2>1, <2>2, ShortSequences
<1>3. Append(<<>>, Lost) = <<Lost>>
  BY ShortSequences
<1> QED BY <1>1, <1>2, <1>3 DEF Comes, Lost, Frame

\* Nothing comes but the loss of the socket.
LEMMA TakesLost ==
    ASSUME Comes(<<>>), NEW type, Takes(type)
    PROVE  type = "Disconnected" /\ transport # "open" /\ inbox' = <<>>
<1>1. /\ inbox = IF transport = "open" THEN <<>> ELSE Append(<<>>, Lost)
      /\ inbox # <<>> /\ Head(inbox).type = type /\ inbox' = Tail(inbox)
  BY DEF Comes, Takes
<1>2. transport # "open" /\ Head(inbox) = Lost /\ Tail(inbox) = <<>>
  BY <1>1, ShortSequences
<1> QED BY <1>1, <1>2 DEF Lost, Frame

LEMMA TakesNothing ==
    ASSUME NEW frames, Leaves(frames), NEW type
    PROVE  ~ Takes(type)
BY DEF Leaves, Takes

\* A frame is written where nothing is under way.
LEMMA WritesOne ==
    ASSUME Comes(<<>>), NEW f, Write(<<f>>), inbox' = inbox, transport' = transport
    PROVE  IF transport = "open" THEN Leaves(<<f>>)' ELSE Comes(<<>>)'
<1>1. <<>> \o <<f>> = <<f>>
  BY ShortSequences
<1> QED BY <1>1 DEF Comes, Leaves, Write

\* A second frame is written.
LEMMA WritesAnother ==
    ASSUME NEW f, Leaves(<<f>>), NEW g, Write(<<g>>), inbox' = inbox, transport' = transport
    PROVE  Leaves(<<f, g>>)'
<1>1. <<f>> \o <<g>> = <<f, g>>
  BY PairsAre
<1> QED BY <1>1 DEF Leaves, Write

\* The broker reads the one frame, and answers or not.
LEMMA ReadsOne ==
    ASSUME NEW f, Leaves(<<f>>), outbox' = Tail(outbox), transport' = transport
    PROVE  /\ Head(outbox) = f
           /\ inbox' = inbox => Comes(<<>>)'
           /\ \A reply : Sends(<<reply>>) => Comes(<<reply>>)'
<1>1. Head(<<f>>) = f /\ Tail(<<f>>) = <<>>
  BY ShortSequences
<1>2. \A reply : <<>> \o <<reply>> = <<reply>>
  BY ShortSequences
<1> QED BY <1>1, <1>2 DEF Leaves, Comes, Sends

\* The broker reads the first of two frames.
LEMMA ReadsFirst ==
    ASSUME NEW f, NEW g, Leaves(<<f, g>>), outbox' = Tail(outbox), transport' = transport
    PROVE  Head(outbox) = f /\ (inbox' = inbox => Leaves(<<g>>)')
<1>1. Head(<<f, g>>) = f /\ Tail(<<f, g>>) = <<g>>
  BY PairsAre
<1> QED BY <1>1 DEF Leaves

\* The socket is lost: what came may still come.
LEMMA LosesOne ==
    ASSUME NEW f, Comes(<<f>>), SocketLost
    PROVE  Comes(<<f>>)' \/ Comes(<<>>)'
<1>1. /\ inbox = <<f>> /\ transport' = "lost" /\ outbox' = <<>>
      /\ \E n \in 0..Len(inbox) : inbox' = Append(SubSeq(inbox, 1, n), Lost)
  BY DEF Comes, SocketLost, Lost
<1>2. Len(<<f>>) = 1 /\ SubSeq(<<f>>, 1, 0) = <<>> /\ SubSeq(<<f>>, 1, 1) = <<f>>
  BY ShortSequences
<1>3. inbox' = Append(<<f>>, Lost) \/ inbox' = Append(<<>>, Lost)
  <2>1. PICK n \in 0..1 : inbox' = Append(SubSeq(<<f>>, 1, n), Lost)
    BY <1>1, <1>2
  <2>2. n = 0 \/ n = 1
    OBVIOUS
  <2>3. SubSeq(<<f>>, 1, n) = <<>> \/ SubSeq(<<f>>, 1, n) = <<f>>
    BY <1>2, <2>2, Zenon
  <2> QED BY <2>1, <2>3, Zenon
<1> QED BY <1>1, <1>3 DEF Comes, Lost, Frame

LEMMA LosesNothing ==
    ASSUME inbox = <<>>, SocketLost
    PROVE  Comes(<<>>)'
<1>1. /\ transport' = "lost" /\ outbox' = <<>>
      /\ \E n \in 0..Len(inbox) : inbox' = Append(SubSeq(inbox, 1, n), Lost)
  BY DEF SocketLost, Lost
<1>2. Len(<<>>) = 0 /\ SubSeq(<<>>, 1, 0) = <<>>
  BY ShortSequences
<1>3. inbox' = Append(<<>>, Lost)
  <2>1. PICK n \in 0..0 : inbox' = Append(SubSeq(<<>>, 1, n), Lost)
    BY <1>1, <1>2
  <2>2. n = 0
    OBVIOUS
  <2> QED BY <1>2, <2>1, <2>2, Zenon
<1> QED BY <1>1, <1>3 DEF Comes, Lost, Frame

---------------------------------------------------------------------------
(* The events of the state manager *)

LEMMA ManagerIs ==
    ASSUME NEW m \in Managers
    PROVE  /\ m.state \in ClientState /\ m.waits \in Events /\ m.fired \in Events
           /\ m.ready \in Seq(Events)
           /\ SM!Pending(m) = m.fired \cup UNION {m.ready[i] : i \in DOMAIN m.ready}
<1>1. /\ m.state \in ClientState /\ m.waits \in Events /\ m.fired \in Events
      /\ m.ready \in Seq(Events)
  BY ManagersAre
<1>2. \A i \in DOMAIN m.ready : m.ready[i] \in Events
  <2> HIDE DEF Events
  <2> QED BY <1>1
<1> QED BY <1>1, <1>2 DEF SM!Pending, SM!Event, Events

LEMMA PendingEntered ==
    ASSUME NEW m \in Managers, NEW value \in ClientState, NEW exc \in Error \cup {None}
    PROVE  LET n == SM!Enter(m, value, exc) IN
           /\ n.state = value /\ n.exception = exc /\ n.waits = m.waits
           /\ SM!Pending(n) = SM!Pending(m) \cup {e \in m.waits : e[1] = value}
<1> DEFINE n == SM!Enter(m, value, exc)
           more == SM!Scheduled(m, value)
<1>1. /\ m.waits \in Events /\ m.fired \in Events /\ m.ready \in Seq(Events)
      /\ SM!Pending(m) = m.fired \cup UNION {m.ready[i] : i \in DOMAIN m.ready}
  BY ManagerIs
<1>2. more = {e \in m.waits : e[1] = value} /\ more \in Events
  BY <1>1 DEF SM!Scheduled, Events
<1> HIDE DEF more
<1>3. /\ n.state = value /\ n.exception = exc /\ n.waits = m.waits /\ n.fired = m.fired
      /\ n.ready = IF more = {} THEN m.ready ELSE Append(m.ready, more)
  BY ManagersAre DEF SM!Enter, more
<1>4. n \in Managers
  <2>1. n.ready \in Seq(Events)
    <3> HIDE DEF Events, n
    <3> QED BY <1>1, <1>2, <1>3
  <2>2. n = [m EXCEPT !.exception = exc, !.state = value, !.ready = n.ready]
    BY ManagersAre DEF SM!Enter
  <2> HIDE DEF n
  <2> QED BY <2>1, <2>2, ManagersAre
<1> HIDE DEF n
<1>5. SM!Pending(n) = n.fired \cup UNION {n.ready[i] : i \in DOMAIN n.ready}
  BY <1>4, ManagerIs
<1>6. CASE more = {}
  BY <1>1, <1>2, <1>3, <1>5, <1>6 DEF n
<1>7. CASE more # {}
  <2> DEFINE before == m.ready
             after == n.ready
  <2>1. /\ before \in Seq(Events) /\ after = Append(before, more)
    BY <1>1, <1>3, <1>7
  <2> HIDE DEF before, after, Events
  <2>2. /\ DOMAIN after = DOMAIN before \cup {Len(before) + 1}
        /\ \A i \in DOMAIN before : after[i] = before[i]
        /\ after[Len(before) + 1] = more
    BY <1>2, <2>1
  <2>3. UNION {after[i] : i \in DOMAIN after}
            = (UNION {before[i] : i \in DOMAIN before}) \cup more
    BY <2>2
  <2> QED BY <1>1, <1>2, <1>3, <1>5, <2>3 DEF before, after, n
<1> QED BY <1>6, <1>7

LEMMA PendingSame ==
    ASSUME NEW m \in Managers, NEW n, n.fired = m.fired, n.ready = m.ready
    PROVE  SM!Pending(n) = SM!Pending(m)
BY DEF SM!Pending

\* The client goes where its table lets it go.
LEMMA EnterIs ==
    ASSUME NEW m \in Managers, NEW value \in ClientState, m.exception = None,
           value # m.state, value \in ClientTransitions[m.state]
    PROVE  LET n == Enter(m, value) IN
           /\ ~ SM!Refuses(m, value, None)
           /\ n \in Managers
           /\ n.state = value /\ n.exception = None /\ n.waits = m.waits
           /\ SM!Pending(n) = SM!Pending(m) \cup {e \in m.waits : e[1] = value}
<1>1. ~ SM!Refuses(m, value, None) /\ ~ SM!Unchanged(m, value, None)
  BY DEF SM!Refuses, SM!Unchanged
<1>2. Enter(m, value) = SM!Enter(m, value, None)
  BY <1>1 DEF Enter, SM!SetState
<1>3. Enter(m, value) \in Managers
  BY EnterKeepsType
<1> QED BY <1>1, <1>2, <1>3, PendingEntered

\* The client takes note that it has lost the connection.
LEMMA FailIs ==
    ASSUME NEW m \in Managers, m.state # "EXCEPTION", NEW exc \in Error
    PROVE  LET n == SM!SetState(m, "EXCEPTION", exc, STE) IN
           /\ n.state = "EXCEPTION" /\ n.waits = m.waits
           /\ SM!Pending(n) = SM!Pending(m) \cup {e \in m.waits : e[1] = "EXCEPTION"}
<1>1. SM!SetState(m, "EXCEPTION", exc, STE) = SM!Enter(m, "EXCEPTION", exc)
  BY DEF SM!SetState, SM!Refuses, SM!Unchanged
<1>2. "EXCEPTION" \in ClientState
  BY StatesAre
<1> QED BY <1>1, <1>2, PendingEntered

LEMMA RegisterIs ==
    ASSUME NEW m \in Managers, NEW t, NEW S
    PROVE  LET n == SM!Register(m, t, S) IN
           /\ n.state = m.state /\ n.exception = m.exception
           /\ n.waits = m.waits \cup (S \X {t})
           /\ SM!Pending(n) = SM!Pending(m)
<1> DEFINE n == SM!Register(m, t, S)
<1>1. /\ n.state = m.state /\ n.exception = m.exception /\ n.waits = m.waits \cup (S \X {t})
      /\ n.fired = m.fired /\ n.ready = m.ready
  BY ManagersAre DEF SM!Register
<1> HIDE DEF n
<1>2. SM!Pending(n) = SM!Pending(m)
  BY <1>1, PendingSame
<1> QED BY <1>1, <1>2 DEF n

LEMMA RefuseIs ==
    ASSUME NEW m \in Managers
    PROVE  LET n == SM!Refuse(m, STE) IN
           n.state = m.state /\ n.waits = m.waits /\ SM!Pending(n) = SM!Pending(m)
<1> DEFINE n == SM!Refuse(m, STE)
<1>1. n.state = m.state /\ n.waits = m.waits /\ n.fired = m.fired /\ n.ready = m.ready
  BY ManagersAre DEF SM!Refuse
<1> HIDE DEF n
<1>2. SM!Pending(n) = SM!Pending(m)
  BY <1>1, PendingSame
<1> QED BY <1>1, <1>2 DEF n

LEMMA RunCallbacksIs ==
    ASSUME NEW m \in Managers, m.ready # <<>>
    PROVE  LET n == SM!RunCallbacks(m) IN
           /\ n.state = m.state /\ n.exception = m.exception /\ n.waits = m.waits
           /\ SM!Pending(n) = SM!Pending(m)
<1> DEFINE n == SM!RunCallbacks(m)
           before == m.ready
           after == n.ready
<1>1. /\ n.state = m.state /\ n.exception = m.exception /\ n.waits = m.waits
      /\ n.fired = m.fired \cup Head(before) /\ after = Tail(before)
  BY ManagersAre DEF SM!RunCallbacks
<1>2. n \in Managers
  BY RunCallbacksKeepsType
<1> HIDE DEF n
<1>3. /\ SM!Pending(m) = m.fired \cup UNION {before[i] : i \in DOMAIN before}
      /\ SM!Pending(n) = n.fired \cup UNION {after[i] : i \in DOMAIN after}
      /\ before \in Seq(Events)
  BY <1>2, ManagerIs
<1>4. UNION {before[i] : i \in DOMAIN before}
          = Head(before) \cup UNION {after[i] : i \in DOMAIN after}
  <2>0. before \in Seq(Events) /\ before # <<>> /\ after = Tail(before)
    BY <1>1, <1>3
  <2> HIDE DEF before, after
  <2>1. /\ 1 \in DOMAIN before /\ Head(before) = before[1]
        /\ \A i \in DOMAIN after : i + 1 \in DOMAIN before /\ after[i] = before[i + 1]
        /\ \A i \in DOMAIN before : i = 1 \/ i - 1 \in DOMAIN after
        /\ DOMAIN before \subseteq Nat
    BY <2>0, TailIs
  <2>2. \A i \in DOMAIN before : i = 1 \/ before[i] = after[i - 1]
    BY <2>1
  <2>3. \A e : (\E i \in DOMAIN before : e \in before[i])
                   <=> e \in Head(before) \/ (\E i \in DOMAIN after : e \in after[i])
    BY <2>1, <2>2
  <2> QED BY <2>3
<1>5. SM!Pending(n) = SM!Pending(m)
  BY <1>1, <1>3, <1>4
<1> QED BY <1>1, <1>5 DEF n

LEMMA AfterPollIs ==
    ASSUME NEW m \in Managers, NEW t \in Task
    PROVE  LET n == SM!AfterPoll(m, t) IN
           /\ n \in Managers /\ n.state = m.state /\ n.exception = None
           /\ n.waits = m.waits \ SM!EventsOf(t)
           /\ SM!Pending(n) = SM!Pending(m) \ SM!EventsOf(t)
<1> DEFINE n == SM!AfterPoll(m, t)
           mine == SM!EventsOf(t)
           before == m.ready
           after == n.ready
<1>1. /\ n.state = m.state /\ n.exception = None /\ n.waits = m.waits \ mine
      /\ n.fired = m.fired \ mine /\ after = [i \in DOMAIN before |-> before[i] \ mine]
  <2> HIDE DEF mine
  <2> QED BY ManagersAre DEF SM!AfterPoll, SM!ClearWaits, mine
<1>2. n \in Managers
  BY AfterPollKeepsType
<1> HIDE DEF n, mine
<1>3. /\ SM!Pending(m) = m.fired \cup UNION {before[i] : i \in DOMAIN before}
      /\ SM!Pending(n) = n.fired \cup UNION {after[i] : i \in DOMAIN after}
  BY <1>2, ManagerIs
<1>4. /\ DOMAIN after = DOMAIN before
      /\ \A i \in DOMAIN before : after[i] = before[i] \ mine
  BY <1>1
<1>5. UNION {after[i] : i \in DOMAIN after}
          = (UNION {before[i] : i \in DOMAIN before}) \ mine
  BY <1>4
<1>6. SM!Pending(n) = SM!Pending(m) \ mine
  BY <1>1, <1>3, <1>5
<1> QED BY <1>1, <1>2, <1>6 DEF n, mine

---------------------------------------------------------------------------
(* Steps that leave the exchange alone *)

Invariant == IInv /\ OInv

\* The task is where it was, or goes on with its call, or ends it as the broker said.
Stays(t) == task'[t] = task[t]
GoesOn(t) == task'[t].pc # "idle" /\ task'[t].left = task[t].left
EndsRight(t) ==
    /\ task'[t].pc = "idle" /\ task'[t].left = task[t].left - 1 /\ task[t].left > 0
    /\ task'[t].result \in {"answered"} \cup Codes => Said(t, task'[t].result)
    /\ task'[t].result = "closed" => transport' # "open"

LEMMA TasksAre ==
    ASSUME Invariant, NEW t \in Task
    PROVE  /\ task[t] \in Records /\ task[t].left \in Nat
           /\ task[t].pc # "idle" => task[t].left > 0 /\ task[t].call \in Callable
<1>1. FlowOK
  BY InvariantIs DEF Invariant
<1>2. task[t] \in Records /\ 0..MaxCalls \subseteq Nat
  BY <1>1, ClientRpcAssumption DEF FlowOK
<1> QED BY <1>1, <1>2 DEF FlowOK, CallsOK, Records

LEMMA OnlyOneStays ==
    ASSUME Invariant, \A u \in Task : Stays(u) \/ GoesOn(u) \/ EndsRight(u)
    PROVE  OnlyOne => OnlyOne'
<1>1. \A u \in Task : task'[u].left > 0 => task[u].left > 0
  BY TasksAre DEF Stays, GoesOn, EndsRight
<1> QED BY <1>1 DEF OnlyOne

\* What is left of the invariant when the phases are settled.
LEMMA TheRestStays ==
    ASSUME Invariant, \A u \in Task : Stays(u) \/ GoesOn(u) \/ EndsRight(u),
           broker'.refusals = broker.refusals, broker.answers \subseteq broker'.answers,
           transport # "open" => transport' # "open",
           Phases'
    PROVE  OInv'
<1>1. RefusalsFitTasks'
  BY OnlyOneStays DEF Invariant, OInv, RefusalsFitTasks
<1>2. AnswersMatch'
  <2>1. SUFFICES ASSUME NEW t \in Task, NEW outcome \in {"answered"} \cup Codes,
                        Ended(t, outcome)'
                 PROVE  BrokerSaid(t, outcome)'
    BY DEF AnswersMatch
  <2>2. task'[t].pc = "idle" /\ task'[t].result = outcome
    BY <2>1 DEF Ended
  <2>3. CASE Stays(t)
    <3>1. Ended(t, outcome) /\ AnswersMatch
      BY <2>2, <2>3 DEF Stays, Ended, Invariant, OInv
    <3>2. BrokerSaid(t, outcome)
      BY <3>1 DEF AnswersMatch
    <3> QED BY <2>3, <3>2 DEF Stays, BrokerSaid
  <2>4. CASE EndsRight(t)
    <3>1. Said(t, outcome) /\ task'[t].left + 1 = task[t].left
      BY <2>2, <2>4, TasksAre DEF EndsRight
    <3> QED BY <3>1 DEF Said, BrokerSaid
  <2> QED BY <2>2, <2>3, <2>4 DEF GoesOn
<1>3. ClosedIsGone'
  <2>1. ASSUME NEW t \in Task, Ended(t, "closed")' PROVE transport' # "open"
    <3>1. task'[t].pc = "idle" /\ task'[t].result = "closed"
      BY <2>1 DEF Ended
    <3>2. CASE Stays(t)
      BY <3>1, <3>2 DEF Stays, Ended, Invariant, OInv, ClosedIsGone
    <3>3. CASE EndsRight(t)
      BY <3>1, <3>3 DEF EndsRight
    <3> QED BY <3>1, <3>2, <3>3 DEF GoesOn
  <2> QED BY <2>1 DEF ClosedIsGone
<1> QED BY <1>1, <1>2, <1>3 DEF OInv

\* The manager as the phases see it.
ManagerStays ==
    /\ manager'.state = manager.state /\ manager'.exception = manager.exception
    /\ manager'.waits = manager.waits /\ SM!Pending(manager)' = SM!Pending(manager)

WiresStay == UNCHANGED <<channel, channelOpen, lastError, channel0, transport, inbox,
                         outbox, broker>>

LEMMA WiresKept ==
    ASSUME WiresStay
    PROVE  /\ \A frames : (Comes(frames) => Comes(frames)') /\ (Leaves(frames) => Leaves(frames)')
           /\ \A n, closing : BrokerHas(n, closing) => BrokerHas(n, closing)'
BY DEF WiresStay, Comes, Leaves, BrokerHas

LEMMA BusyStays ==
    ASSUME ManagerStays, WiresStay, OnlyOne => OnlyOne', NEW t \in Task, Stays(t)
    PROVE  /\ Waiting(t) => Waiting(t)'
           /\ Reopens(t) => Reopens(t)'
           /\ Raises(t) => Raises(t)'
<1>1. \A outcome : Said(t, outcome) => Said(t, outcome)'
  BY DEF Said, WiresStay, Stays
<1>2. /\ \A frames : (Comes(frames) => Comes(frames)') /\ (Leaves(frames) => Leaves(frames)')
      /\ \A n, closing : BrokerHas(n, closing) => BrokerHas(n, closing)'
  BY WiresKept
<1>3. /\ task'[t] = task[t] /\ channel' = channel /\ channelOpen' = channelOpen
      /\ lastError' = lastError /\ transport' = transport
  BY DEF Stays, WiresStay
<1>4. CallFrame(t, task[t].call)' = CallFrame(t, task[t].call)
  BY <1>3 DEF CallFrame
<1>5. RequestLeaves(t) => RequestLeaves(t)'
  BY <1>2, <1>3, <1>4 DEF RequestLeaves
<1>6. AnswerComes(t) => AnswerComes(t)'
  BY <1>1, <1>2, <1>3 DEF AnswerComes
<1>7. CloseOkComes(t) => CloseOkComes(t)'
  BY <1>2, <1>3 DEF CloseOkComes
<1>8. RefusalComes(t) => RefusalComes(t)'
  <2>1. \A code : ChannelClose(code)' = ChannelClose(code)
    BY <1>3 DEF ChannelClose
  <2> QED BY <1>1, <1>2, <1>3, <2>1 DEF RefusalComes
<1>9. Asking(t) => Asking(t)'
  BY <1>2, <1>3, <1>5, <1>6, <1>7, <1>8 DEF Asking, ManagerStays
<1>10. Answered(t) => Answered(t)'
  BY <1>1, <1>2, <1>3 DEF Answered, ManagerStays
<1>11. Failing(t) => Failing(t)'
  BY <1>1, <1>3 DEF Failing
<1>12. Refused(t) => Refused(t)'
  BY <1>2, <1>3, <1>11 DEF Refused, ManagerStays
<1>13. NoEvents => NoEvents'
  BY DEF NoEvents, ManagerStays
<1>14. OpenLeaves => OpenLeaves'
  BY <1>2, <1>3 DEF OpenLeaves
<1>15. Reopens(t) => Reopens(t)'
  BY <1>2, <1>3, <1>11, <1>13, <1>14 DEF Reopens, OpenOkComes, ManagerStays
<1>16. Raises(t) => Raises(t)'
  BY <1>2, <1>3, <1>11, <1>13 DEF Raises, ManagerStays
<1> QED BY <1>3, <1>9, <1>10, <1>12, <1>15, <1>16 DEF Waiting, ManagerStays

\* Tasks that have nothing under way come and go.
LEMMA PhasesStay ==
    ASSUME Phases, ManagerStays, WiresStay, OnlyOne => OnlyOne',
           \A u \in Task : Stays(u) \/ (Calm(u) /\ Calm(u)')
    PROVE  Phases'
<1>1. \A u \in Task : Calm(u) => Calm(u)'
  BY DEF Calm, Stays
<1>2. CASE Working
  <2>1. Resting => Resting'
    BY <1>1, WiresKept DEF Resting, NoEvents, ManagerStays, WiresStay
  <2>2. ASSUME NEW t \in Task, Busy(t) PROVE Busy(t)'
    <3>1. ~ Calm(t)
      BY <2>2 DEF Busy, Waiting, Reopens, Raises, Calm
    <3>2. Stays(t)
      BY <3>1
    <3> QED BY <1>1, <2>2, <3>2, BusyStays DEF Busy
  <2>3. /\ channel0' = "open" /\ transport' \in {"open", "lost"}
        /\ manager'.exception = None /\ channel' # 0
    BY <1>2 DEF Working, WiresStay, ManagerStays
  <2>4. Working'
    BY <1>2, <2>1, <2>2, <2>3 DEF Working
  <2> QED BY <2>4 DEF Phases
<1>3. CASE \E t \in Task : Closes(t)
  <2>1. PICK t \in Task : Closes(t)
    BY <1>3
  <2>2. ~ Calm(t)
    BY <2>1 DEF Closes, Calm
  <2>3. Stays(t)
    BY <2>2
  <2>4. Closes(t)'
    BY <1>1, <2>1, <2>3, WiresKept DEF Closes, Stays, WiresStay, ManagerStays
  <2> QED BY <2>4 DEF Phases
<1>4. CASE Over
  <2>1. ASSUME NEW t \in Task PROVE HeardRight(t)'
    <3>1. HeardRight(t)
      BY <1>4 DEF Over
    <3>2. CASE Stays(t)
      BY <3>1, <3>2 DEF HeardRight, Stays, WiresStay, ManagerStays, Said
    <3>3. CASE Calm(t)'
      BY <3>3 DEF HeardRight, Calm
    <3> QED BY <3>2, <3>3
  <2>2. Over'
    BY <1>4, <2>1 DEF Over, WiresStay, ManagerStays
  <2> QED BY <2>2 DEF Phases
<1> QED BY <1>2, <1>3, <1>4 DEF Phases

---------------------------------------------------------------------------
(* Where the table lets the client go *)

LEMMA RestIsIdle ==
    /\ \A s \in RestStates : Idle \subseteq ClientTransitions[s] /\ s \notin Idle
    /\ SentStates \cup {"CHANNEL_CLOSE_SENT"} \subseteq Idle
    /\ RestStates \subseteq ClientState
<1>1. RestStates \subseteq IdleAfter \cup DOMAIN IdleWith
  BY DEF RestStates, OkStates, IdleAfter, IdleWith
<1>2. \A s \in IdleAfter \cup DOMAIN IdleWith : Idle \subseteq ClientTransitions[s]
  BY TransitionsAre
<1>3. \A s \in RestStates : s \notin Idle
  BY DEF RestStates, OkStates, Idle
<1>4. SentStates \cup {"CHANNEL_CLOSE_SENT"} \subseteq Idle
  BY DEF SentStates, Idle
<1>5. RestStates \subseteq ClientState
  BY <1>1 DEF ClientState
<1> QED BY <1>1, <1>2, <1>3, <1>4, <1>5

\* A request is answered from the state that it set.
LEMMA AnswersGo ==
    ASSUME NEW m \in Callable
    PROVE  Ok(m) \in ClientTransitions[Sent(m)]
<1> DEFINE row == StatesOf(m)
<1>1. m \in Method
  BY CallablesAre
<1>2. ASSUME row[1] \in DOMAIN Refusable, Refusable[row[1]] = {row[2]} PROVE Ok(m) \in ClientTransitions[Sent(m)]
  BY <1>2, TransitionsAre DEF Sent, Ok
<1>3. ASSUME row[1] \in DOMAIN Strict, Strict[row[1]] = {row[2]} PROVE Ok(m) \in ClientTransitions[Sent(m)]
  BY <1>3, TransitionsAre DEF Sent, Ok
<1>4. CASE m \in DOMAIN ExchangeMethods
  <2>1. row = ExchangeMethods[m]
    BY <1>4, TablesAre
  <2> HIDE DEF row
  <2>2. row[1] \in DOMAIN Refusable /\ Refusable[row[1]] = {row[2]}
    BY <1>4, <2>1 DEF ExchangeMethods, Refusable
  <2> QED BY <1>2, <2>2
<1>5. CASE m \in DOMAIN QueueMethods
  <2>1. row = QueueMethods[m]
    BY <1>5, TablesAre
  <2> HIDE DEF row
  <2>2. row[1] \in DOMAIN Refusable /\ Refusable[row[1]] = {row[2]}
    BY <1>5, <2>1 DEF QueueMethods, Refusable
  <2> QED BY <1>2, <2>2
<1>6. CASE m \in DOMAIN TxMethods
  <2>1. row = TxMethods[m]
    BY <1>6, TablesAre
  <2> HIDE DEF row
  <2>2. row[1] \in DOMAIN Strict /\ Strict[row[1]] = {row[2]}
    BY <1>6, <2>1 DEF TxMethods, Strict
  <2> QED BY <1>3, <2>2
<1>7. CASE m \in DOMAIN ChannelMethods /\ m # "qos_prefetch"
  <2>1. row = ChannelMethods[m]
    BY <1>7, TablesAre
  <2> HIDE DEF row
  <2>2. row[1] \in DOMAIN Strict /\ Strict[row[1]] = {row[2]}
    BY <1>7, <2>1 DEF ChannelMethods, Strict
  <2> QED BY <1>3, <2>2
<1>8. CASE m = "qos_prefetch"
  <2>1. row = <<"BASIC_QOS_SENT", "BASIC_QOSOK_RECEIVED">>
    BY <1>8, TablesAre DEF ChannelMethods
  <2> HIDE DEF row
  <2>2. row[1] \in DOMAIN Refusable /\ Refusable[row[1]] = {row[2]}
    BY <2>1 DEF Refusable
  <2> QED BY <1>2, <2>2
<1> QED BY <1>1, <1>4, <1>5, <1>6, <1>7, <1>8 DEF Method

\* The states of a call.
LEMMA CallStates ==
    ASSUME NEW m \in Callable
    PROVE  /\ Sent(m) \in Idle /\ Sent(m) \in ClientState /\ Ok(m) \in ClientState
           /\ Ok(m) \in OkStates \cup {"CHANNEL_CLOSEOK_RECEIVED"}
           /\ m # "close" => Ok(m) \in OkStates
           /\ Sent(m) # Ok(m) /\ Ok(m) # "CHANNEL_CLOSE_RECEIVED"
           /\ Sent(m) \notin ClosedClientStates
           /\ Sent(m) \notin {"CHANNEL_CLOSE_RECEIVED", "CHANNEL_CLOSEOK_SENT"}
           /\ {Sent(m), Ok(m)} \cap {"EXCEPTION"} = {}
<1>1. /\ Sent(m) \in SentStates \cup {"CHANNEL_CLOSE_SENT"}
      /\ Ok(m) \in OkStates \cup {"CHANNEL_CLOSEOK_RECEIVED"}
      /\ m # "close" => Ok(m) \in OkStates
  BY RequestStates, CloseStates DEF Callable
<1>2. Sent(m) \in ClientState /\ Ok(m) \in ClientState
  BY SentIsApart
<1>3. Sent(m) \in Idle
  BY <1>1, RestIsIdle
<1> QED BY <1>1, <1>2, <1>3 DEF SentStates, OkStates, ClosedClientStates

LEMMA RestsOpen ==
    \A s \in RestStates \cup {"CHANNEL_OPEN_SENT", "CHANNEL_CLOSEOK_SENT",
                              "CHANNEL_CLOSEOK_RECEIVED"} : s \notin ClosedClientStates
BY DEF RestStates, OkStates, ClosedClientStates

---------------------------------------------------------------------------
(* The phases and the locks *)

LEMMA BusyIsNotCalm ==
    ASSUME NEW t \in Task, Busy(t) \/ Closes(t)
    PROVE  ~ Calm(t)
BY DEF Busy, Waiting, Reopens, Raises, Closes, Calm

LEMMA WorkingIsOpen ==
    ASSUME Invariant, Working
    PROVE  ~ IsClosed /\ manager.state # "EXCEPTION"
<1>1. channel0 \notin {"closed", "failed", None}
  BY ClientRpcAssumption DEF Working
<1>2. manager.state \notin ClosedClientStates
  <2>1. CASE Resting
    BY <2>1, RestsOpen DEF Resting
  <2>2. ASSUME NEW t \in Task, Busy(t) PROVE manager.state \notin ClosedClientStates
    <3>1. task[t].call \in Callable
      BY <2>2, BusyIsNotCalm, TasksAre DEF Calm
    <3>2. Ok(task[t].call) \in RestStates \cup {"CHANNEL_CLOSEOK_RECEIVED"}
      BY <3>1, CallStates DEF RestStates
    <3> QED BY <2>2, <3>1, <3>2, CallStates, RestsOpen
            DEF Busy, Waiting, Asking, Answered, Refused, Reopens, Raises, RestStates
  <2> QED BY <2>1, <2>2 DEF Working
<1> QED BY <1>1, <1>2 DEF IsClosed, ClosedClientStates

LEMMA OthersAreClosed ==
    ASSUME Phases, ~ Working
    PROVE  IsClosed
<1>1. {"CLOSING", "EXCEPTION", "CLOSED"} \subseteq ClosedClientStates
  BY DEF ClosedClientStates
<1> QED BY <1>1 DEF Phases, Closes, Over, IsClosed

LEMMA NotBoth ==
    ASSUME Invariant, Over
    PROVE  ~ Working
<1>1. manager.state \in ClosedClientStates
  BY DEF Over, ClosedClientStates
<1> QED BY <1>1, WorkingIsOpen DEF IsClosed

\* A task that may send finds nobody's exchange under way.
LEMMA SenderFindsRest ==
    ASSUME Invariant, Working, NEW t \in Task, Calm(t), task[t].left > 0,
           NEW held, Holds(t, held)
    PROVE  Resting
<1>1. SUFFICES ASSUME NEW u \in Task, Busy(u) PROVE FALSE
  BY DEF Working
<1>2. u # t /\ task[u].left > 0
  BY <1>1, BusyIsNotCalm, TasksAre DEF Calm
<1>3. task[u].pc # "waiting"
  BY <1>2 DEF Holds
<1>4. OnlyOne
  BY <1>1, <1>3 DEF Busy, Waiting, Reopens, Raises, Failing
<1> QED BY <1>2, <1>4 DEF OnlyOne

\* The task at the head of the lock of close() finds nobody in the body of close().
LEMMA CloserIsAlone ==
    ASSUME Invariant, NEW t \in Task, Calm(t), NEW u \in Task, u # t,
           Head(closeLock) = t \/ InClose(t)
    PROVE  ~ InClose(u)
<1>1. CloseIsExclusive
  BY InvariantIs DEF Invariant, FlowOK
<1> QED BY <1>1 DEF CloseIsExclusive

---------------------------------------------------------------------------
(* The steps of one task *)

LEMMA EndIsRight ==
    ASSUME Invariant, NEW t \in Task, task[t].left > 0, NEW m \in Callable,
           NEW result \in Outcome, End(t, m, result),
           result \in {"answered"} \cup Codes => Said(t, result),
           result = "closed" => transport' # "open"
    PROVE  /\ \A u \in Task : u # t => Stays(u)
           /\ EndsRight(t) /\ Calm(t)' /\ task'[t].pc = "idle"
           /\ \A u \in Task : Stays(u) \/ GoesOn(u) \/ EndsRight(u)
<1>1. FlowOK
  BY InvariantIs DEF Invariant
<1>2. Alters(t) /\ task'[t].pc = "idle" /\ task'[t].result = result
      /\ task'[t].left = task[t].left - 1
  BY <1>1, EndAlters
<1>3. EndsRight(t)
  BY <1>2 DEF EndsRight
<1>4. \A u \in Task : u # t => Stays(u)
  BY <1>2 DEF Alters, Stays
<1> QED BY <1>2, <1>3, <1>4 DEF Calm

LEMMA MovesIsRight ==
    ASSUME Invariant, NEW t \in Task, task[t].left > 0, NEW m \in Callable,
           NEW pc \in Pcs \ {"idle"}, Moves(t, m, pc)
    PROVE  /\ \A u \in Task : u # t => Stays(u)
           /\ GoesOn(t) /\ task'[t].pc = pc /\ task'[t].call = m
           /\ task'[t].left = task[t].left
           /\ \A u \in Task : Stays(u) \/ GoesOn(u) \/ EndsRight(u)
<1>1. FlowOK
  BY InvariantIs DEF Invariant
<1>2. Alters(t) /\ task'[t].pc = pc /\ task'[t].call = m /\ task'[t].left = task[t].left
  BY <1>1, GoesAlters
<1>3. GoesOn(t)
  BY <1>2 DEF GoesOn
<1>4. \A u \in Task : u # t => Stays(u)
  BY <1>2 DEF Alters, Stays
<1> QED BY <1>2, <1>3, <1>4

LEMMA GoesMoves ==
    ASSUME NEW t, NEW m, NEW pc, Goes(t, m, pc)
    PROVE  Moves(t, m, pc)
BY DEF Goes, Moves

---------------------------------------------------------------------------
(* The connection is over *)

\* The only events that a step of a client that is closed may add.
Harmless(n) ==
    \A e \in SM!Pending(n) : e \in SM!Pending(manager) \/ e[1] \in Final

LEMMA EnterBounds ==
    ASSUME NEW m \in Managers, NEW value \in ClientState
    PROVE  \A e \in SM!Pending(Enter(m, value)) : e \in SM!Pending(m) \/ e[1] = value
<1>1. CASE SM!Unchanged(m, value, None)
  BY <1>1 DEF Enter, SM!SetState
<1>2. CASE ~ SM!Unchanged(m, value, None) /\ SM!Refuses(m, value, None)
  <2>1. Enter(m, value) = SM!Refuse(m, STE)
    BY <1>2 DEF Enter, SM!SetState
  <2> QED BY <2>1, RefuseIs
<1>3. CASE ~ SM!Unchanged(m, value, None) /\ ~ SM!Refuses(m, value, None)
  <2>1. Enter(m, value) = SM!Enter(m, value, None)
    BY <1>3 DEF Enter, SM!SetState
  <2> QED BY <2>1, PendingEntered
<1> QED BY <1>1, <1>2, <1>3

LEMMA OverStays ==
    ASSUME Invariant, Over, NEW t, \A u \in Task : u # t => Stays(u),
           Stays(t) \/ task'[t].pc \notin {"waiting", "raising"},
           transport' # "open", outbox' = outbox,
           manager'.state \in Final, Harmless(manager'),
           inbox' = inbox \/ (inbox # <<>> /\ inbox' = Tail(inbox)),
           broker' = broker,
           lastError' = lastError
               \/ (t \in Task /\ OnlyOne /\ task[t].pc = "raising" /\ task'[t].pc = "idle"),
           OnlyOne => OnlyOne'
    PROVE  Over'
<1>1. \A i \in DOMAIN inbox' : inbox'[i].type \in {"Connection.CloseOk", "Disconnected"}
  <2>1. inbox \in Seq(InFrame)
    BY InvariantIs DEF Invariant, WireOK
  <2>2. \A i \in DOMAIN inbox : inbox[i].type \in {"Connection.CloseOk", "Disconnected"}
    BY DEF Over
  <2>3. CASE inbox # <<>> /\ inbox' = Tail(inbox)
    <3> HIDE DEF InFrame
    <3>1. \A i \in DOMAIN Tail(inbox) :
              i + 1 \in DOMAIN inbox /\ Tail(inbox)[i] = inbox[i + 1]
      BY <2>1, <2>3, TailIs
    <3> QED BY <2>2, <2>3, <3>1
  <2> QED BY <2>2, <2>3
<1>2. ASSUME NEW u \in Task PROVE HeardRight(u)'
  <2>1. HeardRight(u)
    BY DEF Over
  <2>2. CASE ~ Stays(u)
    BY <2>2 DEF HeardRight
  <2>3. CASE Stays(u) /\ task[u].pc \notin {"waiting", "raising"}
    BY <2>3 DEF HeardRight, Stays
  <2>4. CASE Stays(u) /\ task[u].pc \in {"waiting", "raising"}
    <3>1. task[u].call \in Callable /\ task[u].left > 0
      BY <2>4, TasksAre
    <3>2. /\ task'[u] = task[u] /\ \A outcome : Said(u, outcome)' <=> Said(u, outcome)
      BY <2>4 DEF Stays, Said
    <3>3. /\ <<Ok(task[u].call), u>> \in SM!Pending(manager') =>
                 <<Ok(task[u].call), u>> \in SM!Pending(manager)
          /\ <<"CHANNEL_CLOSE_RECEIVED", u>> \in SM!Pending(manager') =>
                 <<"CHANNEL_CLOSE_RECEIVED", u>> \in SM!Pending(manager)
      <4>1. Ok(task[u].call) \notin Final /\ "CHANNEL_CLOSE_RECEIVED" \notin Final
        BY <3>1, CallStates DEF OkStates, Final
      <4> QED BY <4>1 DEF Harmless
    <3>4. t \in Task /\ OnlyOne /\ task[t].pc = "raising" => t = u
      BY <3>1, TasksAre DEF OnlyOne
    <3>5. CASE lastError' = lastError
      BY <2>1, <2>4, <3>2, <3>3, <3>5 DEF HeardRight
    <3>6. lastError' = lastError
      <4>1. task[t].pc = "raising" => task'[t].pc # "idle" \/ t # u
        BY <2>4 DEF Stays
      <4> QED BY <3>4, <4>1
    <3> QED BY <3>5, <3>6
  <2> QED BY <2>2, <2>3, <2>4
<1> QED BY <1>1, <1>2 DEF Over, Final

LEMMA ResultsAre ==
    /\ {"skipped", "rejected", "closed", "UnknownError", STE} \cap ({"answered"} \cup Codes) = {}
    /\ "closed" \notin Codes /\ None \notin {"answered"} \cup Codes
    /\ "close" \in Callable /\ "close" \notin Requests
BY ClientRpcAssumption DEF Error, STE, Callable

LEMMA DisconnectOver ==
    ASSUME Invariant, Over, NEW t \in Task, task[t].pc # "idle",
           NEW m \in Managers, m.state = manager.state,
           SM!Pending(m) \subseteq SM!Pending(manager), Disconnect(t, m)
    PROVE  OInv'
<1> DEFINE refused == SM!Refuses(m, "CLOSING", None)
<1>1. /\ manager' = IF refused THEN SM!Refuse(m, STE) ELSE Enter(m, "CLOSING")
      /\ UNCHANGED <<channel, channelOpen, lastError, mode, transport, inbox, broker>>
  BY DEF Disconnect
<1>2. task[t].left > 0 /\ "close" \in Callable /\ STE \in Outcome
  BY TasksAre, ResultsAre, OutcomesAre
<1>3. manager' \in Managers /\ manager'.state \in Final /\ Harmless(manager')
  <2>1. CASE refused
    <3>1. manager' = SM!Refuse(m, STE)
      BY <1>1, <2>1
    <3>2. SM!Pending(manager') = SM!Pending(m) /\ manager'.state = m.state
      BY <3>1, RefuseIs
    <3>3. manager' \in Managers
      BY <3>1, EnterKeepsType, StatesAre
    <3> QED BY <3>2, <3>3 DEF Harmless, Over, Final
  <2>2. CASE ~ refused
    <3>1. manager' = Enter(m, "CLOSING") /\ "CLOSING" \in ClientState
      BY <1>1, <2>2, StatesAre
    <3>2. manager' \in Managers /\ manager'.state = "CLOSING"
      BY <2>2, <3>1, EnterKeepsType
    <3>3. \A e \in SM!Pending(manager') : e \in SM!Pending(m) \/ e[1] = "CLOSING"
      BY <3>1, EnterBounds
    <3> QED BY <3>2, <3>3 DEF Harmless, Final
  <2> QED BY <2>1, <2>2
<1>4. outbox' = outbox
  BY DEF Disconnect, Write, Over
<1>5. End(t, "close", STE) \/ Goes(t, "close", "closing")
  BY DEF Disconnect
<1>6. /\ \A u \in Task : u # t => Stays(u)
      /\ task'[t].pc \notin {"waiting", "raising"}
      /\ \A u \in Task : Stays(u) \/ GoesOn(u) \/ EndsRight(u)
  <2>1. CASE End(t, "close", STE)
    <3>1. STE \notin {"answered"} \cup Codes /\ STE # "closed"
      BY ResultsAre DEF STE
    <3> QED BY <1>2, <2>1, <3>1, EndIsRight
  <2>2. CASE Goes(t, "close", "closing")
    <3>1. "closing" \in Pcs \ {"idle"} /\ Moves(t, "close", "closing")
      BY <2>2, GoesMoves DEF Pcs
    <3> QED BY <1>2, <3>1, MovesIsRight
  <2> QED BY <1>5, <2>1, <2>2
<1>8. transport' # "open"
  BY <1>1 DEF Over
<1>9. OnlyOne => OnlyOne'
  BY <1>6, OnlyOneStays
<1>10. Over'
  BY <1>1, <1>3, <1>4, <1>6, <1>8, <1>9, OverStays
<1>11. Phases'
  BY <1>10 DEF Phases
<1> QED BY <1>1, <1>6, <1>8, <1>11, TheRestStays

---------------------------------------------------------------------------
(* The requests *)

LEMMA ManagerSame ==
    ASSUME manager' = manager
    PROVE  ManagerStays
BY DEF ManagerStays

\* A task that has nothing under way ends a call.
LEMMA CalmEnds ==
    ASSUME Invariant, NEW t \in Task, Calm(t), task[t].left > 0, NEW m \in Callable,
           NEW result \in Outcome, End(t, m, result), ManagerStays, WiresStay,
           result \notin {"answered", "closed"} \cup Codes
    PROVE  OInv'
<1>1. /\ \A u \in Task : u # t => Stays(u)
      /\ Calm(t)' /\ \A u \in Task : Stays(u) \/ GoesOn(u) \/ EndsRight(u)
  BY EndIsRight
<1>2. OnlyOne => OnlyOne'
  BY <1>1, OnlyOneStays
<1>3. Phases'
  BY <1>1, <1>2, PhasesStay DEF Invariant, OInv
<1> QED BY <1>1, <1>3, TheRestStays DEF WiresStay

\* A task that has nothing under way queues.
LEMMA CalmMoves ==
    ASSUME Invariant, NEW t \in Task, Calm(t), task[t].left > 0, NEW m \in Callable,
           NEW pc \in {"queued", "closeQueued"}, Moves(t, m, pc), ManagerStays, WiresStay
    PROVE  OInv'
<1>0. pc \in Pcs \ {"idle"}
  BY DEF Pcs
<1>1. /\ \A u \in Task : u # t => Stays(u)
      /\ task'[t].pc = pc /\ \A u \in Task : Stays(u) \/ GoesOn(u) \/ EndsRight(u)
  BY <1>0, MovesIsRight
<1>2. OnlyOne => OnlyOne'
  BY <1>1, OnlyOneStays
<1>3. Calm(t)'
  BY <1>1 DEF Calm
<1>4. Phases'
  BY <1>1, <1>2, <1>3, PhasesStay DEF Invariant, OInv
<1> QED BY <1>1, <1>4, TheRestStays DEF WiresStay

LEMMA SkippedIsRight ==
    ASSUME Invariant, NEW t \in Task, NEW m \in Callable, NEW held, Holds(t, held),
           MaySend(t, m), SendSkipped(t, m, held)
    PROVE  OInv'
<1>1. task[t].pc \in {"idle", "queued"} /\ task[t].left > 0 /\ Calm(t) /\ IsClosed
  BY DEF MaySend, SendSkipped, Calm
<1>2. CASE m # "close"
  <2>1. /\ End(t, m, "skipped") /\ manager' = manager
        /\ UNCHANGED <<channel, channelOpen, lastError, channel0, transport, inbox,
                       outbox, broker>>
    BY <1>2 DEF SendSkipped, Return
  <2>2. /\ "skipped" \in Outcome /\ "skipped" \notin {"answered", "closed"} \cup Codes
        /\ WiresStay /\ ManagerStays
    BY <2>1, OutcomesAre, ResultsAre, ManagerSame DEF WiresStay
  <2> QED BY <1>1, <2>1, <2>2, CalmEnds
<1>3. CASE m = "close"
  <2>1. task[t].pc = "queued" /\ task[t].call = "close"
    BY <1>1, <1>3 DEF MaySend
  <2>2. InClose(t) /\ Disconnect(t, manager)
    BY <1>3, <2>1 DEF InClose, SendSkipped
  <2>3. ~ Working
    BY <1>1, WorkingIsOpen
  <2>4. ASSUME NEW u \in Task, Closes(u) PROVE FALSE
    <3>1. InClose(u) /\ u # t
      BY <1>1, <2>4, BusyIsNotCalm DEF Closes, InClose
    <3> QED BY <1>1, <2>2, <3>1, CloserIsAlone
  <2>5. Over
    BY <2>3, <2>4 DEF Invariant, OInv, Phases
  <2>6. manager \in Managers
    BY InvariantIs DEF Invariant
  <2> QED BY <2>1, <2>2, <2>5, <2>6, DisconnectOver
<1> QED BY <1>2, <1>3

\* At rest the state machine allows every request.
LEMMA RestAllows ==
    ASSUME Invariant, Resting, Working, NEW m \in Callable
    PROVE  ~ SM!Refuses(manager, Sent(m), None)
<1>1. /\ manager \in Managers /\ manager.exception = None
  BY InvariantIs DEF Invariant, Working
<1>2. manager.state \in RestStates
  BY DEF Resting
<1>3. Sent(m) \in Idle /\ Idle \subseteq ClientTransitions[manager.state]
  BY <1>2, CallStates, RestIsIdle
<1> QED BY <1>3 DEF SM!Refuses

LEMMA RefusedIsNot ==
    ASSUME Invariant, NEW t \in Task, NEW m \in Callable, NEW held, Holds(t, held),
           MaySend(t, m), SendRefused(t, m, held)
    PROVE  FALSE
<1>1. task[t].left > 0 /\ Calm(t) /\ ~ IsClosed /\ SM!Refuses(manager, Sent(m), None)
  BY DEF MaySend, SendRefused, Calm
<1>2. Working
  BY <1>1, OthersAreClosed DEF Invariant, OInv
<1>3. Resting
  BY <1>1, <1>2, SenderFindsRest
<1> QED BY <1>1, <1>2, <1>3, RestAllows

LEMMA WaitsIsRight ==
    ASSUME Invariant, NEW t \in Task, NEW m \in Callable, NEW held, Holds(t, held),
           MaySend(t, m), SendWaits(t, m, held)
    PROVE  OInv'
<1> DEFINE S == {Ok(m), "CHANNEL_CLOSE_RECEIVED"}
           n == Enter(manager, Sent(m))
<1>1. /\ task[t].left > 0 /\ Calm(t) /\ ~ IsClosed
      /\ Write(<<CallFrame(t, m)>>) /\ manager' = SM!Register(n, t, S)
      /\ Goes(t, m, "waiting")
      /\ UNCHANGED <<channel, channelOpen, lastError, mode, channel0, transport>>
      /\ UNCHANGED <<inbox, broker>>
  BY DEF MaySend, SendWaits, Calm, session
<1>2. Working
  BY <1>1, OthersAreClosed DEF Invariant, OInv
<1>3. Resting
  BY <1>1, <1>2, SenderFindsRest
<1>4. /\ n \in Managers /\ n.state = Sent(m) /\ n.exception = None /\ n.waits = {}
      /\ SM!Pending(n) = {}
  <2>1. manager \in Managers /\ manager.exception = None /\ manager.state \in RestStates
        /\ manager.waits = {} /\ SM!Pending(manager) = {}
    BY <1>2, <1>3, InvariantIs DEF Invariant, Working, Resting, NoEvents
  <2>2. /\ Sent(m) \in ClientState /\ Sent(m) # manager.state
        /\ Sent(m) \in ClientTransitions[manager.state]
    BY <2>1, CallStates, RestIsIdle
  <2> QED BY <2>1, <2>2, EnterIs
<1> HIDE DEF n, S
<1>5. /\ manager'.state = Sent(m) /\ manager'.exception = None
      /\ manager'.waits = S \X {t} /\ SM!Pending(manager') = {}
  BY <1>1, <1>4, RegisterIs
<1>6. "waiting" \in Pcs \ {"idle"} /\ Moves(t, m, "waiting")
  BY <1>1, GoesMoves DEF Pcs
<1>7. /\ \A u \in Task : u # t => Stays(u)
      /\ task'[t].pc = "waiting" /\ task'[t].call = m /\ task'[t].left = task[t].left
      /\ \A u \in Task : Stays(u) \/ GoesOn(u) \/ EndsRight(u)
  BY <1>1, <1>6, MovesIsRight
<1>8. CallFrame(t, task[t].call)' = CallFrame(t, m)
  BY <1>1, <1>7 DEF CallFrame
<1>9. Asking(t)'
  <2>1. Comes(<<>>) /\ BrokerHas(channel, FALSE) /\ channelOpen /\ lastError = None
    BY <1>3 DEF Resting
  <2>2. CASE transport = "open"
    <3>0. PICK f : f = CallFrame(t, m)
      OBVIOUS
    <3>1. Leaves(<<f>>)'
      <4>1. Write(<<f>>)
        BY <1>1, <3>0
      <4> QED BY <1>1, <2>1, <2>2, <4>1, WritesOne
    <3>2. RequestLeaves(t)'
      <4>1. CallFrame(t, task[t].call)' = f
        BY <1>8, <3>0
      <4>2. BrokerHas(channel, FALSE)'
        BY <1>1, <2>1 DEF BrokerHas
      <4> QED BY <3>1, <4>1, <4>2 DEF RequestLeaves
    <3> QED BY <1>1, <1>5, <1>7, <2>1, <3>2 DEF Asking
  <2>3. CASE transport # "open"
    <3>1. Comes(<<>>)' /\ transport' = "lost"
      BY <1>1, <1>2, <2>1, <2>3, WritesOne DEF Working
    <3> QED BY <1>1, <1>5, <1>7, <2>1, <3>1 DEF Asking
  <2> QED BY <2>2, <2>3
<1>10. Waiting(t)'
  BY <1>5, <1>7, <1>9 DEF Waiting, S
<1>11. Busy(t)'
  BY <1>3, <1>7, <1>10 DEF Busy, Resting, Calm, Stays
<1>12. Phases'
  BY <1>1, <1>2, <1>5, <1>11 DEF Phases, Working
<1> QED BY <1>1, <1>7, <1>12, TheRestStays

LEMMA SendIsRight ==
    ASSUME Invariant, NEW t \in Task, NEW m \in Callable, NEW held, Holds(t, held),
           MaySend(t, m), Send(t, m, held)
    PROVE  OInv'
BY SkippedIsRight, RefusedIsNot, WaitsIsRight DEF Send

LEMMA RpcIsRight ==
    ASSUME Invariant, NEW t \in Task, NEW m \in Callable, MaySend(t, m),
           task[t].pc # "queued", Rpc(t, m)
    PROVE  OInv'
<1>1. CASE lock = <<>>
  <2>1. FlowOK
    BY InvariantIs DEF Invariant
  <2>2. Holds(t, <<t>>) /\ Send(t, m, <<t>>)
    BY <1>1, <2>1, FreeLockHolds DEF Rpc
  <2> QED BY <2>2, SendIsRight
<1>2. CASE lock # <<>>
  <2>1. /\ Goes(t, m, "queued") /\ manager' = manager
        /\ UNCHANGED <<channel, channelOpen, lastError, mode, channel0, transport>>
        /\ UNCHANGED <<inbox, outbox, broker>>
    BY <1>2 DEF Rpc, session
  <2>2. Moves(t, m, "queued") /\ ManagerStays /\ WiresStay
    BY <2>1, GoesMoves, ManagerSame DEF WiresStay
  <2>3. Calm(t) /\ task[t].left > 0
    BY DEF MaySend, Calm
  <2> QED BY <2>2, <2>3, CalmMoves
<1> QED BY <1>1, <1>2

LEMMA CallIsRight ==
    ASSUME Invariant, NEW t \in Task, Call(t)
    PROVE  OInv'
<1>1. PICK m \in Requests : Rpc(t, m)
  BY DEF Call
<1>2. m \in Callable /\ m # "close"
  BY ResultsAre, <1>1 DEF Callable
<1>3. MaySend(t, m) /\ task[t].pc # "queued"
  BY <1>2 DEF Call, MayCall, MaySend
<1> QED BY <1>1, <1>2, <1>3, RpcIsRight

LEMMA CallFailsIsRight ==
    ASSUME Invariant, NEW t \in Task, CallFails(t)
    PROVE  OInv'
<1>1. PICK m \in Requests : End(t, m, "rejected")
  BY DEF CallFails
<1>2. /\ task[t].left > 0 /\ Calm(t) /\ manager' = manager /\ WiresStay
  BY DEF CallFails, MayCall, Calm, WiresStay, session
<1>3. /\ m \in Callable /\ "rejected" \in Outcome
      /\ "rejected" \notin {"answered", "closed"} \cup Codes
  BY <1>1, OutcomesAre, ResultsAre DEF Callable
<1> QED BY <1>1, <1>2, <1>3, ManagerSame, CalmEnds

LEMMA CloseIsRight ==
    ASSUME Invariant, NEW t \in Task, Close(t)
    PROVE  OInv'
<1>1. /\ task[t].left > 0 /\ Calm(t) /\ manager' = manager /\ WiresStay
      /\ Moves(t, "close", "closeQueued")
  BY DEF Close, MayCall, Calm, WiresStay, session, Moves
<1> QED BY <1>1, ResultsAre, ManagerSame, CalmMoves

LEMMA AcquireIsRight ==
    ASSUME Invariant, NEW t \in Task, Acquire(t)
    PROVE  OInv'
<1>1. FlowOK
  BY InvariantIs DEF Invariant
<1>2. task[t].pc = "queued" /\ Head(lock) = t /\ Send(t, task[t].call, lock)
  BY DEF Acquire
<1>3. task[t].call \in Callable /\ task[t].left > 0
  BY <1>2, TasksAre
<1>4. MaySend(t, task[t].call) /\ Holds(t, lock)
  BY <1>1, <1>2, <1>3, HeadHolds DEF MaySend
<1> QED BY <1>2, <1>3, <1>4, SendIsRight

\* close() of a client that is closed finds that its connection is over.
LEMMA CloseClosedIsRight ==
    ASSUME Invariant, NEW t \in Task, task[t].pc = "closeQueued", Head(closeLock) = t,
           IsClosed, CloseClosed(t)
    PROVE  OInv'
<1> DEFINE refused == manager.state # "CLOSED" /\ SM!Refuses(manager, "CLOSED", None)
           result == IF refused THEN STE ELSE "closed"
<1>1. /\ manager' = IF manager.state = "CLOSED" THEN manager ELSE Enter(manager, "CLOSED")
      /\ End(t, "close", result)
      /\ UNCHANGED <<channel, channelOpen, lastError, mode, channel0, transport>>
      /\ UNCHANGED <<inbox, outbox, broker>>
  BY DEF CloseClosed, session
<1>2. task[t].left > 0 /\ Calm(t)
  BY TasksAre DEF Calm
<1>3. Over
  <2>1. ~ Working
    BY WorkingIsOpen
  <2>2. ASSUME NEW u \in Task, Closes(u) PROVE FALSE
    <3>1. InClose(u) /\ u # t
      BY <1>2, <2>2, BusyIsNotCalm DEF Closes, InClose
    <3> QED BY <1>2, <3>1, CloserIsAlone
  <2> QED BY <2>1, <2>2 DEF Invariant, OInv, Phases
<1>4. transport' # "open"
  BY <1>1, <1>3 DEF Over
<1>5. result \in Outcome /\ (result \in {"answered"} \cup Codes => Said(t, result))
  BY OutcomesAre, ResultsAre
<1> HIDE DEF result
<1>6. /\ \A u \in Task : u # t => Stays(u)
      /\ task'[t].pc = "idle"
      /\ \A u \in Task : Stays(u) \/ GoesOn(u) \/ EndsRight(u)
  BY <1>1, <1>2, <1>4, <1>5, ResultsAre, EndIsRight
<1>7. manager'.state \in Final /\ Harmless(manager')
  <2>1. manager \in Managers /\ "CLOSED" \in ClientState
    BY InvariantIs, StatesAre DEF Invariant
  <2>2. manager.state \in Final
    BY <1>3 DEF Over, Final
  <2>3. Enter(manager, "CLOSED").state \in {manager.state, "CLOSED"}
    BY <2>1, EnterKeepsType
  <2>4. \A e \in SM!Pending(Enter(manager, "CLOSED")) :
            e \in SM!Pending(manager) \/ e[1] = "CLOSED"
    BY <2>1, EnterBounds
  <2>5. CASE manager.state = "CLOSED"
    BY <1>1, <2>2, <2>5 DEF Harmless
  <2>6. CASE manager.state # "CLOSED"
    <3>1. manager' = Enter(manager, "CLOSED")
      BY <1>1, <2>6
    <3> QED BY <2>2, <2>3, <2>4, <3>1 DEF Harmless, Final
  <2> QED BY <2>5, <2>6
<1>8. OnlyOne => OnlyOne'
  BY <1>6, OnlyOneStays
<1>9. Over'
  BY <1>1, <1>3, <1>4, <1>6, <1>7, <1>8, OverStays
<1>10. Phases'
  BY <1>9 DEF Phases
<1> QED BY <1>1, <1>4, <1>6, <1>10, TheRestStays

\* A client whose channel is closed is not closing, and no task could close it.
LEMMA CloserFindsChannel ==
    ASSUME Invariant, NEW t \in Task, task[t].pc = "closeQueued", Head(closeLock) = t,
           ~ IsClosed
    PROVE  channelOpen
<1>1. Working
  BY OthersAreClosed DEF Invariant, OInv
<1>2. task[t].left > 0 /\ Calm(t)
  BY TasksAre DEF Calm
<1>3. CASE Resting
  BY <1>3 DEF Resting
<1>4. ASSUME NEW u \in Task, Busy(u) PROVE channelOpen
  <2>1. u # t /\ task[u].left > 0
    BY <1>2, <1>4, BusyIsNotCalm, TasksAre DEF Calm
  <2>2. ~ OnlyOne
    BY <1>2, <2>1 DEF OnlyOne
  <2>3. Waiting(u) /\ ~ Refused(u)
    BY <1>4, <2>2 DEF Busy, Reopens, Raises, Refused, Failing
  <2>4. ~ InClose(u)
    BY <1>2, <2>1, CloserIsAlone
  <2>5. task[u].call # "close"
    BY <2>3, <2>4 DEF Waiting, InClose
  <2> QED BY <2>3, <2>5 DEF Waiting, Asking, Answered
<1> QED BY <1>1, <1>3, <1>4 DEF Working

LEMMA CloseLockedIsRight ==
    ASSUME Invariant, NEW t \in Task, CloseLocked(t)
    PROVE  OInv'
<1>1. task[t].pc = "closeQueued" /\ Head(closeLock) = t
  BY DEF CloseLocked
<1>2. CASE IsClosed
  BY <1>1, <1>2, CloseClosedIsRight DEF CloseLocked
<1>3. CASE ~ IsClosed
  <2>1. Rpc(t, "close")
    BY <1>1, <1>3, CloserFindsChannel DEF CloseLocked
  <2>2. task[t].call = "close"
    <3>1. FlowOK
      BY InvariantIs DEF Invariant
    <3> QED BY <1>1, <3>1 DEF FlowOK, CloseIsExclusive
  <2>3. MaySend(t, "close")
    BY <1>1, <1>3, <2>2, TasksAre DEF MaySend
  <2> QED BY <1>1, <2>1, <2>3, ResultsAre, RpcIsRight
<1> QED BY <1>2, <1>3

LEMMA RunReadyIsRight ==
    ASSUME Invariant, RunReady
    PROVE  OInv'
<1>1. /\ manager \in Managers /\ manager.ready # <<>>
      /\ manager' = SM!RunCallbacks(manager) /\ WiresStay /\ task' = task
  BY InvariantIs DEF Invariant, RunReady, WiresStay, session, flow
<1>2. ManagerStays
  BY <1>1, RunCallbacksIs DEF ManagerStays
<1>3. \A u \in Task : Stays(u)
  BY <1>1 DEF Stays
<1>4. OnlyOne => OnlyOne'
  BY <1>3, OnlyOneStays
<1>5. Phases'
  BY <1>1, <1>2, <1>3, <1>4, PhasesStay DEF Invariant, OInv
<1> QED BY <1>1, <1>3, <1>5, TheRestStays DEF WiresStay

---------------------------------------------------------------------------
(* The end of the wait *)

\* A task that waits has the exchange that is under way, or its connection is over.
LEMMA WaiterIs ==
    ASSUME Invariant, NEW t \in Task, Waits(t)
    PROVE  /\ task[t].pc = "waiting" /\ task[t].left > 0 /\ task[t].call \in Callable
           /\ manager \in Managers
           /\ \A state : SM!IsSet(manager, t, state) => <<state, t>> \in SM!Pending(manager)
           /\ Over \/ (Working /\ Waiting(t) /\ \A u \in Task : u # t => Calm(u))
<1>1. /\ task[t].pc = "waiting" /\ task[t].left > 0 /\ task[t].call \in Callable
      /\ manager \in Managers /\ ~ Calm(t)
  BY TasksAre, InvariantIs DEF Waits, Invariant, Calm
<1>2. \A state : SM!IsSet(manager, t, state) => <<state, t>> \in SM!Pending(manager)
  BY <1>1, ManagerIs DEF SM!IsSet
<1>3. Over \/ (Working /\ Waiting(t) /\ \A u \in Task : u # t => Calm(u))
  <2>1. ~ \E u \in Task : Closes(u)
    BY <1>1 DEF Closes
  <2>2. ASSUME Working PROVE Waiting(t) /\ \A u \in Task : u # t => Calm(u)
    <3>1. ~ Resting
      BY <1>1 DEF Resting
    <3>2. PICK u \in Task : Busy(u)
      BY <2>2, <3>1 DEF Working
    <3>3. u = t
      BY <1>1, <3>2 DEF Busy
    <3> QED BY <1>1, <3>2, <3>3 DEF Busy, Reopens, Raises
  <2> QED BY <2>1, <2>2 DEF Invariant, OInv, Phases
<1> QED BY <1>1, <1>2, <1>3

\* What the wait leaves of the manager.
LEMMA WaitIsOver ==
    ASSUME Invariant, NEW t \in Task, Waits(t)
    PROVE  LET n == SM!AfterPoll(manager, t) IN
           /\ n \in Managers /\ n.state = manager.state /\ n.exception = None
           /\ SM!Pending(n) \subseteq SM!Pending(manager)
           /\ Harmless(n)
           /\ Waiting(t) => n.waits = {} /\ SM!Pending(n) = {}
<1> DEFINE n == SM!AfterPoll(manager, t)
           mine == SM!EventsOf(t)
<1>1. /\ manager \in Managers /\ task[t].call \in Callable
  BY WaiterIs
<1>2. /\ n \in Managers /\ n.state = manager.state /\ n.exception = None
      /\ n.waits = manager.waits \ mine
      /\ SM!Pending(n) = SM!Pending(manager) \ mine
  BY <1>1, AfterPollIs
<1>3. ASSUME Waiting(t) PROVE manager.waits \subseteq mine /\ SM!Pending(manager) \subseteq mine
  <2>1. {Ok(task[t].call), "CHANNEL_CLOSE_RECEIVED"} \subseteq ClientState
    BY <1>1, CallStates, StatesAre
  <2>2. \A s \in {Ok(task[t].call), "CHANNEL_CLOSE_RECEIVED"} : <<s, t>> \in mine
    BY <2>1 DEF SM!EventsOf
  <2> HIDE DEF mine
  <2>3. manager.waits = {Ok(task[t].call), "CHANNEL_CLOSE_RECEIVED"} \X {t}
    BY <1>3 DEF Waiting
  <2>4. \/ SM!Pending(manager) = {} \/ SM!Pending(manager) = {<<Ok(task[t].call), t>>}
        \/ SM!Pending(manager) = {<<"CHANNEL_CLOSE_RECEIVED", t>>}
    BY <1>3 DEF Waiting, Asking, Answered, Refused
  <2>5. {Ok(task[t].call), "CHANNEL_CLOSE_RECEIVED"} \X {t} \subseteq mine
    BY <2>2
  <2> QED BY <2>2, <2>3, <2>4, <2>5
<1> HIDE DEF n, mine
<1>4. Harmless(n)
  BY <1>2 DEF Harmless
<1> QED BY <1>2, <1>3, <1>4 DEF n

\* The connection ends and nobody waits.
LEMMA EndsOver ==
    ASSUME transport' # "open", Comes(<<>>)', manager'.state \in Final,
           \A u \in Task : task'[u].pc \notin {"waiting", "raising"}
    PROVE  Over'
<1>1. outbox' = <<>> /\ inbox' = Append(<<>>, Lost)
  BY DEF Comes
<1>2. \A i \in DOMAIN inbox' : inbox'[i] = Lost
  <2>1. Append(<<>>, Lost) = <<Lost>>
    BY ShortSequences
  <2> QED BY <1>1, <2>1
<1>3. \A i \in DOMAIN inbox' : inbox'[i].type \in {"Connection.CloseOk", "Disconnected"}
  BY <1>2 DEF Lost, Frame
<1>4. \A u \in Task : HeardRight(u)'
  BY DEF HeardRight
<1> QED BY <1>1, <1>3, <1>4 DEF Over, Final

\* The connection is over, and t returns: the broker had answered.
LEMMA OverAnswered ==
    ASSUME Invariant, Over, NEW t \in Task, PollAnswered(t), task[t].call # "close"
    PROVE  OInv'
<1> DEFINE n == SM!AfterPoll(manager, t)
<1>1. /\ Waits(t) /\ manager' = n /\ End(t, task[t].call, "answered")
      /\ UNCHANGED <<channel, channelOpen, lastError, channel0, transport, inbox, outbox,
                     broker>>
  BY DEF PollAnswered, PollReturnsNormally, Return
<1>2. /\ task[t].pc = "waiting" /\ task[t].left > 0 /\ task[t].call \in Callable
      /\ \A state : SM!IsSet(manager, t, state) => <<state, t>> \in SM!Pending(manager)
  BY <1>1, WaiterIs
<1>3. Said(t, "answered")
  <2>1. \/ SM!IsSet(manager, t, Ok(task[t].call))
        \/ SM!IsSet(manager, t, "CHANNEL_CLOSE_RECEIVED") /\ lastError = None
    BY DEF PollAnswered, SM!PollReturns, WaitsOn
  <2> QED BY <1>2, <2>1 DEF Over, HeardRight
<1>4. n.state = manager.state /\ Harmless(n)
  BY <1>1, WaitIsOver
<1> HIDE DEF n
<1>5. "answered" \in Outcome /\ "answered" # "closed"
  BY OutcomesAre
<1>8. /\ \A u \in Task : u # t => Stays(u)
      /\ task'[t].pc = "idle" /\ \A u \in Task : Stays(u) \/ GoesOn(u) \/ EndsRight(u)
  BY <1>1, <1>2, <1>3, <1>5, EndIsRight
<1>9. OnlyOne => OnlyOne'
  BY <1>8, OnlyOneStays
<1>10. transport' # "open" /\ manager'.state \in Final /\ Harmless(manager')
  BY <1>1, <1>4 DEF Over, Final
<1>11. Over'
  BY <1>1, <1>8, <1>9, <1>10, OverStays
<1>12. Phases'
  BY <1>11 DEF Phases
<1> QED BY <1>1, <1>8, <1>10, <1>12, TheRestStays

\* The broker has closed the channel, and close() goes on to disconnect.
LEMMA ClosedDisconnects ==
    ASSUME Invariant, NEW t \in Task, Working, Answered(t), task[t].call = "close",
           task[t].pc = "waiting", \A u \in Task : u # t => Calm(u),
           NEW n \in Managers, n.state = manager.state, n.exception = None,
           Disconnect(t, n)
    PROVE  OInv'
<1>1. task[t].left > 0 /\ "close" \in Callable
  BY TasksAre, ResultsAre
<1>2. n.state = "CHANNEL_CLOSEOK_RECEIVED" /\ Comes(<<>>) /\ BrokerHas(0, FALSE)
  BY CloseStates DEF Answered
<1>3. "CLOSING" \in ClientTransitions[n.state] /\ ~ SM!Refuses(n, "CLOSING", None)
  BY <1>2, StepsAre DEF SM!Refuses
<1>4. channel0 = "open" /\ channel0 # "closed" /\ transport \in {"open", "lost"}
  BY DEF Working
<1>5. /\ manager' = Enter(n, "CLOSING") /\ Write(<<Frame("Connection.Close", 0)>>)
      /\ Goes(t, "close", "closing") /\ channel0' = "closing"
      /\ UNCHANGED <<channel, channelOpen, lastError, mode, transport, inbox, broker>>
  BY <1>3, <1>4 DEF Disconnect
<1>6. manager'.state = "CLOSING"
  BY <1>3, <1>5, StatesAre, EnterKeepsType
<1>7. "closing" \in Pcs \ {"idle"} /\ Moves(t, "close", "closing")
  BY <1>5, GoesMoves DEF Pcs
<1>8. /\ \A u \in Task : u # t => Stays(u)
      /\ task'[t].pc = "closing" /\ task'[t].call = "close"
      /\ \A u \in Task : Stays(u) \/ GoesOn(u) \/ EndsRight(u)
  BY <1>1, <1>7, MovesIsRight
<1>9. \A u \in Task : u # t => Calm(u)'
  BY <1>8 DEF Calm, Stays
<1>10. IF transport = "open" THEN Leaves(<<Frame("Connection.Close", 0)>>)' ELSE Comes(<<>>)'
  BY <1>2, <1>5, WritesOne
<1>11. Phases'
  <2>1. CASE transport = "open"
    <3>1. Leaves(<<Frame("Connection.Close", 0)>>)' /\ ~ broker'.gone
      BY <1>2, <1>5, <1>10, <2>1 DEF BrokerHas
    <3>2. Closes(t)'
      BY <1>5, <1>6, <1>8, <1>9, <2>1, <3>1 DEF Closes
    <3> QED BY <3>2 DEF Phases
  <2>2. CASE transport # "open"
    <3>1. Comes(<<>>)' /\ transport' # "open"
      BY <1>5, <1>10, <2>2
    <3>2. \A u \in Task : task'[u].pc \notin {"waiting", "raising"}
      BY <1>8, <1>9 DEF Calm
    <3>3. Over'
      BY <1>6, <3>1, <3>2, EndsOver DEF Final
    <3> QED BY <3>3 DEF Phases
  <2> QED BY <2>1, <2>2
<1> QED BY <1>5, <1>8, <1>11, TheRestStays

\* The wait of a task ends as its exchange does.
LEMMA WorkingAnswered ==
    ASSUME Invariant, Working, NEW t \in Task, PollAnswered(t)
    PROVE  OInv'
<1> DEFINE n == SM!AfterPoll(manager, t)
<1>1. Waits(t)
  BY DEF PollAnswered
<1>2. /\ task[t].pc = "waiting" /\ task[t].left > 0 /\ task[t].call \in Callable
      /\ \A state : SM!IsSet(manager, t, state) => <<state, t>> \in SM!Pending(manager)
      /\ Waiting(t) /\ \A u \in Task : u # t => Calm(u)
  BY <1>1, WaiterIs, NotBoth
<1>3. Answered(t)
  <2>1. \/ SM!IsSet(manager, t, Ok(task[t].call))
        \/ SM!IsSet(manager, t, "CHANNEL_CLOSE_RECEIVED") /\ lastError = None
    BY DEF PollAnswered, SM!PollReturns, WaitsOn
  <2>2. ~ Asking(t)
    BY <1>2, <2>1 DEF Asking
  <2>3. ASSUME Refused(t) PROVE FALSE
    <3>1. lastError # None
      BY <2>3, ResultsAre DEF Refused, Failing
    <3>2. <<Ok(task[t].call), t>> \in {<<"CHANNEL_CLOSE_RECEIVED", t>>}
      BY <1>2, <2>1, <2>3, <3>1 DEF Refused
    <3> QED BY <1>2, <3>2, CallStates
  <2> QED BY <1>2, <2>2, <2>3 DEF Waiting
<1>4. /\ n \in Managers /\ n.state = manager.state /\ n.exception = None
      /\ n.waits = {} /\ SM!Pending(n) = {}
  BY <1>1, <1>2, WaitIsOver
<1>5. CASE task[t].call = "close"
  <2>1. Disconnect(t, n)
    BY <1>5 DEF PollAnswered, PollReturnsNormally
  <2> HIDE DEF n
  <2> QED BY <1>2, <1>3, <1>4, <1>5, <2>1, ClosedDisconnects
<1>6. CASE task[t].call # "close"
  <2>1. /\ manager' = n /\ End(t, task[t].call, "answered")
        /\ UNCHANGED <<channel, channelOpen, lastError, channel0, transport, inbox, outbox,
                       broker>>
    BY <1>6 DEF PollAnswered, PollReturnsNormally, Return
  <2> HIDE DEF n
  <2>2. /\ Comes(<<>>) /\ BrokerHas(channel, FALSE) /\ channelOpen /\ lastError = None
        /\ Said(t, "answered") /\ manager.state = Ok(task[t].call)
    BY <1>3, <1>6 DEF Answered
  <2>3. manager.state \in RestStates
    BY <1>2, <1>6, <2>2, CallStates DEF RestStates
  <2>4. "answered" \in Outcome /\ "answered" \notin Codes
    BY OutcomesAre, ClientRpcAssumption
  <2>5. /\ \A u \in Task : u # t => Stays(u)
        /\ Calm(t)' /\ \A u \in Task : Stays(u) \/ GoesOn(u) \/ EndsRight(u)
    BY <1>2, <2>1, <2>2, <2>4, EndIsRight
  <2>6. \A u \in Task : Calm(u)'
    BY <1>2, <2>5 DEF Calm, Stays
  <2>7. Comes(<<>>)' /\ BrokerHas(channel, FALSE)'
    BY <2>1, <2>2 DEF Comes, BrokerHas
  <2>8. Resting'
    BY <1>4, <2>1, <2>2, <2>3, <2>6, <2>7 DEF Resting, NoEvents
  <2>9. Phases'
    BY <1>4, <2>1, <2>8 DEF Phases, Working
  <2> QED BY <2>1, <2>5, <2>9, TheRestStays
<1> QED BY <1>5, <1>6

LEMMA PollAnsweredIsRight ==
    ASSUME Invariant, NEW t \in Task, PollAnswered(t)
    PROVE  OInv'
<1> DEFINE n == SM!AfterPoll(manager, t)
<1>1. Waits(t) /\ task[t].pc = "waiting"
  BY DEF PollAnswered, Waits
<1>2. CASE Over /\ task[t].call = "close"
  <2>1. Disconnect(t, n)
    BY <1>2 DEF PollAnswered, PollReturnsNormally
  <2>2. n \in Managers /\ n.state = manager.state /\ SM!Pending(n) \subseteq SM!Pending(manager)
    BY <1>1, WaitIsOver
  <2> HIDE DEF n
  <2> QED BY <1>1, <1>2, <2>1, <2>2, DisconnectOver
<1> QED BY <1>1, <1>2, WaiterIs, OverAnswered, WorkingAnswered

LEMMA OverClosed ==
    ASSUME Invariant, Over, NEW t \in Task, PollChannelClosed(t)
    PROVE  OInv'
<1> DEFINE n == SM!AfterPoll(manager, t)
<1>1. /\ Waits(t)
      /\ UNCHANGED <<channelOpen, lastError, mode, channel0, transport, inbox, broker>>
  BY DEF PollChannelClosed
<1>2. /\ n \in Managers /\ n.state = manager.state /\ n.exception = None
      /\ SM!Pending(n) \subseteq SM!Pending(manager)
  BY <1>1, WaitIsOver
<1>3. SM!Refuses(n, "OPENING_CHANNEL", None)
  BY <1>2, StepsAre DEF Over, SM!Refuses, SM!Unchanged
<1>4. manager' = SM!Refuse(n, STE) /\ End(t, task[t].call, STE) /\ outbox' = outbox
  BY <1>3 DEF PollChannelClosed
<1> HIDE DEF n
<1>5. manager'.state \in Final /\ Harmless(manager')
  BY <1>2, <1>4, RefuseIs DEF Over, Final, Harmless
<1>6. /\ task[t].pc = "waiting" /\ task[t].left > 0 /\ task[t].call \in Callable
      /\ STE \in Outcome /\ STE \notin {"answered"} \cup Codes /\ STE # "closed"
  BY <1>1, WaiterIs, OutcomesAre, ResultsAre DEF STE
<1>7. /\ \A u \in Task : u # t => Stays(u)
      /\ task'[t].pc = "idle" /\ \A u \in Task : Stays(u) \/ GoesOn(u) \/ EndsRight(u)
  BY <1>4, <1>6, EndIsRight
<1>8. OnlyOne => OnlyOne'
  BY <1>7, OnlyOneStays
<1>9. transport' # "open"
  BY <1>1 DEF Over
<1>10. Over'
  BY <1>1, <1>4, <1>5, <1>7, <1>8, <1>9, OverStays
<1>11. Phases'
  BY <1>10 DEF Phases
<1> QED BY <1>1, <1>7, <1>9, <1>11, TheRestStays

\* What _open_channel leaves of the manager.
LEMMA OpeningGoes ==
    ASSUME NEW n \in Managers, n.state = "CHANNEL_CLOSEOK_SENT", n.exception = None,
           n.waits = {}, SM!Pending(n) = {}
    PROVE  /\ ~ SM!Refuses(n, "OPENING_CHANNEL", None)
           /\ Opening(n).state = "CHANNEL_OPEN_SENT" /\ Opening(n).exception = None
           /\ Opening(n).waits = {} /\ SM!Pending(Opening(n)) = {}
<1> DEFINE first == Enter(n, "OPENING_CHANNEL")
<1>1. /\ "OPENING_CHANNEL" \in ClientState /\ "CHANNEL_OPEN_SENT" \in ClientState
      /\ "OPENING_CHANNEL" \in ClientTransitions[n.state]
      /\ "CHANNEL_OPEN_SENT" \in ClientTransitions["OPENING_CHANNEL"]
  BY StatesAre, StepsAre
<1>2. /\ ~ SM!Refuses(n, "OPENING_CHANNEL", None)
      /\ first \in Managers /\ first.state = "OPENING_CHANNEL" /\ first.exception = None
      /\ first.waits = {} /\ SM!Pending(first) = {}
  BY <1>1, EnterIs
<1> HIDE DEF first
<1> DEFINE second == Enter(first, "CHANNEL_OPEN_SENT")
<1>3. /\ second.state = "CHANNEL_OPEN_SENT" /\ second.exception = None
      /\ second.waits = {} /\ SM!Pending(second) = {}
  BY <1>1, <1>2, EnterIs
<1>4. Opening(n) = second
  BY DEF Opening, first
<1> HIDE DEF second
<1> QED BY <1>2, <1>3, <1>4

\* The task whose request was refused opens another channel.
LEMMA WorkingClosed ==
    ASSUME Invariant, Working, NEW t \in Task, PollChannelClosed(t)
    PROVE  OInv'
<1> DEFINE n == SM!AfterPoll(manager, t)
           pc == IF channelOpen THEN "raising" ELSE "opening"
<1>1. /\ Waits(t)
      /\ UNCHANGED <<channelOpen, lastError, mode, channel0, transport, inbox, broker>>
  BY DEF PollChannelClosed
<1>2. /\ task[t].pc = "waiting" /\ task[t].left > 0 /\ task[t].call \in Callable
      /\ \A state : SM!IsSet(manager, t, state) => <<state, t>> \in SM!Pending(manager)
      /\ Waiting(t) /\ \A u \in Task : u # t => Calm(u)
  BY <1>1, WaiterIs, NotBoth
<1>3. Refused(t)
  <2>1. SM!IsSet(manager, t, "CHANNEL_CLOSE_RECEIVED")
    BY DEF PollChannelClosed, SM!PollReturns, WaitsOn
  <2>2. <<"CHANNEL_CLOSE_RECEIVED", t>> # <<Ok(task[t].call), t>>
    <3>1. Ok(task[t].call) # "CHANNEL_CLOSE_RECEIVED"
      BY <1>2, CallStates
    <3> QED BY <3>1
  <2> QED BY <1>2, <2>1, <2>2 DEF Waiting, Asking, Answered
<1>4. /\ n \in Managers /\ n.state = "CHANNEL_CLOSEOK_SENT" /\ n.exception = None
      /\ n.waits = {} /\ SM!Pending(n) = {} /\ ~ channelOpen
  BY <1>1, <1>2, <1>3, WaitIsOver DEF Refused
<1>5. ~ SM!Refuses(n, "OPENING_CHANNEL", None)
  BY <1>4, OpeningGoes
<1>6. /\ manager' = Opening(n) /\ channel' = NextChannel
      /\ Write(<<Frame("Channel.Open", NextChannel)>>) /\ Goes(t, task[t].call, "opening")
  <2>1. pc = "opening"
    BY <1>4
  <2>2. /\ manager' = Opening(n) /\ channel' = NextChannel
        /\ Write(<<Frame("Channel.Open", NextChannel)>>) /\ Goes(t, task[t].call, pc)
    BY <1>5 DEF PollChannelClosed
  <2> HIDE DEF pc
  <2> QED BY <2>1, <2>2
<1> HIDE DEF n
<1>7. /\ manager'.state = "CHANNEL_OPEN_SENT" /\ manager'.exception = None
      /\ manager'.waits = {} /\ SM!Pending(manager') = {}
  BY <1>4, <1>6, OpeningGoes
<1>8. channel \in 1..MaxChannels /\ channel' \in 1..MaxChannels /\ channel' # 0
  <2>1. channel \in 0..MaxChannels /\ channel # 0
    BY InvariantIs DEF Invariant, SessionOK, Numbers, Working
  <2> QED BY <1>6, <2>1, ClientRpcAssumption DEF NextChannel
<1>9. "opening" \in Pcs \ {"idle"} /\ Moves(t, task[t].call, "opening")
  BY <1>6, GoesMoves DEF Pcs
<1>10. /\ \A u \in Task : u # t => Stays(u)
       /\ task'[t].pc = "opening" /\ task'[t].left = task[t].left
       /\ \A u \in Task : Stays(u) \/ GoesOn(u) \/ EndsRight(u)
  BY <1>2, <1>9, MovesIsRight
<1>11. Failing(t)'
  <2>1. Failing(t)
    BY <1>3 DEF Refused
  <2>2. OnlyOne'
    BY <1>10, <2>1, OnlyOneStays DEF Failing
  <2> QED BY <1>1, <1>10, <2>1, <2>2 DEF Failing, Said
<1>12. OpenLeaves' \/ (transport' = "lost" /\ Comes(<<>>)')
  <2>1. PICK f : f = Frame("Channel.CloseOk", channel)
    OBVIOUS
  <2>2. PICK g : g = Frame("Channel.Open", NextChannel)
    OBVIOUS
  <2>3. Frame("Channel.Open", channel)' = g /\ Write(<<g>>)
    BY <1>6, <2>2 DEF Frame
  <2>4. CASE Leaves(<<f>>) /\ BrokerHas(channel, TRUE)
    <3>1. Leaves(<<f, g>>)'
      BY <1>1, <2>3, <2>4, WritesAnother
    <3>2. PICK old \in 1..MaxChannels : old = channel
      BY <1>8
    <3>3. BrokerHas(old, TRUE)' /\ f = Frame("Channel.CloseOk", old)
      BY <1>1, <2>1, <2>4, <3>2 DEF BrokerHas
    <3> QED BY <2>3, <3>1, <3>3 DEF OpenLeaves
  <2>5. CASE Comes(<<>>) /\ BrokerHas(0, FALSE)
    <3>1. IF transport = "open" THEN Leaves(<<g>>)' ELSE Comes(<<>>)'
      BY <1>1, <2>3, <2>5, WritesOne
    <3>2. BrokerHas(0, FALSE)'
      BY <1>1, <2>5 DEF BrokerHas
    <3> QED BY <1>1, <2>3, <3>1, <3>2 DEF OpenLeaves, Working
  <2> QED BY <1>3, <2>1, <2>4, <2>5 DEF Refused
<1>13. Reopens(t)'
  BY <1>1, <1>4, <1>7, <1>10, <1>11, <1>12 DEF Reopens, NoEvents
<1>14. Busy(t)'
  BY <1>2, <1>10, <1>13 DEF Busy, Calm, Stays
<1>15. Phases'
  BY <1>1, <1>7, <1>8, <1>14 DEF Phases, Working
<1> QED BY <1>1, <1>10, <1>15, TheRestStays

LEMMA PollChannelClosedIsRight ==
    ASSUME Invariant, NEW t \in Task, PollChannelClosed(t)
    PROVE  OInv'
<1>1. Waits(t)
  BY DEF PollChannelClosed
<1> QED BY <1>1, WaiterIs, OverClosed, WorkingClosed

\* Only a client that has lost its connection has an exception to raise.
LEMMA PollRaisesIsRight ==
    ASSUME Invariant, NEW t \in Task, PollRaises(t)
    PROVE  OInv'
<1>1. /\ Waits(t) /\ manager.exception # None /\ manager' = SM!AfterPoll(manager, t)
      /\ Goes(t, task[t].call, "reconnecting")
      /\ UNCHANGED <<channel, channelOpen, lastError, mode, channel0, transport>>
      /\ UNCHANGED <<inbox, outbox, broker>>
  BY DEF PollRaises, SM!PollRaises, session
<1>2. task[t].left > 0 /\ task[t].call \in Callable /\ Over
  BY <1>1, WaiterIs DEF Working
<1>3. manager'.state \in Final /\ Harmless(manager')
  BY <1>1, <1>2, WaitIsOver DEF Over, Final
<1>4. "reconnecting" \in Pcs \ {"idle"} /\ Moves(t, task[t].call, "reconnecting")
  BY <1>1, GoesMoves DEF Pcs
<1>5. /\ \A u \in Task : u # t => Stays(u)
      /\ task'[t].pc = "reconnecting"
      /\ \A u \in Task : Stays(u) \/ GoesOn(u) \/ EndsRight(u)
  BY <1>2, <1>4, MovesIsRight
<1>6. OnlyOne => OnlyOne'
  BY <1>5, OnlyOneStays
<1>7. transport' # "open"
  BY <1>1, <1>2 DEF Over
<1>8. Over'
  BY <1>1, <1>2, <1>3, <1>5, <1>6, <1>7, OverStays
<1>9. Phases'
  BY <1>8 DEF Phases
<1> QED BY <1>1, <1>5, <1>7, <1>9, TheRestStays

\* The error is the one that the request of t was refused with.
LEMMA RaiseLastErrorIsRight ==
    ASSUME Invariant, NEW t \in Task, RaiseLastError(t)
    PROVE  OInv'
<1> DEFINE result == IF lastError = None THEN "UnknownError" ELSE lastError
<1>1. /\ task[t].pc = "raising" /\ End(t, task[t].call, result) /\ lastError' = None
      /\ UNCHANGED <<manager, channel, channelOpen, channel0, transport, inbox, outbox,
                     broker>>
  BY DEF RaiseLastError
<1>2. task[t].left > 0 /\ task[t].call \in Callable /\ ~ Calm(t)
  BY <1>1, TasksAre DEF Calm
<1>3. Over \/ (Working /\ Raises(t) /\ \A u \in Task : u # t => Calm(u))
  <2>1. ~ \E u \in Task : Closes(u)
    BY <1>1, <1>2 DEF Closes
  <2>2. ASSUME Working PROVE Raises(t) /\ \A u \in Task : u # t => Calm(u)
    <3>1. ~ Resting
      BY <1>2 DEF Resting
    <3>2. PICK u \in Task : Busy(u)
      BY <2>2, <3>1 DEF Working
    <3>3. u = t
      BY <1>2, <3>2 DEF Busy
    <3> QED BY <1>1, <3>2, <3>3 DEF Busy, Waiting, Reopens
  <2> QED BY <2>1, <2>2 DEF Invariant, OInv, Phases
<1>4. lastError = None \/ Said(t, lastError)
  BY <1>1, <1>3 DEF Over, HeardRight, Raises, Failing
<1>5. /\ result \in Outcome /\ result # "closed"
      /\ result \in {"answered"} \cup Codes => Said(t, result)
  <2>1. lastError \in Codes \cup {"ChannelError", None}
    BY InvariantIs DEF Invariant, SessionOK
  <2> QED BY <1>4, <2>1, OutcomesAre, ResultsAre
<1> HIDE DEF result
<1>6. /\ \A u \in Task : u # t => Stays(u)
      /\ task'[t].pc = "idle" /\ Calm(t)'
      /\ \A u \in Task : Stays(u) \/ GoesOn(u) \/ EndsRight(u)
  BY <1>1, <1>2, <1>5, EndIsRight
<1>7. OnlyOne => OnlyOne'
  BY <1>6, OnlyOneStays
<1>8. CASE Over
  <2>1. OnlyOne
    BY <1>1, <1>8 DEF Over, HeardRight
  <2>2. transport' # "open" /\ manager'.state \in Final /\ Harmless(manager')
    BY <1>1, <1>8 DEF Over, Final, Harmless
  <2>3. Over'
    BY <1>1, <1>6, <1>7, <1>8, <2>1, <2>2, OverStays
  <2>4. Phases'
    BY <2>3 DEF Phases
  <2> QED BY <1>1, <1>6, <2>2, <2>4, TheRestStays
<1>9. CASE Working /\ Raises(t) /\ \A u \in Task : u # t => Calm(u)
  <2>1. \A u \in Task : Calm(u)'
    BY <1>6, <1>9 DEF Calm, Stays
  <2>2. Comes(<<>>)' /\ BrokerHas(channel, FALSE)' /\ NoEvents'
    BY <1>1, <1>9 DEF Raises, Comes, BrokerHas, NoEvents
  <2>3. Resting'
    BY <1>1, <1>9, <2>1, <2>2 DEF Resting, Raises, RestStates
  <2>4. Phases'
    BY <1>1, <1>9, <2>3 DEF Phases, Working
  <2> QED BY <1>1, <1>6, <2>4, TheRestStays
<1> QED BY <1>3, <1>8, <1>9

LEMMA ClosingIs ==
    ASSUME Invariant, NEW t \in Task, task[t].pc = "closing"
    PROVE  /\ task[t].left > 0 /\ ~ Calm(t)
           /\ Over \/ Closes(t)
<1>1. task[t].left > 0 /\ ~ Calm(t)
  BY TasksAre DEF Calm
<1>2. ~ Working
  BY <1>1 DEF Working, Resting, Busy, Waiting, Reopens, Raises
<1>3. \A u \in Task : Closes(u) => u = t
  BY <1>1 DEF Closes
<1> QED BY <1>1, <1>2, <1>3 DEF Invariant, OInv, Phases

LEMMA CloseEndsIsRight ==
    ASSUME Invariant, NEW t \in Task, CloseEnds(t)
    PROVE  OInv'
<1>1. /\ task[t].pc = "closing" /\ channel0 = "closed"
      /\ manager' = [manager EXCEPT !.state = "CLOSED", !.exception = None]
      /\ transport' = "closed" /\ End(t, "close", "closed")
      /\ UNCHANGED <<lastError, inbox, outbox, broker>>
  BY DEF CloseEnds
<1>2. /\ task[t].left > 0 /\ "close" \in Callable /\ "closed" \in Outcome
      /\ "closed" \notin {"answered"} \cup Codes
  BY <1>1, ClosingIs, OutcomesAre, ResultsAre
<1>3. /\ \A u \in Task : u # t => Stays(u)
      /\ task'[t].pc = "idle" /\ \A u \in Task : Stays(u) \/ GoesOn(u) \/ EndsRight(u)
  BY <1>1, <1>2, EndIsRight
<1>4. manager'.state = "CLOSED" /\ Harmless(manager')
  <2>1. manager \in Managers
    BY InvariantIs DEF Invariant
  <2>2. /\ manager'.state = "CLOSED" /\ manager'.fired = manager.fired
        /\ manager'.ready = manager.ready
    BY <1>1, <2>1, ManagersAre
  <2>3. SM!Pending(manager') = SM!Pending(manager)
    BY <2>1, <2>2, PendingSame
  <2> QED BY <2>2, <2>3 DEF Harmless
<1>5. OnlyOne => OnlyOne'
  BY <1>3, OnlyOneStays
<1>6. ASSUME Over PROVE Over'
  BY <1>1, <1>3, <1>4, <1>5, <1>6, OverStays DEF Final
<1>7. ASSUME Closes(t) PROVE Over'
  <2>1. inbox' = <<>> /\ outbox' = <<>> /\ \A u \in Task : u # t => Calm(u)
    BY <1>1, <1>7 DEF Closes, Comes
  <2>2. \A u \in Task : task'[u].pc \notin {"waiting", "raising"}
    BY <1>3, <2>1 DEF Calm, Stays
  <2>3. \A u \in Task : HeardRight(u)'
    BY <2>2 DEF HeardRight
  <2> QED BY <1>1, <1>4, <2>1, <2>3 DEF Over
<1>8. Over'
  BY <1>1, <1>6, <1>7, ClosingIs
<1>9. Phases'
  BY <1>8 DEF Phases
<1> QED BY <1>1, <1>3, <1>9, TheRestStays

LEMMA CloseFailsIsRight ==
    ASSUME Invariant, NEW t \in Task, CloseFails(t)
    PROVE  OInv'
<1>1. /\ task[t].pc = "closing" /\ channel0 = "failed" /\ End(t, "close", STE)
      /\ UNCHANGED <<manager, channel, channelOpen, lastError, channel0, transport>>
      /\ UNCHANGED <<inbox, outbox, broker>>
  BY DEF CloseFails, session
<1>2. Over /\ task[t].left > 0
  BY <1>1, ClosingIs DEF Closes
<1>3. /\ "close" \in Callable /\ STE \in Outcome
      /\ STE \notin {"answered"} \cup Codes /\ STE # "closed"
  BY OutcomesAre, ResultsAre DEF STE
<1>4. /\ \A u \in Task : u # t => Stays(u)
      /\ task'[t].pc = "idle" /\ \A u \in Task : Stays(u) \/ GoesOn(u) \/ EndsRight(u)
  BY <1>1, <1>2, <1>3, EndIsRight
<1>5. OnlyOne => OnlyOne'
  BY <1>4, OnlyOneStays
<1>6. transport' # "open" /\ manager'.state \in Final /\ Harmless(manager')
  BY <1>1, <1>2 DEF Over, Final, Harmless
<1>7. Over'
  BY <1>1, <1>2, <1>4, <1>5, <1>6, OverStays
<1>8. Phases'
  BY <1>7 DEF Phases
<1> QED BY <1>1, <1>4, <1>6, <1>8, TheRestStays

---------------------------------------------------------------------------
(* The frames that come *)

\* A frame that comes belongs to the exchange that is under way.
LEMMA FrameTaken ==
    ASSUME Invariant, NEW type, Takes(type)
    PROVE  \/ Over /\ type \in {"Connection.CloseOk", "Disconnected"}
           \/ Working /\ Comes(<<>>) /\ type = "Disconnected" /\ transport # "open"
           \/ Working /\ \E t \in Task :
                 /\ Busy(t) /\ Waiting(t) /\ Asking(t)
                 /\ \/ AnswerComes(t) /\ type = task[t].call
                    \/ CloseOkComes(t) /\ type = "Channel.CloseOk"
                    \/ RefusalComes(t) /\ type = "Channel.Close"
           \/ Working /\ type = "Channel.OpenOk"
                 /\ \E t \in Task : Busy(t) /\ Reopens(t) /\ OpenOkComes
           \/ \E t \in Task : Closes(t) /\ type = "Connection.CloseOk"
                  /\ channel0 = "closing" /\ Comes(<<Frame("Connection.CloseOk", 0)>>)
<1>1. CASE Over
  <2>1. inbox \in Seq(InFrame) /\ inbox # <<>> /\ Head(inbox).type = type
    BY InvariantIs DEF Invariant, WireOK, Takes
  <2>2. 1 \in DOMAIN inbox /\ Head(inbox) = inbox[1]
    <3> HIDE DEF InFrame
    <3> QED BY <2>1
  <2> QED BY <1>1, <2>1, <2>2 DEF Over
<1>2. ASSUME NEW f, Comes(<<f>>) PROVE type = f.type
  BY <1>2, TakesOne
<1>3. Comes(<<>>) => type = "Disconnected" /\ transport # "open"
  BY TakesLost
<1>4. \A frames : ~ Leaves(frames)
  BY TakesNothing
<1>5. CASE Working
  <2>1. CASE Resting
    BY <1>3, <1>5, <2>1 DEF Resting
  <2>2. ASSUME NEW t \in Task, Busy(t) PROVE
           \/ Comes(<<>>)
           \/ /\ Waiting(t) /\ Asking(t)
              /\ \/ AnswerComes(t) /\ type = task[t].call
                 \/ CloseOkComes(t) /\ type = "Channel.CloseOk"
                 \/ RefusalComes(t) /\ type = "Channel.Close"
           \/ type = "Channel.OpenOk" /\ Reopens(t) /\ OpenOkComes
    <3>1. AnswerComes(t) => type = task[t].call
      <4>1. AnswerComes(t) => type = Frame(task[t].call, channel).type
        BY <1>2 DEF AnswerComes
      <4> QED BY <4>1 DEF Frame
    <3>2. CloseOkComes(t) => type = "Channel.CloseOk"
      <4>1. CloseOkComes(t) => type = Frame("Channel.CloseOk", channel).type
        BY <1>2 DEF CloseOkComes
      <4> QED BY <4>1 DEF Frame
    <3>3. RefusalComes(t) => type = "Channel.Close"
      <4>1. RefusalComes(t) => \E code : type = ChannelClose(code).type
        BY <1>2 DEF RefusalComes
      <4> QED BY <4>1 DEF ChannelClose
    <3>4. OpenOkComes => type = "Channel.OpenOk"
      <4>1. OpenOkComes => type = Frame("Channel.OpenOk", channel).type
        BY <1>2 DEF OpenOkComes
      <4> QED BY <4>1 DEF Frame
    <3>5. Waiting(t) /\ Asking(t) =>
              AnswerComes(t) \/ CloseOkComes(t) \/ RefusalComes(t) \/ Comes(<<>>)
      BY <1>4 DEF Asking, RequestLeaves
    <3>6. Waiting(t) => Asking(t) \/ Comes(<<>>)
      BY <1>4 DEF Waiting, Answered, Refused
    <3>7. Reopens(t) => OpenOkComes \/ Comes(<<>>)
      BY <1>4 DEF Reopens, OpenLeaves
    <3>8. Raises(t) => Comes(<<>>)
      BY DEF Raises
    <3> QED BY <2>2, <3>1, <3>2, <3>3, <3>4, <3>5, <3>6, <3>7, <3>8 DEF Busy
  <2> QED BY <1>3, <1>5, <2>1, <2>2 DEF Working
<1>6. ASSUME NEW t \in Task, Closes(t)
      PROVE  /\ type = "Connection.CloseOk" /\ channel0 = "closing"
             /\ Comes(<<Frame("Connection.CloseOk", 0)>>)
  <2>1. channel0 = "closing" /\ Comes(<<Frame("Connection.CloseOk", 0)>>)
    BY <1>3, <1>4, <1>6 DEF Closes
  <2>2. type = Frame("Connection.CloseOk", 0).type
    BY <1>2, <2>1
  <2> QED BY <2>1, <2>2 DEF Frame
<1> QED BY <1>1, <1>5, <1>6 DEF Invariant, OInv, Phases

\* The frame that comes is taken, and one is written.
LEMMA TakesAndWrites ==
    ASSUME NEW f, Comes(<<f>>), NEW type, Takes(type), NEW g, Write(<<g>>),
           transport' = transport
    PROVE  IF transport = "open" THEN Leaves(<<g>>)' ELSE Comes(<<>>)'
<1>1. /\ inbox = IF transport = "open" THEN <<f>> ELSE Append(<<f>>, Lost)
      /\ outbox = <<>> /\ inbox' = Tail(inbox)
  BY DEF Comes, Takes
<1>2. Tail(inbox) = IF transport = "open" THEN <<>> ELSE <<Lost>>
  <2>1. Append(<<f>>, Lost) = <<f, Lost>> /\ Tail(<<f, Lost>>) = <<Lost>>
    BY PairsAre
  <2> QED BY <1>1, <2>1, ShortSequences
<1>3. Append(<<>>, Lost) = <<Lost>> /\ <<>> \o <<g>> = <<g>>
  BY ShortSequences
<1> QED BY <1>1, <1>2, <1>3 DEF Comes, Leaves, Write

\* A step that no task takes.
LEMMA NobodyMoves ==
    ASSUME Invariant, UNCHANGED flow
    PROVE  /\ \A u \in Task : Stays(u) \/ GoesOn(u) \/ EndsRight(u)
           /\ \A u : Stays(u)
           /\ OnlyOne <=> OnlyOne'
           /\ \A u \in Task : Calm(u) <=> Calm(u)'
<1>1. task' = task
  BY DEF flow
<1> QED BY <1>1 DEF Stays, OnlyOne, Calm

\* What the client waits for comes, and the task that waits is told.
LEMMA OkIsPending ==
    ASSUME Invariant, Working, NEW t \in Task, Busy(t), Waiting(t), Asking(t),
           Receives(Ok(task[t].call))
    PROVE  LET m == task[t].call IN
           /\ channel0' = channel0 /\ manager'.exception = None
           /\ manager'.state = Ok(m) /\ manager'.waits = manager.waits
           /\ SM!Pending(manager)' = {<<Ok(m), t>>}
<1> DEFINE m == task[t].call
<1>1. m \in Callable /\ manager \in Managers /\ manager.exception = None
  BY BusyIsNotCalm, TasksAre, InvariantIs DEF Calm, Invariant, Working
<1>2. /\ manager.state = Sent(m) /\ SM!Pending(manager) = {}
      /\ manager.waits = {Ok(m), "CHANNEL_CLOSE_RECEIVED"} \X {t}
  BY DEF Asking, Waiting
<1>3. /\ Ok(m) \in ClientState /\ Ok(m) # manager.state
      /\ Ok(m) \in ClientTransitions[manager.state] /\ Ok(m) # "CHANNEL_CLOSE_RECEIVED"
  BY <1>1, <1>2, CallStates, AnswersGo
<1>4. /\ ~ SM!Refuses(manager, Ok(m), None)
      /\ Enter(manager, Ok(m)).state = Ok(m) /\ Enter(manager, Ok(m)).exception = None
      /\ Enter(manager, Ok(m)).waits = manager.waits
      /\ SM!Pending(Enter(manager, Ok(m)))
             = SM!Pending(manager) \cup {e \in manager.waits : e[1] = Ok(m)}
  BY <1>1, <1>3, EnterIs
<1>5. {e \in manager.waits : e[1] = Ok(m)} = {<<Ok(m), t>>}
  BY <1>2, <1>3
<1> QED BY <1>2, <1>4, <1>5 DEF Receives

LEMMA ReceiveOkIsRight ==
    ASSUME Invariant, ReceiveOk
    PROVE  OInv'
<1>1. PICK m \in Requests :
         /\ Takes(m) /\ Receives(Ok(m)) /\ UNCHANGED flow
         /\ UNCHANGED <<channel, channelOpen, lastError, transport, outbox, broker>>
  BY DEF ReceiveOk
<1>2. m \notin {"Channel.Close", "Channel.CloseOk", "Channel.OpenOk", "Connection.CloseOk",
                "Disconnected"}
  BY <1>1, FrameNames
<1>3. Working /\ \E t \in Task :
          Busy(t) /\ Waiting(t) /\ Asking(t) /\ AnswerComes(t) /\ m = task[t].call
  BY <1>1, <1>2, FrameTaken
<1>4. PICK t \in Task :
          Busy(t) /\ Waiting(t) /\ Asking(t) /\ AnswerComes(t) /\ m = task[t].call
  BY <1>3
<1>5. /\ channel0' = channel0 /\ manager'.exception = None
      /\ manager'.state = Ok(m) /\ manager'.waits = manager.waits
      /\ SM!Pending(manager)' = {<<Ok(m), t>>}
  BY <1>1, <1>3, <1>4, OkIsPending
<1>6. /\ \A u \in Task : Stays(u) \/ GoesOn(u) \/ EndsRight(u)
      /\ Stays(t) /\ \A u \in Task : Calm(u) <=> Calm(u)'
  BY <1>1, NobodyMoves
<1>7. Comes(<<>>)'
  <2>1. PICK f : f = Frame(task[t].call, channel)
    OBVIOUS
  <2>2. Comes(<<f>>)
    BY <1>4, <2>1 DEF AnswerComes
  <2> QED BY <1>1, <2>2, TakesOne
<1>8. Answered(t)'
  <2>1. task[t].call # "close" /\ Said(t, "answered") /\ BrokerHas(channel, FALSE)
        /\ channelOpen /\ lastError = None
    BY <1>4 DEF AnswerComes, Asking
  <2>2. Said(t, "answered")' /\ BrokerHas(channel, FALSE)'
    BY <1>1, <1>6, <2>1 DEF Said, BrokerHas, Stays
  <2>3. task'[t] = task[t]
    BY <1>6 DEF Stays
  <2> QED BY <1>1, <1>4, <1>5, <1>7, <2>1, <2>2, <2>3 DEF Answered
<1>9. Busy(t)'
  BY <1>4, <1>5, <1>6, <1>8 DEF Busy, Waiting, Stays
<1>10. Phases'
  BY <1>1, <1>3, <1>5, <1>9 DEF Phases, Working
<1> QED BY <1>1, <1>6, <1>10, TheRestStays

LEMMA ReceiveChannelCloseOkIsRight ==
    ASSUME Invariant, ReceiveChannelCloseOk
    PROVE  OInv'
<1>1. /\ Takes("Channel.CloseOk") /\ Receives("CHANNEL_CLOSEOK_RECEIVED") /\ UNCHANGED flow
      /\ channelOpen' = FALSE
      /\ UNCHANGED <<channel, lastError, transport, outbox, broker>>
  BY DEF ReceiveChannelCloseOk
<1>2. \A t \in Task : Busy(t) => task[t].call \in Callable
  BY BusyIsNotCalm, TasksAre DEF Calm
<1>3. Working /\ \E t \in Task : Busy(t) /\ Waiting(t) /\ Asking(t) /\ CloseOkComes(t)
  <2>1. \A t \in Task : AnswerComes(t) /\ Busy(t) => task[t].call # "Channel.CloseOk"
    BY <1>2, FrameNames DEF AnswerComes, Callable
  <2> QED BY <1>1, <2>1, FrameTaken
<1>4. PICK t \in Task : Busy(t) /\ Waiting(t) /\ Asking(t) /\ CloseOkComes(t)
  BY <1>3
<1>5. task[t].call = "close" /\ BrokerHas(0, FALSE) /\ lastError = None
  BY <1>4 DEF CloseOkComes, Asking
<1>6. /\ channel0' = channel0 /\ manager'.exception = None
      /\ manager'.state = Ok(task[t].call) /\ manager'.waits = manager.waits
      /\ SM!Pending(manager)' = {<<Ok(task[t].call), t>>}
  <2>1. Receives(Ok(task[t].call))
    BY <1>1, <1>5, CloseStates
  <2> QED BY <1>3, <1>4, <2>1, OkIsPending
<1>7. /\ \A u \in Task : Stays(u) \/ GoesOn(u) \/ EndsRight(u)
      /\ Stays(t) /\ \A u \in Task : Calm(u) <=> Calm(u)'
  BY <1>1, NobodyMoves
<1>8. Comes(<<>>)'
  <2>1. PICK f : f = Frame("Channel.CloseOk", channel)
    OBVIOUS
  <2>2. Comes(<<f>>)
    BY <1>4, <2>1 DEF CloseOkComes
  <2> QED BY <1>1, <2>2, TakesOne
<1>9. Answered(t)'
  <2>1. BrokerHas(0, FALSE)' /\ task'[t] = task[t]
    BY <1>1, <1>5, <1>7 DEF BrokerHas, Stays
  <2> QED BY <1>1, <1>5, <1>6, <1>8, <2>1 DEF Answered
<1>10. Busy(t)'
  BY <1>4, <1>6, <1>7, <1>9 DEF Busy, Waiting, Stays
<1>11. Phases'
  BY <1>1, <1>3, <1>6, <1>10 DEF Phases, Working
<1> QED BY <1>1, <1>7, <1>11, TheRestStays

\* A Channel.Close that comes refuses the request of the task that waits.
LEMMA RefusalTaken ==
    ASSUME Invariant, Takes("Channel.Close")
    PROVE  Working /\ \E t \in Task : Busy(t) /\ Waiting(t) /\ Asking(t) /\ RefusalComes(t)
<1>1. \A t \in Task : Busy(t) => task[t].call \in Callable
  BY BusyIsNotCalm, TasksAre DEF Calm
<1>2. \A t \in Task : AnswerComes(t) /\ Busy(t) => task[t].call # "Channel.Close"
  BY <1>1, FrameNames DEF AnswerComes, Callable
<1> QED BY <1>2, FrameTaken

LEMMA RefusalIsPending ==
    ASSUME Invariant, Working, NEW t \in Task, Busy(t), Waiting(t), Asking(t),
           CanBeRefused(task[t].call)
    PROVE  LET n == Enter(Enter(manager, "CHANNEL_CLOSE_RECEIVED"), "CHANNEL_CLOSEOK_SENT") IN
           /\ ~ SM!Refuses(manager, "CHANNEL_CLOSE_RECEIVED", None)
           /\ n.exception = None /\ n.state = "CHANNEL_CLOSEOK_SENT"
           /\ n.waits = manager.waits
           /\ SM!Pending(n) = {<<"CHANNEL_CLOSE_RECEIVED", t>>}
<1> DEFINE m == task[t].call
           first == Enter(manager, "CHANNEL_CLOSE_RECEIVED")
<1>1. m \in Callable /\ manager \in Managers /\ manager.exception = None
  BY BusyIsNotCalm, TasksAre, InvariantIs DEF Calm, Invariant, Working
<1>2. /\ manager.state = Sent(m) /\ SM!Pending(manager) = {}
      /\ manager.waits = {Ok(m), "CHANNEL_CLOSE_RECEIVED"} \X {t}
  BY DEF Asking, Waiting
<1>3. /\ Ok(m) \notin {"CHANNEL_CLOSE_RECEIVED", "CHANNEL_CLOSEOK_SENT"}
      /\ manager.state # "CHANNEL_CLOSE_RECEIVED"
      /\ "CHANNEL_CLOSE_RECEIVED" \in ClientTransitions[manager.state]
  BY <1>1, <1>2, CallStates DEF CanBeRefused, OkStates
<1>4. "CHANNEL_CLOSE_RECEIVED" \in ClientState /\ "CHANNEL_CLOSEOK_SENT" \in ClientState
  BY StatesAre
<1>5. /\ ~ SM!Refuses(manager, "CHANNEL_CLOSE_RECEIVED", None)
      /\ first \in Managers /\ first.state = "CHANNEL_CLOSE_RECEIVED"
      /\ first.exception = None /\ first.waits = manager.waits
      /\ SM!Pending(first) = SM!Pending(manager)
             \cup {e \in manager.waits : e[1] = "CHANNEL_CLOSE_RECEIVED"}
  BY <1>1, <1>3, <1>4, EnterIs
<1>6. /\ {e \in manager.waits : e[1] = "CHANNEL_CLOSE_RECEIVED"}
             = {<<"CHANNEL_CLOSE_RECEIVED", t>>}
      /\ {e \in manager.waits : e[1] = "CHANNEL_CLOSEOK_SENT"} = {}
  BY <1>2, <1>3
<1>7. SM!Pending(first) = {<<"CHANNEL_CLOSE_RECEIVED", t>>}
  BY <1>2, <1>5, <1>6
<1> HIDE DEF first
<1>8. "CHANNEL_CLOSEOK_SENT" # first.state
      /\ "CHANNEL_CLOSEOK_SENT" \in ClientTransitions[first.state]
  BY <1>5, StepsAre
<1>9. LET n == Enter(first, "CHANNEL_CLOSEOK_SENT") IN
      /\ n.state = "CHANNEL_CLOSEOK_SENT" /\ n.exception = None /\ n.waits = first.waits
      /\ SM!Pending(n) = SM!Pending(first)
             \cup {e \in first.waits : e[1] = "CHANNEL_CLOSEOK_SENT"}
  BY <1>4, <1>5, <1>8, EnterIs
<1> QED BY <1>5, <1>6, <1>7, <1>9 DEF first

LEMMA ReceiveChannelCloseIsRight ==
    ASSUME Invariant, ReceiveChannelClose
    PROVE  OInv'
<1>1. /\ Takes("Channel.Close") /\ UNCHANGED flow
      /\ manager' = Enter(Enter(manager, "CHANNEL_CLOSE_RECEIVED"), "CHANNEL_CLOSEOK_SENT")
      /\ Write(<<Frame("Channel.CloseOk", channel)>>)
      /\ lastError' = Head(inbox).code /\ channelOpen' = FALSE
      /\ UNCHANGED <<channel, channel0, transport, broker>>
  BY DEF ReceiveChannelClose
<1>2. Working
  BY <1>1, RefusalTaken
<1>3. PICK t \in Task : Busy(t) /\ Waiting(t) /\ Asking(t) /\ RefusalComes(t)
  BY <1>1, RefusalTaken
<1>4. /\ task[t].call # "close" /\ CanBeRefused(task[t].call) /\ OnlyOne
      /\ BrokerHas(channel, TRUE)
  BY <1>3 DEF RefusalComes
<1>5. PICK code \in Codes : Comes(<<ChannelClose(code)>>) /\ Said(t, code)
  BY <1>3 DEF RefusalComes
<1>6. /\ manager'.exception = None /\ manager'.state = "CHANNEL_CLOSEOK_SENT"
      /\ manager'.waits = manager.waits
      /\ SM!Pending(manager)' = {<<"CHANNEL_CLOSE_RECEIVED", t>>}
  BY <1>1, <1>2, <1>3, <1>4, RefusalIsPending
<1>7. /\ \A u \in Task : Stays(u) \/ GoesOn(u) \/ EndsRight(u)
      /\ Stays(t) /\ OnlyOne' /\ \A u \in Task : Calm(u) <=> Calm(u)'
  BY <1>1, <1>4, NobodyMoves
<1>8. PICK f : f = ChannelClose(code)
  OBVIOUS
<1>9. PICK g : g = Frame("Channel.CloseOk", channel)
  OBVIOUS
<1>10. Comes(<<f>>) /\ Write(<<g>>) /\ Frame("Channel.CloseOk", channel)' = g
  BY <1>1, <1>5, <1>8, <1>9 DEF Frame
<1>11. lastError' = code
  <2>1. Head(inbox) = f
    BY <1>1, <1>10, TakesOne
  <2> QED BY <1>1, <1>8, <2>1 DEF ChannelClose
<1>12. IF transport = "open" THEN Leaves(<<g>>)' ELSE Comes(<<>>)'
  BY <1>1, <1>10, TakesAndWrites
<1>13. Failing(t)'
  BY <1>1, <1>5, <1>7, <1>11 DEF Failing, Said, Stays
<1>14. Refused(t)'
  <2>1. transport = "open" => BrokerHas(channel, TRUE)'
    BY <1>1, <1>4 DEF BrokerHas
  <2>2. transport # "open" => BrokerHas(0, FALSE)'
    BY <1>1 DEF BrokerHas
  <2>3. task'[t].call # "close"
    BY <1>4, <1>7 DEF Stays
  <2>4. CASE transport = "open"
    <3>1. Leaves(<<Frame("Channel.CloseOk", channel)>>)'
      BY <1>10, <1>12, <2>4
    <3> QED BY <1>1, <1>6, <1>13, <2>1, <2>3, <2>4, <3>1 DEF Refused
  <2>5. CASE transport # "open"
    BY <1>1, <1>6, <1>12, <1>13, <2>2, <2>3, <2>5 DEF Refused
  <2> QED BY <2>4, <2>5
<1>15. Busy(t)'
  BY <1>3, <1>6, <1>7, <1>14 DEF Busy, Waiting, Stays
<1>16. Phases'
  BY <1>1, <1>2, <1>6, <1>15 DEF Phases, Working
<1> QED BY <1>1, <1>7, <1>16, TheRestStays

\* The broker closes no channel where the client could not let it.
LEMMA ReceiveChannelCloseRefusedIsNot ==
    ASSUME Invariant, ReceiveChannelCloseRefused
    PROVE  FALSE
<1>1. /\ Takes("Channel.Close")
      /\ SM!Refuses(manager, "CHANNEL_CLOSE_RECEIVED", None)
  BY DEF ReceiveChannelCloseRefused
<1>2. Working
  BY <1>1, RefusalTaken
<1>3. PICK t \in Task : Busy(t) /\ Waiting(t) /\ Asking(t) /\ RefusalComes(t)
  BY <1>1, RefusalTaken
<1> QED BY <1>1, <1>2, <1>3, RefusalIsPending DEF RefusalComes

\* The channel is open again.
LEMMA ReceiveChannelOpenOkIsRight ==
    ASSUME Invariant, ReceiveChannelOpenOk
    PROVE  OInv'
<1>1. /\ Takes("Channel.OpenOk") /\ channelOpen' = TRUE
      /\ Receives("CHANNEL_OPENOK_RECEIVED")
      /\ task' = [t \in Task |-> IF task[t].pc = "opening"
                                 THEN [task[t] EXCEPT !.pc = "raising"] ELSE task[t]]
      /\ UNCHANGED <<channel, lastError, transport, outbox, broker>>
  BY DEF ReceiveChannelOpenOk
<1>2. \A t \in Task : Busy(t) => task[t].call \in Callable
  BY BusyIsNotCalm, TasksAre DEF Calm
<1>3. Working /\ \E t \in Task : Busy(t) /\ Reopens(t) /\ OpenOkComes
  <2>1. \A t \in Task : AnswerComes(t) /\ Busy(t) => task[t].call # "Channel.OpenOk"
    BY <1>2, FrameNames DEF AnswerComes, Callable
  <2> QED BY <1>1, <2>1, FrameTaken
<1>4. PICK t \in Task : Busy(t) /\ Reopens(t) /\ OpenOkComes
  BY <1>3
<1>5. /\ task[t].pc = "opening" /\ Failing(t) /\ manager.state = "CHANNEL_OPEN_SENT"
      /\ manager.waits = {} /\ SM!Pending(manager) = {} /\ BrokerHas(channel, FALSE)
      /\ \A u \in Task : u # t => Calm(u)
  BY <1>4 DEF Reopens, NoEvents, OpenOkComes, Busy
<1>6. /\ channel0' = channel0 /\ manager'.state = "CHANNEL_OPENOK_RECEIVED"
      /\ manager'.exception = None /\ manager'.waits = {} /\ SM!Pending(manager)' = {}
  <2>1. manager \in Managers /\ manager.exception = None
    BY <1>3, InvariantIs DEF Invariant, Working
  <2>2. /\ "CHANNEL_OPENOK_RECEIVED" \in ClientState
        /\ "CHANNEL_OPENOK_RECEIVED" # manager.state
        /\ "CHANNEL_OPENOK_RECEIVED" \in ClientTransitions[manager.state]
    BY <1>5, StatesAre, StepsAre
  <2>3. LET n == Enter(manager, "CHANNEL_OPENOK_RECEIVED") IN
        /\ ~ SM!Refuses(manager, "CHANNEL_OPENOK_RECEIVED", None)
        /\ n.state = "CHANNEL_OPENOK_RECEIVED" /\ n.exception = None
        /\ n.waits = manager.waits
        /\ SM!Pending(n) = SM!Pending(manager)
               \cup {e \in manager.waits : e[1] = "CHANNEL_OPENOK_RECEIVED"}
    BY <2>1, <2>2, EnterIs
  <2> QED BY <1>1, <1>5, <2>3 DEF Receives
<1>7. /\ task'[t] = [task[t] EXCEPT !.pc = "raising"]
      /\ \A u \in Task : u # t => Stays(u)
  BY <1>1, <1>5 DEF Stays, Calm
<1>8. task'[t].pc = "raising" /\ task'[t].left = task[t].left
  BY <1>7, TasksAre DEF Records
<1>9. \A u \in Task : Stays(u) \/ GoesOn(u) \/ EndsRight(u)
  BY <1>7, <1>8 DEF GoesOn
<1>10. Failing(t)'
  <2>1. OnlyOne'
    BY <1>5, <1>9, OnlyOneStays DEF Failing
  <2> QED BY <1>1, <1>5, <1>8, <2>1 DEF Failing, Said
<1>11. Comes(<<>>)' /\ BrokerHas(channel, FALSE)'
  <2>1. PICK f : f = Frame("Channel.OpenOk", channel)
    OBVIOUS
  <2>2. Comes(<<f>>)
    BY <1>4, <2>1 DEF OpenOkComes
  <2>3. Comes(<<>>)'
    BY <1>1, <2>2, TakesOne
  <2> QED BY <1>1, <1>5, <2>3 DEF BrokerHas
<1>12. Raises(t)'
  BY <1>1, <1>6, <1>8, <1>10, <1>11 DEF Raises, NoEvents
<1>13. Busy(t)'
  BY <1>5, <1>7, <1>12 DEF Busy, Calm, Stays
<1>14. Phases'
  BY <1>1, <1>3, <1>6, <1>13 DEF Phases, Working
<1> QED BY <1>1, <1>9, <1>14, TheRestStays

\* The broker never closes the connection for an error.
LEMMA ReceiveConnectionCloseIsNot ==
    ASSUME Invariant, ReceiveConnectionClose
    PROVE  FALSE
<1>1. Takes("Connection.Close")
  BY DEF ReceiveConnectionClose
<1>2. \A t \in Task : Busy(t) => task[t].call \in Callable
  BY BusyIsNotCalm, TasksAre DEF Calm
<1>3. \A t \in Task : AnswerComes(t) /\ Busy(t) => task[t].call # "Connection.Close"
  BY <1>2, FrameNames DEF AnswerComes, Callable
<1> QED BY <1>1, <1>3, FrameTaken

\* A connection that is over stays so when a frame is taken.
LEMMA OverTakes ==
    ASSUME Invariant, Over, NEW type, Takes(type), UNCHANGED flow, manager' = manager,
           UNCHANGED <<lastError, transport, outbox, broker>>
    PROVE  Over'
<1>1. inbox # <<>> /\ inbox' = Tail(inbox)
  BY DEF Takes
<1>2. transport' # "open" /\ manager'.state \in Final /\ Harmless(manager')
  BY DEF Over, Final, Harmless
<1>3. /\ \A u : Stays(u)
      /\ OnlyOne => OnlyOne'
  BY NobodyMoves
<1>4. Stays(0) /\ \A u \in Task : u # 0 => Stays(u)
  BY <1>3
<1> QED BY <1>1, <1>2, <1>3, <1>4, OverStays

LEMMA ReceiveConnectionCloseOkIsRight ==
    ASSUME Invariant, ReceiveConnectionCloseOk
    PROVE  OInv'
<1>1. /\ Takes("Connection.CloseOk") /\ UNCHANGED flow /\ manager' = manager
      /\ channel0' = IF channel0 = "closing" THEN "closed" ELSE "failed"
      /\ UNCHANGED <<channel, channelOpen, lastError, transport, outbox, broker>>
  BY DEF ReceiveConnectionCloseOk
<1>2. /\ \A u \in Task : Stays(u) \/ GoesOn(u) \/ EndsRight(u)
      /\ \A u : Stays(u)
      /\ \A u \in Task : Calm(u) <=> Calm(u)'
  BY <1>1, NobodyMoves
<1>3. \A t \in Task : AnswerComes(t) /\ Busy(t) => task[t].call # "Connection.CloseOk"
  <2>1. \A t \in Task : Busy(t) => task[t].call \in Callable
    BY BusyIsNotCalm, TasksAre DEF Calm
  <2> QED BY <2>1, FrameNames DEF AnswerComes, Callable
<1>4. \/ Over
      \/ \E t \in Task : Closes(t) /\ channel0 = "closing"
             /\ Comes(<<Frame("Connection.CloseOk", 0)>>)
  BY <1>1, <1>3, FrameTaken
<1>5. ASSUME Over PROVE Phases'
  BY <1>1, <1>5, OverTakes DEF Phases
<1>6. ASSUME NEW t \in Task, Closes(t), channel0 = "closing",
             Comes(<<Frame("Connection.CloseOk", 0)>>)
      PROVE  Phases'
  <2>1. Comes(<<>>)'
    BY <1>1, <1>6, TakesOne
  <2>2. Stays(t) /\ \A u \in Task : u # t => Calm(u)'
    BY <1>2, <1>6 DEF Closes
  <2>3. Closes(t)'
    BY <1>1, <1>6, <2>1, <2>2 DEF Closes, Stays
  <2> QED BY <2>3 DEF Phases
<1>7. Phases'
  BY <1>4, <1>5, <1>6
<1> QED BY <1>1, <1>2, <1>7, TheRestStays

\* What has come is what the broker has said, and nobody waits for the loss.
LEMMA WorkingHeard ==
    ASSUME Invariant, Working, NEW t \in Task
    PROVE  HeardRight(t) /\ {e \in manager.waits : e[1] = "EXCEPTION"} = {}
<1>1. CASE Resting
  BY <1>1 DEF Resting, NoEvents, HeardRight, Calm
<1>2. ASSUME NEW u \in Task, Busy(u)
      PROVE  HeardRight(t) /\ {e \in manager.waits : e[1] = "EXCEPTION"} = {}
  <2>1. task[u].call \in Callable
    BY <1>2, BusyIsNotCalm, TasksAre DEF Calm
  <2>2. Ok(task[u].call) \notin {"EXCEPTION", "CHANNEL_CLOSE_RECEIVED"}
    BY <2>1, CallStates DEF OkStates
  <2>3. CASE Waiting(u)
    <3>1. {e \in manager.waits : e[1] = "EXCEPTION"} = {}
      BY <2>2, <2>3 DEF Waiting
    <3>2. u # t => HeardRight(t)
      BY <1>2 DEF Busy, Calm, HeardRight
    <3>3. u = t => HeardRight(t)
      <4>1. CASE Asking(u)
        BY <2>3, <4>1 DEF Asking, HeardRight, Waiting
      <4>2. CASE Answered(u)
        BY <2>2, <2>3, <4>2 DEF Answered, HeardRight, Waiting
      <4>3. CASE Refused(u)
        <5>1. lastError # None
          BY <4>3, ResultsAre DEF Refused, Failing
        <5> QED BY <2>2, <2>3, <4>3, <5>1 DEF Refused, HeardRight, Waiting
      <4> QED BY <2>3, <4>1, <4>2, <4>3 DEF Waiting
    <3> QED BY <3>1, <3>2, <3>3
  <2>4. CASE Reopens(u) \/ Raises(u)
    BY <1>2, <2>4 DEF Reopens, Raises, NoEvents, Busy, Calm, HeardRight, Failing
  <2> QED BY <1>2, <2>3, <2>4 DEF Busy
<1> QED BY <1>1, <1>2 DEF Working

LEMMA DisconnectedIsRight ==
    ASSUME Invariant, Disconnected
    PROVE  OInv'
<1>1. /\ Takes("Disconnected") /\ UNCHANGED flow
      /\ manager' = IF IsClosed THEN manager
                    ELSE SM!SetState(manager, "EXCEPTION", "ConnectionClosedException", STE)
      /\ UNCHANGED <<channel, channelOpen, lastError, transport, outbox, broker>>
  BY DEF Disconnected, session
<1>2. /\ \A u \in Task : Stays(u) \/ GoesOn(u) \/ EndsRight(u)
      /\ \A u : Stays(u)
      /\ OnlyOne <=> OnlyOne'
  BY <1>1, NobodyMoves
<1>3. \A t \in Task : AnswerComes(t) /\ Busy(t) => task[t].call # "Disconnected"
  <2>1. \A t \in Task : Busy(t) => task[t].call \in Callable
    BY BusyIsNotCalm, TasksAre DEF Calm
  <2> QED BY <2>1, FrameNames DEF AnswerComes, Callable
<1>4. Over \/ (Working /\ Comes(<<>>) /\ transport # "open")
  BY <1>1, <1>3, FrameTaken
<1>5. ASSUME Over PROVE Phases'
  <2>1. IsClosed
    BY <1>5 DEF Over, IsClosed, ClosedClientStates
  <2>2. manager' = manager
    BY <1>1, <2>1
  <2> QED BY <1>1, <1>5, <2>2, OverTakes DEF Phases
<1>6. ASSUME Working, Comes(<<>>), transport # "open" PROVE Phases'
  <2>1. ~ IsClosed /\ manager.state # "EXCEPTION" /\ manager \in Managers
    BY <1>6, WorkingIsOpen, InvariantIs DEF Invariant
  <2>2. manager' = SM!SetState(manager, "EXCEPTION", "ConnectionClosedException", STE)
    BY <1>1, <2>1
  <2>3. /\ manager'.state = "EXCEPTION"
        /\ SM!Pending(manager') = SM!Pending(manager)
               \cup {e \in manager.waits : e[1] = "EXCEPTION"}
    BY <2>1, <2>2, FailIs DEF Error
  <2>4. ASSUME NEW t \in Task PROVE HeardRight(t)'
    <3>1. HeardRight(t) /\ SM!Pending(manager') = SM!Pending(manager)
      BY <1>6, <2>3, WorkingHeard
    <3>2. /\ task'[t] = task[t] /\ lastError' = lastError
          /\ \A outcome : Said(t, outcome)' <=> Said(t, outcome)
      BY <1>1, <1>2 DEF Stays, Said
    <3> QED BY <1>2, <3>1, <3>2 DEF HeardRight
  <2>5. inbox' = <<>> /\ outbox' = <<>>
    BY <1>1, <1>6, TakesLost DEF Comes
  <2>6. Over'
    BY <1>1, <1>6, <2>3, <2>4, <2>5 DEF Over
  <2> QED BY <2>6 DEF Phases
<1>7. Phases'
  BY <1>4, <1>5, <1>6
<1> QED BY <1>1, <1>2, <1>7, TheRestStays

LEMMA ReceiveIsRight ==
    ASSUME Invariant, Receive
    PROVE  OInv'
BY ReceiveOkIsRight, ReceiveChannelCloseIsRight, ReceiveChannelCloseRefusedIsNot,
   ReceiveChannelCloseOkIsRight, ReceiveChannelOpenOkIsRight,
   ReceiveConnectionCloseIsNot, ReceiveConnectionCloseOkIsRight, DisconnectedIsRight
   DEF Receive

---------------------------------------------------------------------------
(* The broker and the network *)

Reads(frame) ==
    IF broker.channel # 0 /\ frame.channel = broker.channel
    THEN BrokerReadsOpenChannel(frame) ELSE BrokerReadsOther(frame)

\* Where the frame stands that the broker reads.
LEMMA FrameRead ==
    ASSUME Invariant, BrokerReads
    PROVE  /\ outbox' = Tail(outbox) /\ transport' = transport /\ transport = "open"
           /\ ~ broker.gone /\ Reads(Head(outbox))
           /\ UNCHANGED <<manager, flow, channel, channelOpen, lastError, channel0>>
           /\ \/ Working /\ \E t \in Task :
                    /\ Busy(t)
                    /\ \/ Waiting(t) /\ Asking(t) /\ RequestLeaves(t)
                       \/ Waiting(t) /\ Refused(t) /\ BrokerHas(channel, TRUE)
                          /\ Leaves(<<Frame("Channel.CloseOk", channel)>>)
                       \/ Reopens(t) /\ OpenLeaves
              \/ \E t \in Task :
                    Closes(t) /\ channel0 = "closing" /\ Leaves(<<Frame("Connection.Close", 0)>>)
<1>1. /\ outbox # <<>> /\ outbox' = Tail(outbox)
      /\ broker.gone \/ Reads(Head(outbox))
      /\ UNCHANGED <<manager, flow, channel, channelOpen, lastError, channel0>>
      /\ transport' = transport
  BY DEF BrokerReads, Reads, session
<1>2. \A frames : ~ Comes(frames)
  BY <1>1 DEF Comes
<1>3. ASSUME NEW t \in Task, Busy(t)
      PROVE  /\ transport = "open" /\ ~ broker.gone
             /\ \/ Waiting(t) /\ Asking(t) /\ RequestLeaves(t)
                \/ Waiting(t) /\ Refused(t) /\ BrokerHas(channel, TRUE)
                   /\ Leaves(<<Frame("Channel.CloseOk", channel)>>)
                \/ Reopens(t) /\ OpenLeaves
  <2>1. Waiting(t) => (Asking(t) /\ RequestLeaves(t)) \/ Refused(t)
    BY <1>2 DEF Waiting, Asking, AnswerComes, CloseOkComes, RefusalComes, Answered
  <2>2. Refused(t) => BrokerHas(channel, TRUE)
                      /\ Leaves(<<Frame("Channel.CloseOk", channel)>>)
    BY <1>2 DEF Refused
  <2>3. Reopens(t) => OpenLeaves
    BY <1>2 DEF Reopens, OpenOkComes
  <2>4. ~ Raises(t)
    BY <1>2 DEF Raises
  <2>5. RequestLeaves(t) => transport = "open" /\ ~ broker.gone
    BY DEF RequestLeaves, Leaves, BrokerHas
  <2>6. OpenLeaves => transport = "open" /\ ~ broker.gone
    BY DEF OpenLeaves, Leaves, BrokerHas
  <2>7. Refused(t) => transport = "open" /\ ~ broker.gone
    BY <2>2 DEF Leaves, BrokerHas
  <2> QED BY <1>3, <2>1, <2>2, <2>3, <2>4, <2>5, <2>6, <2>7 DEF Busy
<1>4. ASSUME NEW t \in Task, Closes(t)
      PROVE  /\ transport = "open" /\ ~ broker.gone /\ channel0 = "closing"
             /\ Leaves(<<Frame("Connection.Close", 0)>>)
  BY <1>2, <1>4 DEF Closes
<1>5. ~ Over /\ ~ Resting
  BY <1>1, <1>2 DEF Over, Resting
<1> QED BY <1>1, <1>3, <1>4, <1>5 DEF Invariant, OInv, Phases, Working

\* The broker answers the request, or refuses it.
LEMMA RequestRead ==
    ASSUME Invariant, Working, NEW t \in Task, Busy(t), RequestLeaves(t),
           outbox' = Tail(outbox), transport' = transport, ~ broker.gone,
           Reads(Head(outbox)), UNCHANGED <<flow, channel>>
    PROVE  /\ AnswerComes(t)' \/ CloseOkComes(t)' \/ RefusalComes(t)'
           /\ broker'.refusals = broker.refusals
           /\ broker.answers \subseteq broker'.answers
<1> DEFINE m == task[t].call
<1>0. PICK f : f = CallFrame(t, m)
  OBVIOUS
<1>1. /\ m \in Callable /\ channel # 0 /\ transport = "open"
      /\ broker.channel = channel /\ broker.closing = FALSE
  BY BusyIsNotCalm, TasksAre DEF Calm, Working, RequestLeaves, Leaves, BrokerHas
<1>2. /\ f.type = IF m = "close" THEN "Channel.Close" ELSE m
      /\ f.channel = channel /\ f.by = <<t, task[t].left>>
  BY <1>0 DEF CallFrame
<1>3. /\ Leaves(<<f>>) /\ Head(outbox) = f
      /\ \A reply : Sends(<<reply>>) => Comes(<<reply>>)'
  <2>1. Leaves(<<f>>)
    BY <1>0 DEF RequestLeaves
  <2> QED BY <2>1, ReadsOne
<1>4. BrokerReadsOpenChannel(f)
  BY <1>1, <1>2, <1>3 DEF Reads
<1>5. /\ task'[t] = task[t] /\ channel' = channel
      /\ OnlyOne <=> OnlyOne'
  BY DEF flow, OnlyOne
<1>6. broker \in [channel : Numbers, closing : BOOLEAN,
                  mode : {"normal", "tx", "confirm"}, gone : BOOLEAN,
                  unsolicited : 0..MaxUnsolicited, refusals : SUBSET Requests,
                  answers : SUBSET (Calls \X ({"answered"} \cup Codes))]
  BY InvariantIs DEF Invariant, WireOK
<1>7. CASE m = "close"
  <2>1. f.type = "Channel.Close" /\ f.type \notin Requests
    BY <1>2, <1>7, FrameNames
  <2>2. /\ Sends(<<Frame("Channel.CloseOk", f.channel)>>)
        /\ broker' = [broker EXCEPT !.channel = 0, !.closing = FALSE]
    BY <1>4, <2>1 DEF BrokerReadsOpenChannel, BrokerAccepts, BrokerRefuses
  <2>3. /\ broker'.channel = 0 /\ broker'.closing = FALSE /\ ~ broker'.gone
        /\ broker'.refusals = broker.refusals /\ broker'.answers = broker.answers
    BY <1>6, <2>2
  <2>4. PICK reply : reply = Frame("Channel.CloseOk", channel)
    OBVIOUS
  <2>5. Comes(<<reply>>)'
    BY <1>2, <1>3, <2>2, <2>4
  <2>6. Frame("Channel.CloseOk", channel)' = reply
    BY <2>4 DEF Frame
  <2>7. CloseOkComes(t)'
    BY <1>5, <1>7, <2>3, <2>5, <2>6 DEF CloseOkComes, BrokerHas
  <2> QED BY <2>3, <2>7
<1>8. CASE m # "close" /\ BrokerAccepts(f)
  <2> DEFINE mode0 == CASE f.type = "tx_select" -> "tx"
                        [] f.type = "confirm_select" -> "confirm"
                        [] OTHER -> Answers(f.by, "answered").mode
  <2>1. /\ Sends(<<Frame(f.type, f.channel)>>)
        /\ broker' = [Answers(f.by, "answered") EXCEPT !.mode = mode0]
    BY <1>8 DEF BrokerAccepts
  <2> HIDE DEF mode0
  <2>2. /\ broker'.channel = channel /\ broker'.closing = FALSE /\ ~ broker'.gone
        /\ broker'.refusals = broker.refusals
        /\ broker'.answers = broker.answers \cup {<<<<t, task[t].left>>, "answered">>}
    BY <1>1, <1>2, <1>6, <2>1 DEF Answers
  <2>3. PICK reply : reply = Frame(m, channel)
    OBVIOUS
  <2>4. Comes(<<reply>>)'
    BY <1>2, <1>3, <1>8, <2>1, <2>3
  <2>5. Frame(task[t].call, channel)' = reply
    BY <1>5, <2>3 DEF Frame
  <2>6. Said(t, "answered")'
    BY <1>5, <2>2 DEF Said
  <2>7. AnswerComes(t)'
    BY <1>5, <1>8, <2>2, <2>4, <2>5, <2>6 DEF AnswerComes, BrokerHas
  <2> QED BY <2>2, <2>7
<1>9. CASE m # "close" /\ BrokerRefuses(f)
  <2>1. m \in Requests /\ (MustRefuse(m) \/ m \in broker.refusals)
    BY <1>2, <1>9 DEF BrokerRefuses
  <2>2. m \in MayBeRefused(broker.refusals)
    BY <2>1 DEF MayBeRefused, MustRefuse
  <2>3. OnlyOne /\ CanBeRefused(m)
    BY <2>2 DEF Invariant, OInv, RefusalsFitTasks
  <2>4. PICK code \in Codes :
           /\ Sends(<<[type |-> "Channel.Close", channel |-> f.channel, code |-> code]>>)
           /\ broker' = [Answers(f.by, code) EXCEPT !.closing = TRUE]
    BY <1>9 DEF BrokerRefuses
  <2>5. /\ broker'.channel = channel /\ broker'.closing = TRUE /\ ~ broker'.gone
        /\ broker'.refusals = broker.refusals
        /\ broker'.answers = broker.answers \cup {<<<<t, task[t].left>>, code>>}
    BY <1>1, <1>2, <1>6, <2>4 DEF Answers
  <2>6. PICK reply : reply = ChannelClose(code)
    OBVIOUS
  <2>7. Comes(<<reply>>)'
    BY <1>2, <1>3, <2>4, <2>6 DEF ChannelClose
  <2>8. ChannelClose(code)' = reply
    BY <2>6 DEF ChannelClose
  <2>9. Said(t, code)'
    BY <1>5, <2>5 DEF Said
  <2>10. RefusalComes(t)'
    BY <1>5, <1>9, <2>3, <2>5, <2>7, <2>8, <2>9 DEF RefusalComes, BrokerHas
  <2> QED BY <2>5, <2>10
<1>10. m = "close" \/ BrokerAccepts(f) \/ BrokerRefuses(f)
  <2>1. m # "close" => f.type \notin {"Channel.Close", "Channel.CloseOk"}
    BY <1>1, <1>2, FrameNames DEF Callable
  <2> QED BY <1>1, <1>4, <2>1 DEF BrokerReadsOpenChannel
<1> QED BY <1>7, <1>8, <1>9, <1>10

\* The broker learns that the client knows that the channel is closed.
LEMMA CloseOkRead ==
    ASSUME Invariant, NEW f, Head(outbox) = f, f.type = "Channel.CloseOk", f.channel # 0,
           transport = "open", BrokerHas(f.channel, TRUE), Reads(Head(outbox))
    PROVE  /\ inbox' = inbox /\ BrokerHas(0, FALSE)'
           /\ broker'.refusals = broker.refusals /\ broker'.answers = broker.answers
<1>1. broker.channel = f.channel /\ broker.closing = TRUE /\ ~ broker.gone
  BY DEF BrokerHas
<1>2. BrokerReadsOpenChannel(f)
  BY <1>1 DEF Reads
<1>3. inbox' = inbox /\ broker' = [broker EXCEPT !.channel = 0, !.closing = FALSE]
  BY <1>1, <1>2 DEF BrokerReadsOpenChannel
<1>4. broker \in [channel : Numbers, closing : BOOLEAN,
                  mode : {"normal", "tx", "confirm"}, gone : BOOLEAN,
                  unsolicited : 0..MaxUnsolicited, refusals : SUBSET Requests,
                  answers : SUBSET (Calls \X ({"answered"} \cup Codes))]
  BY InvariantIs DEF Invariant, WireOK
<1>5. /\ broker'.channel = 0 /\ broker'.closing = FALSE /\ ~ broker'.gone
      /\ broker'.refusals = broker.refusals /\ broker'.answers = broker.answers
  BY <1>1, <1>3, <1>4
<1> QED BY <1>3, <1>5 DEF BrokerHas

\* The broker reads what opens another channel.
LEMMA OpenRead ==
    ASSUME Invariant, OpenLeaves, outbox' = Tail(outbox), transport' = transport,
           Reads(Head(outbox)), UNCHANGED <<flow, channel>>
    PROVE  /\ OpenLeaves' \/ OpenOkComes'
           /\ broker'.refusals = broker.refusals /\ broker'.answers = broker.answers
<1>0. PICK g : g = Frame("Channel.Open", channel)
  OBVIOUS
<1>1. Frame("Channel.Open", channel)' = g /\ g.type = "Channel.Open" /\ g.channel = channel
  BY <1>0 DEF Frame
<1>2. ASSUME NEW old \in 1..MaxChannels, BrokerHas(old, TRUE),
             Leaves(<<Frame("Channel.CloseOk", old), g>>)
      PROVE  /\ OpenLeaves'
             /\ broker'.refusals = broker.refusals /\ broker'.answers = broker.answers
  <2>1. PICK f : f = Frame("Channel.CloseOk", old)
    OBVIOUS
  <2>2. f.type = "Channel.CloseOk" /\ f.channel = old /\ old # 0 /\ transport = "open"
    BY <1>2, <2>1 DEF Frame, Leaves
  <2>3. Head(outbox) = f /\ (inbox' = inbox => Leaves(<<g>>)')
    BY <1>2, <2>1, ReadsFirst
  <2>4. /\ inbox' = inbox /\ BrokerHas(0, FALSE)'
        /\ broker'.refusals = broker.refusals /\ broker'.answers = broker.answers
    BY <1>2, <2>2, <2>3, CloseOkRead
  <2> QED BY <1>1, <2>3, <2>4 DEF OpenLeaves
<1>3. ASSUME Leaves(<<g>>), BrokerHas(0, FALSE)
      PROVE  /\ OpenOkComes'
             /\ broker'.refusals = broker.refusals /\ broker'.answers = broker.answers
  <2>1. /\ Head(outbox) = g /\ \A reply : Sends(<<reply>>) => Comes(<<reply>>)'
    BY <1>3, ReadsOne
  <2>2. broker.channel = 0 /\ broker.closing = FALSE /\ ~ broker.gone
    BY <1>3 DEF BrokerHas, Leaves
  <2>3. BrokerReadsOther(g)
    BY <2>1, <2>2 DEF Reads
  <2>4. /\ Sends(<<Frame("Channel.OpenOk", g.channel)>>)
        /\ broker' = [broker EXCEPT !.channel = g.channel, !.mode = "normal"]
    BY <1>1, <2>2, <2>3 DEF BrokerReadsOther
  <2>5. broker \in [channel : Numbers, closing : BOOLEAN,
                    mode : {"normal", "tx", "confirm"}, gone : BOOLEAN,
                    unsolicited : 0..MaxUnsolicited, refusals : SUBSET Requests,
                    answers : SUBSET (Calls \X ({"answered"} \cup Codes))]
    BY InvariantIs DEF Invariant, WireOK
  <2>6. /\ broker'.channel = channel /\ broker'.closing = FALSE /\ ~ broker'.gone
        /\ broker'.refusals = broker.refusals /\ broker'.answers = broker.answers
    BY <1>1, <2>2, <2>4, <2>5
  <2>7. PICK reply : reply = Frame("Channel.OpenOk", channel)
    OBVIOUS
  <2>8. Comes(<<reply>>)'
    BY <1>1, <2>1, <2>4, <2>7
  <2>9. Frame("Channel.OpenOk", channel)' = reply
    BY <2>7 DEF Frame
  <2> QED BY <2>6, <2>8, <2>9 DEF OpenOkComes, BrokerHas
<1> QED BY <1>0, <1>2, <1>3 DEF OpenLeaves

\* The broker reads Connection.Close.
LEMMA ConnectionCloseRead ==
    ASSUME Invariant, Leaves(<<Frame("Connection.Close", 0)>>), outbox' = Tail(outbox),
           transport' = transport, Reads(Head(outbox))
    PROVE  /\ Comes(<<Frame("Connection.CloseOk", 0)>>)'
           /\ broker'.refusals = broker.refusals /\ broker'.answers = broker.answers
<1>0. PICK f : f = Frame("Connection.Close", 0)
  OBVIOUS
<1>1. f.type = "Connection.Close" /\ f.channel = 0 /\ Leaves(<<f>>)
  BY <1>0 DEF Frame
<1>2. Head(outbox) = f /\ \A reply : Sends(<<reply>>) => Comes(<<reply>>)'
  BY <1>1, ReadsOne
<1>3. BrokerReadsOther(f)
  BY <1>1, <1>2 DEF Reads
<1>4. Sends(<<Frame("Connection.CloseOk", 0)>>) /\ broker' = [broker EXCEPT !.gone = TRUE]
  BY <1>1, <1>3 DEF BrokerReadsOther
<1>5. broker \in [channel : Numbers, closing : BOOLEAN,
                  mode : {"normal", "tx", "confirm"}, gone : BOOLEAN,
                  unsolicited : 0..MaxUnsolicited, refusals : SUBSET Requests,
                  answers : SUBSET (Calls \X ({"answered"} \cup Codes))]
  BY InvariantIs DEF Invariant, WireOK
<1> QED BY <1>2, <1>4, <1>5

LEMMA BrokerReadsIsRight ==
    ASSUME Invariant, BrokerReads
    PROVE  OInv'
<1>1. /\ outbox' = Tail(outbox) /\ transport' = transport /\ transport = "open"
      /\ ~ broker.gone /\ Reads(Head(outbox))
      /\ UNCHANGED flow /\ UNCHANGED <<flow, channel>> /\ manager' = manager
      /\ UNCHANGED <<channel, channelOpen, lastError, channel0>>
  BY FrameRead
<1>2. /\ \A u \in Task : Stays(u) \/ GoesOn(u) \/ EndsRight(u)
      /\ \A u : Stays(u)
      /\ OnlyOne <=> OnlyOne'
      /\ \A u \in Task : Calm(u) <=> Calm(u)'
  BY <1>1, NobodyMoves
<1> DEFINE Told == broker'.refusals = broker.refusals /\ broker.answers \subseteq broker'.answers
<1>3. ASSUME Told, Phases' PROVE OInv'
  BY <1>1, <1>2, <1>3, TheRestStays
<1>4. /\ manager'.state = manager.state /\ manager'.exception = manager.exception
      /\ manager'.waits = manager.waits /\ SM!Pending(manager)' = SM!Pending(manager)
  BY <1>1
<1>5. ASSUME Working, NEW t \in Task, Busy(t)', Told PROVE OInv'
  <2>1. Working'
    BY <1>1, <1>5 DEF Working
  <2> QED BY <1>3, <1>5, <2>1 DEF Phases
<1>6. ASSUME Working, NEW t \in Task, Busy(t), Waiting(t), Asking(t), RequestLeaves(t)
      PROVE  OInv'
  <2>1. /\ AnswerComes(t)' \/ CloseOkComes(t)' \/ RefusalComes(t)'
        /\ Told
    BY <1>1, <1>6, RequestRead
  <2>2. task'[t] = task[t]
    BY <1>2 DEF Stays
  <2>3. Asking(t)'
    BY <1>1, <1>4, <1>6, <2>1, <2>2 DEF Asking
  <2>4. Waiting(t)'
    BY <1>4, <1>6, <2>2, <2>3 DEF Waiting
  <2>5. Busy(t)'
    BY <1>2, <1>6, <2>4 DEF Busy
  <2> QED BY <1>5, <1>6, <2>1, <2>5
<1>7. ASSUME NEW t \in Task, Failing(t), Told PROVE Failing(t)'
  BY <1>1, <1>2, <1>7 DEF Failing, Said, Stays
<1>8. ASSUME Working, NEW t \in Task, Busy(t), Waiting(t), Refused(t), BrokerHas(channel, TRUE),
             Leaves(<<Frame("Channel.CloseOk", channel)>>)
      PROVE  OInv'
  <2>1. PICK f : f = Frame("Channel.CloseOk", channel)
    OBVIOUS
  <2>2. f.type = "Channel.CloseOk" /\ f.channel = channel /\ channel # 0 /\ Leaves(<<f>>)
    BY <1>8, <2>1 DEF Frame, Working
  <2>3. Head(outbox) = f /\ (inbox' = inbox => Comes(<<>>)')
    BY <1>1, <2>2, ReadsOne
  <2>4. /\ inbox' = inbox /\ BrokerHas(0, FALSE)'
        /\ broker'.refusals = broker.refusals /\ broker'.answers = broker.answers
    BY <1>1, <1>8, <2>2, <2>3, CloseOkRead
  <2>5. Told /\ task'[t] = task[t]
    BY <1>2, <2>4 DEF Stays
  <2>6. Refused(t)'
    BY <1>1, <1>4, <1>7, <1>8, <2>3, <2>4, <2>5 DEF Refused
  <2>7. Waiting(t)'
    BY <1>4, <1>8, <2>5, <2>6 DEF Waiting
  <2>8. Busy(t)'
    BY <1>2, <1>8, <2>7 DEF Busy
  <2> QED BY <1>5, <1>8, <2>5, <2>8
<1>9. ASSUME Working, NEW t \in Task, Busy(t), Reopens(t), OpenLeaves
      PROVE  OInv'
  <2>1. /\ OpenLeaves' \/ OpenOkComes'
        /\ broker'.refusals = broker.refusals /\ broker'.answers = broker.answers
    BY <1>1, <1>9, OpenRead
  <2>2. Told /\ task'[t] = task[t]
    BY <1>2, <2>1 DEF Stays
  <2>3. Reopens(t)'
    BY <1>1, <1>4, <1>7, <1>9, <2>1, <2>2 DEF Reopens, NoEvents
  <2>4. Busy(t)'
    BY <1>2, <1>9, <2>3 DEF Busy
  <2> QED BY <1>5, <1>9, <2>2, <2>4
<1>10. ASSUME NEW t \in Task, Closes(t), channel0 = "closing",
              Leaves(<<Frame("Connection.Close", 0)>>)
       PROVE  OInv'
  <2>1. /\ Comes(<<Frame("Connection.CloseOk", 0)>>)'
        /\ broker'.refusals = broker.refusals /\ broker'.answers = broker.answers
    BY <1>1, <1>10, ConnectionCloseRead
  <2>2. task'[t] = task[t] /\ \A u \in Task : u # t => Calm(u)'
    BY <1>2, <1>10 DEF Stays, Closes
  <2>3. Closes(t)'
    BY <1>1, <1>4, <1>10, <2>1, <2>2 DEF Closes
  <2> QED BY <1>3, <2>1, <2>3 DEF Phases
<1> HIDE DEF Told
<1> QED BY <1>6, <1>8, <1>9, <1>10, FrameRead

\* The socket is lost while t waits: its exchange goes on with what has come.
LEMMA BusyLoses ==
    ASSUME Invariant, Working, NEW t \in Task, Busy(t), SocketLost
    PROVE  Busy(t)'
<1>1. /\ transport = "open" /\ transport' = "lost" /\ UNCHANGED flow /\ manager' = manager
      /\ UNCHANGED <<channel, channelOpen, lastError, channel0, broker>>
  BY DEF SocketLost
<1>2. /\ \A u : Stays(u)
      /\ OnlyOne <=> OnlyOne'
      /\ \A u \in Task : Calm(u) <=> Calm(u)'
  BY <1>1, NobodyMoves
<1>3. /\ task'[t] = task[t]
      /\ manager'.state = manager.state /\ manager'.exception = manager.exception
      /\ manager'.waits = manager.waits /\ SM!Pending(manager)' = SM!Pending(manager)
      /\ \A outcome : Said(t, outcome) <=> Said(t, outcome)'
  BY <1>1, <1>2 DEF Stays, Said
<1>4. inbox = <<>> => Comes(<<>>)'
  BY LosesNothing
<1>5. /\ Comes(<<>>) => inbox = <<>>
      /\ \A frames : Leaves(frames) => inbox = <<>>
  BY <1>1 DEF Comes, Leaves
<1>6. \A number, closing : BrokerHas(number, closing)'
  BY <1>1 DEF BrokerHas
<1>7. ASSUME Asking(t) PROVE Asking(t)'
  <2>1. RequestLeaves(t) => Comes(<<>>)'
    BY <1>4, <1>5 DEF RequestLeaves
  <2>2. AnswerComes(t) => AnswerComes(t)' \/ Comes(<<>>)'
    <3>1. PICK f : f = Frame(task[t].call, channel)
      OBVIOUS
    <3>2. Frame(task[t].call, channel)' = f
      BY <1>1, <1>3, <3>1 DEF Frame
    <3>3. Comes(<<f>>) => Comes(<<f>>)' \/ Comes(<<>>)'
      BY LosesOne
    <3> QED BY <1>3, <1>6, <3>1, <3>2, <3>3 DEF AnswerComes
  <2>3. CloseOkComes(t) => CloseOkComes(t)' \/ Comes(<<>>)'
    <3>1. PICK f : f = Frame("Channel.CloseOk", channel)
      OBVIOUS
    <3>2. Frame("Channel.CloseOk", channel)' = f
      BY <1>1, <3>1 DEF Frame
    <3>3. Comes(<<f>>) => Comes(<<f>>)' \/ Comes(<<>>)'
      BY LosesOne
    <3> QED BY <1>3, <1>6, <3>1, <3>2, <3>3 DEF CloseOkComes
  <2>4. ASSUME RefusalComes(t) PROVE RefusalComes(t)' \/ Comes(<<>>)'
    <3>1. PICK code \in Codes : Comes(<<ChannelClose(code)>>) /\ Said(t, code)
      BY <2>4 DEF RefusalComes
    <3>2. PICK f : f = ChannelClose(code)
      OBVIOUS
    <3>3. ChannelClose(code)' = f
      BY <1>1, <3>2 DEF ChannelClose
    <3>4. Comes(<<f>>)' \/ Comes(<<>>)'
      BY <3>1, <3>2, LosesOne
    <3> QED BY <1>2, <1>3, <1>6, <2>4, <3>1, <3>3, <3>4 DEF RefusalComes
  <2> QED BY <1>1, <1>3, <1>4, <1>5, <1>7, <2>1, <2>2, <2>3, <2>4 DEF Asking
<1>8. Answered(t) => Answered(t)'
  BY <1>1, <1>3, <1>4, <1>5, <1>6 DEF Answered
<1>9. Failing(t) => Failing(t)'
  BY <1>1, <1>2, <1>3 DEF Failing
<1>10. Refused(t) => Refused(t)'
  BY <1>1, <1>3, <1>4, <1>5, <1>6, <1>9 DEF Refused
<1>11. Reopens(t) => Reopens(t)'
  <2>1. OpenLeaves => Comes(<<>>)'
    BY <1>4, <1>5 DEF OpenLeaves
  <2>2. OpenOkComes => OpenOkComes' \/ Comes(<<>>)'
    <3>1. PICK f : f = Frame("Channel.OpenOk", channel)
      OBVIOUS
    <3>2. Frame("Channel.OpenOk", channel)' = f
      BY <1>1, <3>1 DEF Frame
    <3>3. Comes(<<f>>) => Comes(<<f>>)' \/ Comes(<<>>)'
      BY LosesOne
    <3> QED BY <1>6, <3>1, <3>2, <3>3 DEF OpenOkComes
  <2> QED BY <1>1, <1>3, <1>9, <2>1, <2>2 DEF Reopens, NoEvents
<1>12. Raises(t) => Raises(t)'
  BY <1>1, <1>3, <1>4, <1>5, <1>6, <1>9 DEF Raises, NoEvents
<1> QED BY <1>2, <1>3, <1>7, <1>8, <1>10, <1>11, <1>12 DEF Busy, Waiting

LEMMA SocketLostIsRight ==
    ASSUME Invariant, SocketLost
    PROVE  OInv'
<1>1. /\ transport = "open" /\ transport' = "lost" /\ outbox' = <<>>
      /\ UNCHANGED flow /\ manager' = manager
      /\ UNCHANGED <<channel, channelOpen, lastError, channel0, broker>>
  BY DEF SocketLost
<1>2. /\ \A u \in Task : Stays(u) \/ GoesOn(u) \/ EndsRight(u)
      /\ \A u : Stays(u)
      /\ \A u \in Task : Calm(u) <=> Calm(u)'
  BY <1>1, NobodyMoves
<1>3. inbox = <<>> => Comes(<<>>)'
  BY LosesNothing
<1>4. ASSUME Working PROVE Phases'
  <2>1. Resting => Resting'
    <3>1. Resting => Comes(<<>>)'
      BY <1>1, <1>3 DEF Resting, Comes
    <3> QED BY <1>1, <1>2, <3>1 DEF Resting, NoEvents, BrokerHas
  <2>2. \A t \in Task : Busy(t) => Busy(t)'
    BY <1>4, BusyLoses
  <2> QED BY <1>1, <1>4, <2>1, <2>2 DEF Phases, Working
<1>5. ASSUME NEW t \in Task, Closes(t) PROVE Phases'
  <2>1. PICK f : f = Frame("Connection.CloseOk", 0)
    OBVIOUS
  <2>2. inbox = <<>> \/ Comes(<<f>>)
    BY <1>1, <1>5, <2>1 DEF Closes, Leaves, Comes
  <2>3. Comes(<<>>)' \/ Comes(<<f>>)'
    BY <1>3, <2>2, LosesOne
  <2>4. /\ manager'.state \in Final /\ transport' # "open"
        /\ \A u \in Task : task'[u].pc \notin {"waiting", "raising"}
    BY <1>1, <1>2, <1>5 DEF Closes, Final, Calm, Stays
  <2>5. ASSUME Comes(<<f>>)' PROVE Over'
    <3>1. inbox' = Append(<<f>>, Lost)
      BY <1>1, <2>5 DEF Comes
    <3>2. \A i \in DOMAIN inbox' : inbox'[i] \in {f, Lost}
      <4>1. Append(<<f>>, Lost) = <<f, Lost>>
        BY PairsAre
      <4> QED BY <3>1, <4>1
    <3>3. \A i \in DOMAIN inbox' : inbox'[i].type \in {"Connection.CloseOk", "Disconnected"}
      BY <2>1, <3>2 DEF Lost, Frame
    <3>4. \A u \in Task : HeardRight(u)'
      BY <2>4 DEF HeardRight
    <3> QED BY <1>1, <2>4, <3>3, <3>4 DEF Over, Final
  <2> QED BY <2>3, <2>4, <2>5, EndsOver DEF Phases
<1>6. Phases'
  BY <1>1, <1>4, <1>5 DEF Invariant, OInv, Phases, Over
<1> QED BY <1>1, <1>2, <1>6, TheRestStays

LEMMA BrokerClosesChannelIsNot ==
    ASSUME Invariant, MaxUnsolicited = 0, BrokerClosesChannel
    PROVE  FALSE
<1>1. broker.unsolicited \in 0..MaxUnsolicited /\ broker.unsolicited < MaxUnsolicited
  BY InvariantIs DEF Invariant, WireOK, BrokerClosesChannel
<1> QED BY <1>1

---------------------------------------------------------------------------
(* The theorems *)

LEMMA InitIsRight == Orderly /\ Init => OInv
<1> SUFFICES ASSUME Orderly, Init
             PROVE  OInv
  OBVIOUS
<1>1. PICK w \in Workloads :
         /\ task = [t \in Task |-> [pc |-> "idle", call |-> None, result |-> None,
                                    left |-> w.calls[t]]]
         /\ broker = [channel |-> 1, closing |-> FALSE, mode |-> "normal", gone |-> FALSE,
                      unsolicited |-> 0, refusals |-> w.refusals, answers |-> {}]
  BY DEF Init
<1>2. \A t \in Task : task[t].pc = "idle" /\ task[t].result = None /\ task[t].left = w.calls[t]
  BY <1>1
<1>3. broker.refusals = w.refusals
  BY <1>1
<1>4. RefusalsFitTasks
  BY <1>2, <1>3 DEF Orderly, RefusalsFitTasks, OnlyOne
<1>5. None \notin {"answered", "closed"} \cup Codes
  BY ClientRpcAssumption
<1>6. AnswersMatch /\ ClosedIsGone
  BY <1>2, <1>5 DEF AnswersMatch, ClosedIsGone, Ended
<1>7. /\ manager.state = "CHANNEL_OPENOK_RECEIVED" /\ manager.exception = None
      /\ manager.waits = {} /\ SM!Pending(manager) = {}
  BY DEF Init, SM!NewManager, SM!Pending
<1>8. Resting
  BY <1>1, <1>2, <1>7 DEF Init, Resting, NoEvents, Calm, RestStates, Comes, BrokerHas
<1>9. Phases
  BY <1>7, <1>8 DEF Init, Phases, Working
<1> QED BY <1>4, <1>6, <1>9 DEF OInv

LEMMA NextIsRight == Orderly /\ Invariant /\ Next => OInv'
<1> SUFFICES ASSUME Orderly, Invariant, Next
             PROVE  OInv'
  OBVIOUS
<1>1. ASSUME NEW t \in Task, Proceeds(t) PROVE OInv'
  BY <1>1, AcquireIsRight, CloseLockedIsRight, PollAnsweredIsRight,
     PollChannelClosedIsRight, PollRaisesIsRight, RaiseLastErrorIsRight,
     CloseEndsIsRight, CloseFailsIsRight DEF Proceeds, Poll
<1>2. MaxUnsolicited = 0
  BY DEF Orderly
<1> QED BY <1>1, <1>2, CallIsRight, CallFailsIsRight, CloseIsRight, RunReadyIsRight,
           ReceiveIsRight, BrokerReadsIsRight, BrokerClosesChannelIsNot,
           SocketLostIsRight DEF Next

LEMMA StutterIsRight == Invariant /\ UNCHANGED vars => OInv'
<1> SUFFICES ASSUME Invariant, UNCHANGED vars
             PROVE  OInv'
  OBVIOUS
<1>1. UNCHANGED flow /\ WiresStay /\ manager' = manager
  BY DEF vars, flow, session, WiresStay
<1>2. /\ \A u \in Task : Stays(u) \/ GoesOn(u) \/ EndsRight(u)
      /\ \A u : Stays(u)
      /\ OnlyOne <=> OnlyOne'
  BY <1>1, NobodyMoves
<1>3. Phases'
  BY <1>1, <1>2, ManagerSame, PhasesStay DEF Invariant, OInv
<1> QED BY <1>1, <1>2, <1>3, TheRestStays DEF WiresStay

LEMMA OrderlyInvariance == Orderly => (Spec => []Invariant)
<1> SUFFICES ASSUME Orderly
             PROVE  Spec => []Invariant
  OBVIOUS
<1>1. Init => Invariant
  BY InitInvariant, InitIsRight DEF Invariant
<1>2. Invariant /\ [Next]_vars => Invariant'
  BY NextInvariant, StutterInvariant, NextIsRight, StutterIsRight DEF Invariant
<1> QED BY <1>1, <1>2, PTL DEF Spec

\* Where all requests are answered, or one task makes them, no call takes the
\* answer or the error of another.  (_send_rpc, _post_wait_on_state, _get_last_error)
THEOREM CallsAreAnsweredRight == Orderly => (Spec => []AnswersMatch)
<1>1. Invariant => AnswersMatch
  BY DEF Invariant, OInv
<1> QED BY <1>1, OrderlyInvariance, PTL

\* There, the client goes on with its connection, whatever is refused, until it is
\* closed or the socket is lost.  (_set_state, _on_frame, _open_channel)
THEOREM ClientStaysUsable == Orderly => (Spec => []StaysUsable)
<1>1. Invariant => StaysUsable
  <2>1. SUFFICES ASSUME Invariant, transport = "open",
                        \A t \in Task : task[t].call # "close"
                 PROVE  ~ IsClosed
    BY DEF StaysUsable
  <2>2. Working
    BY <2>1 DEF Invariant, OInv, Phases, Closes, Over
  <2> QED BY <2>1, <2>2, WorkingIsOpen
<1> QED BY <1>1, OrderlyInvariance, PTL

\* There, the socket is gone when close() returns.  (close, _close)
THEOREM ClosingDisconnects == Orderly => (Spec => []CloseDisconnects)
<1>1. Invariant => CloseDisconnects
  BY DEF Invariant, OInv, ClosedIsGone, CloseDisconnects
<1> QED BY <1>1, OrderlyInvariance, PTL
=============================================================================
