------------------------- MODULE Connection_proofs -------------------------
(***************************************************************************)
(* Proofs about Connection, for any number of connections and of calls:    *)
(* the client has the newest connection or none, a connect() that failed   *)
(* can be tried again, and who comes back from a connection made in place  *)
(* of another has a channel there.                                         *)
(***************************************************************************)
EXTENDS Connection, FrameSequences, Integers, TLAPS

---------------------------------------------------------------------------
(* The types *)

Managers == SM!ManagerWith(Error)
Calls == {"connect", "declare", "close"}
Pcs == {"idle", "dialing", "opening", "openingChannel", "channelOpened", "reconnect",
        "waiting", "closing"}
Apps == [pc : Pcs, call : Calls \cup {None}, again : BOOLEAN,
         result : Error \cup {"done", "skipped", "closed", None}, left : Int,
         stale : BOOLEAN]
OutTypes == {"Header", "Channel.Open", "Declare", "Channel.Close", "Close", "CloseOk"}
InTypes == {"OpenOk", "CloseOk", "Disconnected"} \cup Replies \cup DOMAIN Sets
Phases == {"new", "open", "channel", "closing", "gone"}
Channel0States == {"new", "opening", "open", "closing", "closed", "remoteClosed", "failed"}
Sessions ==
    [channel0 : Channel0States, exception : Error \cup {None}, opened : BOOLEAN,
     timer : BOOLEAN, heard : BOOLEAN,
     socket : {"dialing", "made", "silent", "lost", "closed"}, inbox : Seq(InTypes),
     outbox : Seq(OutTypes), broker : Phases]
Clients == [channel0 : {None} \cup Nat, transport : {None} \cup Nat,
            channelOpen : BOOLEAN, lastError : Error \cup {None}]

TypesOK ==
    /\ manager \in Managers /\ app \in Apps /\ client \in Clients
    /\ session \in Seq(Sessions)

---------------------------------------------------------------------------
(* The connection the client has *)

\* The client has the Channel0 of the newest session or none, and with it the
\* transport of the same session or none, but while the session is dialed; in a
\* call that waits for the broker it has both.
Current ==
    /\ app.pc # "idle" => app.call \in Calls
    /\ client.channel0 # None => client.channel0 = Newest /\ Newest # 0
    /\ client.transport # None => client.transport \in 1..Newest
    /\ app.pc # "dialing" => client.transport \in {None, client.channel0}
    /\ app.pc = "dialing" => client.channel0 = Newest /\ Newest # 0
    /\ app.pc = "dialing" /\ app.call # "connect" => client.transport = None
    /\ app.pc \in {"opening", "openingChannel", "channelOpened", "waiting", "closing"} =>
          client.channel0 = Newest /\ client.transport = Newest /\ Newest # 0

\* Only a session that was answered has a timer.
Timed ==
    /\ \A n \in DOMAIN session :
          session[n].timer => session[n].opened \/ session[n].channel0 # "opening"
    /\ app.pc = "dialing" => ~ session[Newest].timer

\* Nothing but a call touches a client that connect() has reset.
Retries ==
    (app.pc = "idle" /\ app.call = "connect" /\ app.result \in ResetErrors) =>
        client.channel0 = None /\ manager.state = "CLOSED"

---------------------------------------------------------------------------
(* The channel of the newest connection *)

Asked(n) == Includes(session[n].outbox, "Channel.Open")
Granted(n) == Includes(session[n].inbox, "Channel_OpenOk")

\* At most one request to open the channel, or one answer to it, is on its way on
\* the session n, and the broker that has answered has opened the channel.
AskedOnce(n) ==
    /\ ~ (Asked(n) /\ Granted(n))
    /\ Once(session[n].outbox, "Channel.Open") /\ Once(session[n].inbox, "Channel_OpenOk")
    /\ Granted(n) => session[n].broker \notin {"new", "open"}

\* A client that has not connected with _channel_open still set has no channel on
\* its way but the one that it waits for, on the newest session.
OpensInTurn ==
    /\ app.pc \in {"dialing", "opening", "openingChannel"} => ~ client.channelOpen
    /\ \A n \in DOMAIN session : AskedOnce(n)
    /\ \A n \in DOMAIN session :
          Asked(n) \/ Granted(n) => n = Newest /\ app.pc = "openingChannel"
    /\ app.pc = "channelOpened" => session[Newest].broker \notin {"new", "open"}

\* Nobody closes the channel while it is opened.
NoneCloses ==
    app.pc \in {"dialing", "opening", "openingChannel", "channelOpened"} =>
        ~ Includes(session[Newest].outbox, "Channel.Close")

IInv ==
    /\ TypesOK /\ Current /\ Timed /\ Retries
    /\ NoneCloses
    /\ ~ app.stale => OpensInTurn

---------------------------------------------------------------------------
(* The state manager *)

LEMMA StatesAre ==
    /\ {"EXCEPTION", "CLOSING", "CLOSED", "DISCONNECTED", "CONNECTING", "CONNECTED", "OPENED",
        "OPENING_CHANNEL", "CHANNEL_OPEN_SENT", "CHANNEL_OPENOK_RECEIVED",
        "CHANNEL_CLOSE_SENT", "CHANNEL_CLOSE_RECEIVED", "CHANNEL_CLOSEOK_RECEIVED",
        "QUEUE_DECLARE_SENT", "QUEUE_DECLAREOK_RECEIVED"} \subseteq ClientState
    /\ DOMAIN Sets = {"Channel_OpenOk", "Channel_CloseOk", "DeclareOk"}
    /\ \A type \in DOMAIN Sets : Sets[type] \in ClientState
BY DEF ClientState, Steps, Strict, Refusable, IdleWith, IdleAfter, Sets

\* A closed client may connect, and nothing else.
LEMMA ClosedConnects == ClientTransitions["CLOSED"] = {"CONNECTING"}
<1>1. "CLOSED" \in DOMAIN Steps /\ Steps["CLOSED"] = {"CONNECTING"}
  BY DEF Steps
<1>2. "CLOSED" \notin DOMAIN Strict \cup DOMAIN Refusable \cup DOMAIN IdleWith \cup IdleAfter
  BY DEF Strict, Refusable, IdleWith, IdleAfter
<1>3. ClientTransitions["CLOSED"] =
          CASE "CLOSED" \in DOMAIN Steps     -> Steps["CLOSED"]
            [] "CLOSED" \in DOMAIN Strict    -> Strict["CLOSED"]
            [] "CLOSED" \in DOMAIN Refusable ->
                   Refusable["CLOSED"] \cup {"CHANNEL_CLOSE_RECEIVED"}
            [] "CLOSED" \in DOMAIN IdleWith  -> IdleWith["CLOSED"] \cup Idle
            [] "CLOSED" \in IdleAfter        -> Idle
  <2>1. "CLOSED" \in ClientState
    BY <1>1 DEF ClientState
  <2> QED BY <2>1 DEF ClientTransitions
<1> DEFINE D1 == DOMAIN Steps
           D2 == DOMAIN Strict \cup DOMAIN Refusable \cup DOMAIN IdleWith \cup IdleAfter
<1> QED BY <1>1, <1>2, <1>3

Events == SUBSET (ClientState \X {"app"})

LEMMA ManagersAre ==
    Managers = [state : ClientState, exception : Error \cup {None}, waits : Events,
                ready : Seq(Events), fired : Events]
BY DEF Managers, SM!ManagerWith, SM!Event, Events

LEMMA SetStateKeepsType ==
    ASSUME NEW m \in Managers, NEW value \in ClientState, NEW exc \in Error \cup {None}
    PROVE  /\ SM!SetState(m, value, exc, STE) \in Managers
           /\ SM!SetState(m, value, exc, STE).state =
                  IF SM!Refuses(m, value, exc) THEN m.state ELSE value
           /\ Enter(m, value) \in Managers
           /\ SM!Refuse(m, STE) \in Managers
<1>1. SM!Refuse(m, STE) \in Managers /\ SM!Refuse(m, STE).state = m.state
  BY ManagersAre DEF SM!Refuse, Error
<1>2. SM!Scheduled(m, value) \in Events
  BY ManagersAre DEF SM!Scheduled, Events
<1>3. (IF SM!Scheduled(m, value) = {} THEN m.ready
       ELSE Append(m.ready, SM!Scheduled(m, value))) \in Seq(Events)
  BY <1>2, ManagersAre
<1>4. ASSUME NEW e \in Error \cup {None}
      PROVE  SM!Enter(m, value, e) \in Managers /\ SM!Enter(m, value, e).state = value
  BY <1>3, ManagersAre DEF SM!Enter
<1> QED BY <1>1, <1>4 DEF SM!SetState, SM!Refuses, SM!Unchanged, Enter

LEMMA RegisterKeepsType ==
    ASSUME NEW m \in Managers, NEW S \in SUBSET ClientState
    PROVE  SM!Register(m, "app", S) \in Managers
BY ManagersAre DEF SM!Register, Events

LEMMA RunCallbacksKeepsType ==
    ASSUME NEW m \in Managers, m.ready # <<>>
    PROVE  SM!RunCallbacks(m) \in Managers /\ SM!RunCallbacks(m).state = m.state
<1>1. m.ready \in Seq(Events) /\ m.fired \in Events
  BY ManagersAre
<1>2. Head(m.ready) \in Events /\ Tail(m.ready) \in Seq(Events)
  <2> HIDE DEF Events
  <2> QED BY <1>1
<1>3. m.fired \cup Head(m.ready) \in Events
  BY <1>1, <1>2 DEF Events
<1> QED BY <1>2, <1>3, ManagersAre DEF SM!RunCallbacks

LEMMA AfterPollKeepsType ==
    ASSUME NEW m \in Managers
    PROVE  SM!AfterPoll(m, "app") \in Managers /\ SM!AfterPoll(m, "app").state = m.state
<1>1. m.ready \in Seq(Events) /\ m.fired \in Events /\ m.waits \in Events
  BY ManagersAre
<1>2. [i \in DOMAIN m.ready |-> m.ready[i] \ SM!EventsOf("app")] \in Seq(Events)
  <2>1. /\ Len(m.ready) \in Nat /\ DOMAIN m.ready = 1..Len(m.ready)
        /\ \A i \in DOMAIN m.ready : m.ready[i] \in Events
    BY <1>1
  <2>2. \A i \in DOMAIN m.ready : m.ready[i] \ SM!EventsOf("app") \in Events
    BY <2>1 DEF Events
  <2> HIDE DEF Events
  <2> QED BY <2>1, <2>2
<1>3. /\ m.fired \ SM!EventsOf("app") \in Events
      /\ m.waits \ SM!EventsOf("app") \in Events
  BY <1>1 DEF Events
<1>4. SM!ClearWaits(m, "app") \in Managers /\ SM!ClearWaits(m, "app").state = m.state
  BY <1>2, <1>3, ManagersAre DEF SM!ClearWaits
<1> QED BY <1>4, ManagersAre DEF SM!AfterPoll

LEMMA ResetManagerIs ==
    ASSUME NEW m \in Managers
    PROVE  /\ ResetManager(m) \in Managers /\ ResetManager(m).state = "CLOSED"
           /\ ~ Refuses(ResetManager(m), "CONNECTING")
<1>1. ResetManager(m) \in Managers /\ ResetManager(m).state = "CLOSED"
  BY ManagersAre, StatesAre DEF ResetManager
<1> QED BY <1>1, ClosedConnects DEF Refuses, SM!Refuses

---------------------------------------------------------------------------
(* The sessions *)

\* A session goes from s to r, and no channel is asked for or granted, or closed by
\* the broker.  Unless closes, nobody asks to close it either.
Passive(s, r, closes) ==
    /\ (s.timer => s.opened \/ s.channel0 # "opening")
           => (r.timer => r.opened \/ r.channel0 # "opening")
    /\ s.broker \notin {"new", "open"} => r.broker \notin {"new", "open"}
    /\ Includes(r.outbox, "Channel.Open") => Includes(s.outbox, "Channel.Open")
    /\ Once(s.outbox, "Channel.Open") => Once(r.outbox, "Channel.Open")
    /\ Includes(r.inbox, "Channel_OpenOk") => Includes(s.inbox, "Channel_OpenOk")
    /\ Once(s.inbox, "Channel_OpenOk") => Once(r.inbox, "Channel_OpenOk")
    /\ closes \/ (Includes(r.outbox, "Channel.Close") => Includes(s.outbox, "Channel.Close"))

Passes(a, b, closes) ==
    /\ b \in Seq(Sessions) /\ Len(b) = Len(a)
    /\ \A n \in DOMAIN a : Passive(a[n], b[n], closes)

LEMMA PassesSame ==
    ASSUME NEW a \in Seq(Sessions), NEW closes \in BOOLEAN
    PROVE  Passes(a, a, closes)
BY DEF Passes, Passive

LEMMA PassesOn ==
    ASSUME NEW a \in Seq(Sessions), NEW b, NEW c, NEW closes \in BOOLEAN,
           Passes(a, b, closes), Passes(b, c, closes)
    PROVE  Passes(a, c, closes)
<1>1. DOMAIN a = 1..Len(a) /\ DOMAIN b = 1..Len(b) /\ Len(b) = Len(a)
  BY DEF Passes
<1>2. \A n \in DOMAIN a : Passive(a[n], b[n], closes) /\ Passive(b[n], c[n], closes)
  BY <1>1 DEF Passes
<1>3. \A n \in DOMAIN a : Passive(a[n], c[n], closes)
  BY <1>2 DEF Passive
<1> QED BY <1>3 DEF Passes

LEMMA PassesOne ==
    ASSUME NEW a \in Seq(Sessions), NEW n \in DOMAIN a, NEW r \in Sessions,
           NEW closes \in BOOLEAN, Passive(a[n], r, closes)
    PROVE  Passes(a, [a EXCEPT ![n] = r], closes)
<1> DEFINE b == [a EXCEPT ![n] = r]
<1>1. b \in Seq(Sessions) /\ Len(b) = Len(a)
  <2> HIDE DEF Sessions
  <2> QED OBVIOUS
<1>2. ASSUME NEW k \in DOMAIN a PROVE Passive(a[k], b[k], closes)
  <2>1. b[k] = IF k = n THEN r ELSE a[k]
    OBVIOUS
  <2>2. Passive(a[k], a[k], closes)
    BY DEF Passive
  <2> QED BY <2>1, <2>2
<1> HIDE DEF b
<1> QED BY <1>1, <1>2 DEF Passes, b

\* A session of which only the Channel0 and the socket change.
LEMMA PassesAside ==
    ASSUME NEW a \in Seq(Sessions), NEW n \in DOMAIN a, NEW r \in Sessions,
           NEW closes \in BOOLEAN,
           r.inbox = a[n].inbox, r.outbox = a[n].outbox, r.broker = a[n].broker,
           (a[n].timer => a[n].opened \/ a[n].channel0 # "opening")
               => (r.timer => r.opened \/ r.channel0 # "opening")
    PROVE  Passes(a, [a EXCEPT ![n] = r], closes)
<1>1. Passive(a[n], r, closes)
  BY DEF Passive
<1> QED BY <1>1, PassesOne

LEMMA RaisedPasses ==
    ASSUME NEW a \in Seq(Sessions), a # <<>>, NEW exc \in Error, NEW closes \in BOOLEAN
    PROVE  /\ Passes(a, Raised(a, exc), closes)
           /\ \A n \in DOMAIN a : /\ Raised(a, exc)[n].timer = a[n].timer
                                  /\ Raised(a, exc)[n].opened = a[n].opened
<1> DEFINE n == Len(a)
           r == [a[n] EXCEPT !.channel0 = "failed", !.exception = exc]
<1>1. n \in DOMAIN a /\ a[n] \in Sessions
  OBVIOUS
<1>2. /\ r \in Sessions /\ r.channel0 = "failed" /\ r.inbox = a[n].inbox
      /\ r.outbox = a[n].outbox /\ r.broker = a[n].broker
      /\ r.timer = a[n].timer /\ r.opened = a[n].opened
  BY <1>1 DEF Sessions, Channel0States
<1>3. Raised(a, exc) = [a EXCEPT ![n] = r]
  BY <1>1 DEF Raised
<1> HIDE DEF n, r
<1> QED BY <1>1, <1>2, <1>3, PassesAside

\* What may end in the handler of the loop.
LEMMA OrRaised ==
    ASSUME NEW a \in Seq(Sessions), a # <<>>, NEW b, NEW c, NEW closes \in BOOLEAN,
           Passes(a, b, closes), c = b \/ (\E exc \in Error : c = Raised(b, exc))
    PROVE  /\ Passes(a, c, closes)
           /\ (\A n \in DOMAIN a : b[n].timer => a[n].timer)
                  => \A n \in DOMAIN a : c[n].timer => a[n].timer
<1>1. CASE c = b
  BY <1>1
<1>2. ASSUME NEW exc \in Error, c = Raised(b, exc)
      PROVE  /\ Passes(a, c, closes) /\ \A n \in DOMAIN a : c[n].timer = b[n].timer
  <2>1. b \in Seq(Sessions) /\ Len(b) = Len(a)
    BY DEF Passes
  <2>2. b # <<>> /\ DOMAIN b = DOMAIN a
    <3> HIDE DEF Sessions
    <3> QED BY <2>1
  <2>3. Passes(b, c, closes) /\ \A n \in DOMAIN b : c[n].timer = b[n].timer
    BY <1>2, <2>1, <2>2, RaisedPasses
  <2> QED BY <2>2, <2>3, PassesOn
<1> QED BY <1>1, <1>2

\* What is written, when it does not ask for the channel.
LEMMA WrittenPasses ==
    ASSUME NEW a \in Seq(Sessions), NEW n \in DOMAIN a, NEW closes \in BOOLEAN,
           NEW type \in OutTypes \ {"Channel.Open"}, closes \/ type # "Channel.Close"
    PROVE  /\ Passes(a, Written(a, n, type), closes)
           /\ \A k \in DOMAIN a :
                 /\ Written(a, n, type)[k].timer = a[k].timer
                 /\ Written(a, n, type)[k].opened = a[k].opened
                 /\ Written(a, n, type)[k].channel0 = a[k].channel0
                 /\ Written(a, n, type)[k].exception = a[k].exception
                 /\ Written(a, n, type)[k].socket = a[k].socket
<1> DEFINE r == [a[n] EXCEPT !.outbox = Append(@, type)]
<1>1. a[n] \in Sessions /\ a[n].outbox \in Seq(OutTypes) /\ type \in OutTypes
  <2>1. a[n] \in Sessions
    OBVIOUS
  <2> QED BY <2>1 DEF Sessions
<1>2. /\ Append(a[n].outbox, type) \in Seq(OutTypes)
      /\ \A other : Includes(Append(a[n].outbox, type), other) <=>
                        Includes(a[n].outbox, other) \/ type = other
      /\ Once(a[n].outbox, "Channel.Open") => Once(Append(a[n].outbox, type), "Channel.Open")
  BY <1>1, AppendIncludes
<1>3. /\ r \in Sessions /\ r.inbox = a[n].inbox /\ r.broker = a[n].broker
      /\ r.outbox = Append(a[n].outbox, type)
      /\ r.timer = a[n].timer /\ r.opened = a[n].opened /\ r.channel0 = a[n].channel0
      /\ r.exception = a[n].exception /\ r.socket = a[n].socket
  BY <1>1, <1>2 DEF Sessions
<1>4. Written(a, n, type) = a \/ Written(a, n, type) = [a EXCEPT ![n] = r]
  BY DEF Written
<1> HIDE DEF r
<1>5. Passive(a[n], r, closes)
  BY <1>2, <1>3 DEF Passive
<1> QED BY <1>3, <1>4, <1>5, PassesOne, PassesSame

---------------------------------------------------------------------------
(* The steps that leave the opening of the channel alone *)

Openings == {"dialing", "opening", "openingChannel", "channelOpened"}

\* Such a step ends an opening, goes on with it, or is none of its steps.
Proceeding ==
    /\ app'.pc \in {"dialing", "openingChannel", "channelOpened"} => app'.pc = app.pc
    /\ app'.pc = "opening" => app.pc \in {"opening", "dialing"}
    /\ app.pc = "openingChannel" => app'.pc = "openingChannel"
    /\ app'.stale = app.stale
    /\ client'.channelOpen => client.channelOpen

LEMMA PassesRest ==
    ASSUME IInv, NEW closes \in BOOLEAN, Passes(session, session', closes),
           closes => app'.pc \notin Openings,
           app'.pc \in Openings => app.pc \in Openings,
           app'.pc = "dialing" =>
               /\ app.pc = "dialing"
               /\ \A n \in DOMAIN session : session'[n].timer => session[n].timer
    PROVE  /\ Timed' /\ NoneCloses'
           /\ session' \in Seq(Sessions) /\ DOMAIN session' = DOMAIN session
           /\ Newest' = Newest /\ (Newest # 0 => Newest \in DOMAIN session)
           /\ app.pc \in Openings => Newest \in DOMAIN session
           /\ \A n \in DOMAIN session : Passive(session[n], session'[n], closes)
<1>1. session \in Seq(Sessions) /\ Current /\ Timed /\ NoneCloses
  BY DEF IInv, TypesOK
<1>2. /\ session' \in Seq(Sessions) /\ Len(session') = Len(session)
      /\ DOMAIN session' = DOMAIN session /\ DOMAIN session = 1..Len(session)
      /\ Len(session) \in Nat
      /\ \A n \in DOMAIN session : Passive(session[n], session'[n], closes)
  BY <1>1 DEF Passes
<1>3. Newest # 0 => Newest \in DOMAIN session
  BY <1>2 DEF Newest
<1>4. Newest' = Newest
  BY <1>2 DEF Newest
<1>5. app.pc \in Openings => Newest # 0
  BY <1>1 DEF Current, Openings
<1>6. Timed'
  BY <1>1, <1>2, <1>3, <1>4, <1>5 DEF Timed, Passive, Openings
<1>7. NoneCloses'
  BY <1>1, <1>2, <1>3, <1>4, <1>5 DEF NoneCloses, Passive, Openings
<1> QED BY <1>2, <1>3, <1>4, <1>5, <1>6, <1>7

LEMMA PassesKeeps ==
    ASSUME IInv, NEW closes \in BOOLEAN, Passes(session, session', closes),
           manager' \in Managers, app' \in Apps, client' \in Clients, Current', Retries',
           Proceeding, closes => app'.pc \notin Openings,
           app'.pc = "dialing" =>
               \A n \in DOMAIN session : session'[n].timer => session[n].timer
    PROVE  IInv'
<1>1. /\ Timed' /\ NoneCloses'
      /\ session' \in Seq(Sessions) /\ DOMAIN session' = DOMAIN session
      /\ Newest' = Newest /\ (app.pc \in Openings => Newest \in DOMAIN session)
      /\ \A n \in DOMAIN session : Passive(session[n], session'[n], closes)
  BY PassesRest DEF Proceeding, Openings
<1>2. ASSUME ~ app'.stale PROVE OpensInTurn'
  <2>1. OpensInTurn
    BY <1>2 DEF IInv, Proceeding
  <2>2. ASSUME NEW n \in DOMAIN session'
        PROVE  /\ AskedOnce(n)' /\ (Asked(n)' => Asked(n)) /\ (Granted(n)' => Granted(n))
               /\ session[n].broker \notin {"new", "open"} =>
                     session'[n].broker \notin {"new", "open"}
    BY <1>1, <2>1, <2>2 DEF OpensInTurn, AskedOnce, Asked, Granted, Passive
  <2>3. app'.pc = "channelOpened" => session'[Newest].broker \notin {"new", "open"}
    BY <1>1, <2>1, <2>2 DEF OpensInTurn, Proceeding, Openings
  <2> QED BY <1>1, <2>1, <2>2, <2>3 DEF OpensInTurn, Proceeding
<1> QED BY <1>1, <1>2 DEF IInv, TypesOK

\* A call that ends.
LEMMA EndsIs ==
    ASSUME app \in Apps, NEW call \in Calls, NEW m \in Managers, NEW c \in Clients,
           NEW result \in Error \cup {"done", "skipped", "closed"},
           Ends(call, result, m, c)
    PROVE  /\ app' \in Apps /\ manager' \in Managers /\ client' \in Clients
           /\ app'.pc = "idle" /\ app'.call = call /\ app'.result = result
           /\ app'.stale = app.stale
           /\ \/ /\ call = "connect" /\ result \in ResetErrors
                 /\ client'.channel0 = None /\ client'.transport = None
                 /\ ~ client'.channelOpen /\ manager'.state = "CLOSED"
              \/ /\ ~ (call = "connect" /\ result \in ResetErrors)
                 /\ client' = c /\ manager' = m
<1>1. app' = [app EXCEPT !.pc = "idle", !.call = call, !.again = FALSE, !.result = result,
                         !.left = app.left - 1]
  BY DEF Ends
<1>2. /\ app' \in Apps /\ app'.pc = "idle" /\ app'.call = call /\ app'.result = result
      /\ app'.stale = app.stale
  <2>1. app.left - 1 \in Int
    BY DEF Apps
  <2> QED BY <1>1, <2>1 DEF Apps, Pcs
<1>3. CASE call = "connect" /\ result \in ResetErrors
  <2>1. client' = ResetClient(c) /\ manager' = ResetManager(m)
    BY <1>3 DEF Ends
  <2>2. /\ client' \in Clients /\ client'.channel0 = None /\ client'.transport = None
        /\ client'.channelOpen = FALSE
    BY <2>1 DEF ResetClient, Clients
  <2> QED BY <1>2, <1>3, <2>1, <2>2, ResetManagerIs
<1>4. CASE ~ (call = "connect" /\ result \in ResetErrors)
  <2>1. client' = c /\ manager' = m
    BY <1>4 DEF Ends
  <2> QED BY <1>2, <1>4, <2>1
<1> QED BY <1>3, <1>4

LEMMA EndsKeeps ==
    ASSUME IInv, NEW call \in Calls, NEW m \in Managers, NEW c \in Clients,
           NEW result \in Error \cup {"done", "skipped", "closed"},
           Ends(call, result, m, c), NEW closes \in BOOLEAN,
           Passes(session, session', closes), app.pc # "openingChannel",
           c.channel0 \in {None, client.channel0}, c.channelOpen => client.channelOpen,
           \/ c.transport \in {None, c.channel0}
           \/ call = "connect" /\ result \in ResetErrors
    PROVE  IInv'
<1>1. app \in Apps /\ client \in Clients /\ session \in Seq(Sessions) /\ Current
  BY DEF IInv, TypesOK
<1>2. /\ app' \in Apps /\ manager' \in Managers /\ client' \in Clients
      /\ app'.pc = "idle" /\ app'.call = call /\ app'.result = result
      /\ app'.stale = app.stale
      /\ \/ /\ call = "connect" /\ result \in ResetErrors
            /\ client'.channel0 = None /\ client'.transport = None
            /\ ~ client'.channelOpen /\ manager'.state = "CLOSED"
         \/ /\ ~ (call = "connect" /\ result \in ResetErrors)
            /\ client' = c /\ manager' = m
  BY <1>1, EndsIs
<1>3. Newest' = Newest /\ Newest \in Nat
  BY <1>1 DEF Passes, Newest
<1>4. Retries'
  BY <1>2 DEF Retries
<1>5. Current'
  <2>1. c.transport \in {None} \cup Nat
    BY DEF Clients
  <2> QED BY <1>1, <1>2, <1>3, <2>1 DEF Current
<1>6. Proceeding
  BY <1>2 DEF Proceeding
<1>7. app'.pc \notin Openings
  BY <1>2 DEF Openings
<1> QED BY <1>2, <1>4, <1>5, <1>6, <1>7, PassesKeeps DEF Openings

\* The application does not move, and the client is not reset.
LEMMA AsideKeeps ==
    ASSUME IInv, app' = app, manager' \in Managers, client' \in Clients,
           client'.channel0 = client.channel0, client'.transport = client.transport,
           client'.channelOpen => client.channelOpen,
           client.channel0 = None /\ manager.state = "CLOSED" => manager'.state = "CLOSED",
           Passes(session, session', FALSE),
           \A n \in DOMAIN session : session'[n].timer => session[n].timer
    PROVE  IInv'
<1>1. app \in Apps /\ Current /\ Retries
  BY DEF IInv, TypesOK
<1>2. Newest' = Newest
  BY DEF Passes, Newest
<1>3. Current' /\ Retries'
  BY <1>1, <1>2 DEF Current, Retries
<1>4. Proceeding
  BY DEF Proceeding
<1> QED BY <1>1, <1>3, <1>4, PassesKeeps

\* What the invariant says of the newest session, for the steps that act on it.
LEMMA InvariantIs ==
    ASSUME IInv
    PROVE  /\ manager \in Managers /\ app \in Apps /\ client \in Clients
           /\ session \in Seq(Sessions) /\ Newest \in Nat
           /\ manager.state \in ClientState /\ manager.exception \in Error \cup {None}
           /\ Newest # 0 => /\ Newest \in DOMAIN session /\ session[Newest] \in Sessions
                            /\ session # <<>>
           /\ app.pc \in Openings \cup {"waiting", "closing"} => Newest # 0
           /\ app.pc # "idle" => app.call \in Calls
<1>1. /\ manager \in Managers /\ app \in Apps /\ client \in Clients
      /\ session \in Seq(Sessions) /\ Current
  BY DEF IInv, TypesOK
<1>2. Newest \in Nat /\ (Newest # 0 => Newest \in DOMAIN session /\ session # <<>>)
  BY <1>1 DEF Newest
<1>3. Newest # 0 => session[Newest] \in Sessions
  BY <1>1, <1>2
<1> QED BY <1>1, <1>2, <1>3, ManagersAre DEF Current, Openings

LEMMA DialFailsKeeps ==
    ASSUME IInv, DialFails
    PROVE  IInv'
<1>1. /\ app.pc = "dialing" /\ session' = [session EXCEPT ![Newest].socket = "closed"]
  BY DEF DialFails
<1>2. PICK error \in DialErrors : Ends(app.call, error, manager, client)
  BY DEF DialFails
<1>3. /\ manager \in Managers /\ client \in Clients /\ session \in Seq(Sessions)
      /\ Newest \in DOMAIN session /\ session[Newest] \in Sessions /\ app.call \in Calls
  BY <1>1, InvariantIs DEF Openings
<1>4. Passes(session, session', FALSE)
  <2> DEFINE r == [session[Newest] EXCEPT !.socket = "closed"]
  <2>1. /\ r \in Sessions /\ r.inbox = session[Newest].inbox
        /\ r.outbox = session[Newest].outbox /\ r.broker = session[Newest].broker
        /\ r.timer = session[Newest].timer /\ r.opened = session[Newest].opened
        /\ r.channel0 = session[Newest].channel0
    BY <1>3 DEF Sessions
  <2>2. session' = [session EXCEPT ![Newest] = r]
    BY <1>1, <1>3
  <2> HIDE DEF r
  <2> QED BY <1>3, <2>1, <2>2, PassesAside
<1>5. /\ error \in Error /\ error \in ResetErrors
      /\ app.call # "connect" => client.transport = None
  BY <1>1, ConnectionAssumption DEF Error, ResetErrors, IInv, Current
<1> QED BY <1>1, <1>2, <1>3, <1>4, <1>5, EndsKeeps

LEMMA ConnectedKeeps ==
    ASSUME IInv, Connected
    PROVE  IInv'
<1>1. /\ app.pc = "dialing" /\ manager' = Enter(manager, "CONNECTED")
      /\ UNCHANGED <<client, app>>
  BY DEF Connected
<1>2. /\ manager \in Managers /\ client \in Clients /\ session \in Seq(Sessions)
      /\ Newest \in DOMAIN session /\ session[Newest] \in Sessions
  BY <1>1, InvariantIs DEF Openings
<1> DEFINE r == [session[Newest] EXCEPT !.socket = "made"]
           s == [session EXCEPT ![Newest] = r]
<1>3. session' = s \/ session' = Raised(s, STE)
  BY <1>2 DEF Connected
<1>4. /\ r \in Sessions /\ r.inbox = session[Newest].inbox
      /\ r.outbox = session[Newest].outbox /\ r.broker = session[Newest].broker
      /\ r.timer = session[Newest].timer /\ r.opened = session[Newest].opened
      /\ r.channel0 = session[Newest].channel0
  BY <1>2 DEF Sessions
<1> HIDE DEF r
<1>5. Passes(session, s, FALSE)
  BY <1>2, <1>4, PassesAside
<1>6. \A n \in DOMAIN session : s[n].timer = session[n].timer
  BY <1>2, <1>4
<1> HIDE DEF s
<1>7. STE \in Error /\ session # <<>>
  BY <1>2, InvariantIs DEF Error
<1>8. /\ Passes(session, session', FALSE)
      /\ \A n \in DOMAIN session : session'[n].timer => session[n].timer
  BY <1>2, <1>3, <1>5, <1>6, <1>7, OrRaised
<1>9. manager' \in Managers
  BY <1>1, <1>2, StatesAre, SetStateKeepsType
<1>10. client.channel0 # None
  BY <1>1, <1>2, ConnectionAssumption, InvariantIs DEF IInv, Current
<1> QED BY <1>1, <1>2, <1>8, <1>9, <1>10, AsideKeeps

LEMMA GoesIs ==
    ASSUME app \in Apps, NEW call \in Calls, NEW pc \in Pcs, Goes(call, pc)
    PROVE  /\ app' \in Apps /\ app'.pc = pc /\ app'.call = call
           /\ app'.stale = app.stale
BY DEF Goes, Apps

---------------------------------------------------------------------------
(* _connect and _open_channel *)

LEMMA DialReturnsKeeps ==
    ASSUME IInv, DialReturns
    PROVE  IInv'
<1> DEFINE c == [client EXCEPT !.transport = Newest]
           s == Written(session, Newest, "Header")
<1>1. /\ app.pc = "dialing"
      /\ IF session[Newest].channel0 = "failed"
         THEN /\ Ends(app.call, STE, manager, c)
              /\ session' = [s EXCEPT ![Newest].exception = STE]
         ELSE /\ session' = [s EXCEPT ![Newest].channel0 = "opening"]
              /\ client' = c /\ Goes(app.call, "opening") /\ UNCHANGED manager
  BY DEF DialReturns
<1>2. /\ manager \in Managers /\ client \in Clients /\ session \in Seq(Sessions)
      /\ app \in Apps /\ app.call \in Calls /\ Newest \in Nat /\ Newest # 0
      /\ Newest \in DOMAIN session /\ session[Newest] \in Sessions
  BY <1>1, InvariantIs DEF Openings
<1>3. client.channel0 = Newest /\ ~ session[Newest].timer
  BY <1>1 DEF IInv, Current, Timed
<1>4. /\ c \in Clients /\ c.channel0 = Newest /\ c.transport = Newest
      /\ c.channelOpen = client.channelOpen
  BY <1>2, <1>3 DEF Clients
<1>5. /\ Passes(session, s, FALSE)
      /\ \A k \in DOMAIN session :
            s[k].timer = session[k].timer /\ s[k].opened = session[k].opened
  <2>1. "Header" \in OutTypes \ {"Channel.Open"} /\ "Header" # "Channel.Close"
    BY DEF OutTypes
  <2> QED BY ONLY <1>2, <2>1, WrittenPasses DEF s
<1> HIDE DEF c, s
<1>6. s \in Seq(Sessions) /\ Newest \in DOMAIN s /\ s[Newest] \in Sessions
  <2>1. s \in Seq(Sessions) /\ Len(s) = Len(session)
    BY <1>5 DEF Passes
  <2>2. Newest \in DOMAIN s
    <3> HIDE DEF Sessions
    <3> QED BY <1>2, <2>1
  <2> QED BY <2>1, <2>2
<1>7. STE \in Error
  BY DEF Error
<1>8. CASE session[Newest].channel0 = "failed"
  <2> DEFINE r == [s[Newest] EXCEPT !.exception = STE]
  <2>1. /\ r \in Sessions /\ r.inbox = s[Newest].inbox /\ r.outbox = s[Newest].outbox
        /\ r.broker = s[Newest].broker /\ r.timer = s[Newest].timer
        /\ r.opened = s[Newest].opened /\ r.channel0 = s[Newest].channel0
    BY <1>6, <1>7 DEF Sessions
  <2>2. session' = [s EXCEPT ![Newest] = r]
    BY <1>1, <1>6, <1>8
  <2> HIDE DEF r
  <2>3. Passes(s, session', FALSE)
    BY <1>6, <2>1, <2>2, PassesAside
  <2>4. Passes(session, session', FALSE)
    BY <1>2, <1>5, <2>3, PassesOn
  <2>5. Ends(app.call, STE, manager, c)
    BY <1>1, <1>8
  <2> QED BY <1>1, <1>2, <1>3, <1>4, <1>7, <2>4, <2>5, EndsKeeps
<1>9. CASE session[Newest].channel0 # "failed"
  <2> DEFINE r == [s[Newest] EXCEPT !.channel0 = "opening"]
  <2>1. /\ r \in Sessions /\ r.inbox = s[Newest].inbox /\ r.outbox = s[Newest].outbox
        /\ r.broker = s[Newest].broker /\ r.timer = s[Newest].timer
    BY <1>6 DEF Sessions, Channel0States
  <2>2. session' = [s EXCEPT ![Newest] = r]
    BY <1>1, <1>6, <1>9
  <2> HIDE DEF r
  <2>3. ~ r.timer
    BY <1>2, <1>3, <1>5, <2>1
  <2>4. Passes(s, session', FALSE)
    BY <1>6, <2>1, <2>2, <2>3, PassesAside
  <2>5. Passes(session, session', FALSE)
    BY <1>2, <1>5, <2>4, PassesOn
  <2>6. /\ client' = c /\ manager' = manager
        /\ app' \in Apps /\ app'.pc = "opening" /\ app'.call = app.call
        /\ app'.stale = app.stale
    BY <1>1, <1>2, <1>9, GoesIs DEF Pcs
  <2>7. Newest' = Newest
    BY <2>5 DEF Passes, Newest
  <2>8. Current' /\ Retries' /\ Proceeding
    BY <1>1, <1>2, <1>4, <2>6, <2>7 DEF Current, Retries, Proceeding
  <2>9. app'.pc # "dialing"
    BY <2>6
  <2> QED BY <1>2, <1>4, <2>5, <2>6, <2>8, <2>9, PassesKeeps
<1> QED BY <1>8, <1>9

LEMMA OpenRaisesKeeps ==
    ASSUME IInv, OpenRaises
    PROVE  IInv'
<1>1. /\ app.pc = "opening" /\ session[Newest].exception # None
      /\ Ends(app.call, session[Newest].exception, manager, client)
      /\ session' = [session EXCEPT ![Newest].exception = None]
  BY DEF OpenRaises
<1>2. /\ manager \in Managers /\ client \in Clients /\ session \in Seq(Sessions)
      /\ app.call \in Calls /\ Newest \in DOMAIN session /\ session[Newest] \in Sessions
  BY <1>1, InvariantIs DEF Openings
<1>3. client.channel0 = Newest /\ client.transport = Newest
  BY <1>1 DEF IInv, Current
<1>4. session[Newest].exception \in Error
  BY <1>1, <1>2 DEF Sessions
<1> DEFINE r == [session[Newest] EXCEPT !.exception = None]
<1>5. /\ r \in Sessions /\ r.inbox = session[Newest].inbox
      /\ r.outbox = session[Newest].outbox /\ r.broker = session[Newest].broker
      /\ r.timer = session[Newest].timer /\ r.opened = session[Newest].opened
      /\ r.channel0 = session[Newest].channel0
  BY <1>2 DEF Sessions
<1>6. session' = [session EXCEPT ![Newest] = r]
  BY <1>1, <1>2
<1> HIDE DEF r
<1>7. Passes(session, session', FALSE)
  BY <1>2, <1>5, <1>6, PassesAside
<1> QED BY <1>1, <1>2, <1>3, <1>4, <1>7, EndsKeeps

\* The timer of Channel0.open, when a session was answered.
LEMMA TimedPasses ==
    ASSUME NEW a \in Seq(Sessions), NEW n \in DOMAIN a, NEW timer \in BOOLEAN,
           timer => a[n].opened \/ a[n].channel0 # "opening", NEW closes \in BOOLEAN
    PROVE  /\ Passes(a, [a EXCEPT ![n].timer = timer], closes)
           /\ [a EXCEPT ![n].timer = timer] \in Seq(Sessions)
           /\ DOMAIN [a EXCEPT ![n].timer = timer] = DOMAIN a
           /\ [a EXCEPT ![n].timer = timer][n] = [a[n] EXCEPT !.timer = timer]
<1> DEFINE r == [a[n] EXCEPT !.timer = timer]
<1>1. a[n] \in Sessions
  OBVIOUS
<1>2. /\ r \in Sessions /\ r.inbox = a[n].inbox /\ r.outbox = a[n].outbox
      /\ r.broker = a[n].broker /\ r.timer = timer /\ r.opened = a[n].opened
      /\ r.channel0 = a[n].channel0
  BY <1>1 DEF Sessions
<1>3. [a EXCEPT ![n].timer = timer] = [a EXCEPT ![n] = r]
  OBVIOUS
<1>4. [a EXCEPT ![n] = r][n] = r /\ DOMAIN [a EXCEPT ![n] = r] = DOMAIN a
  <2> HIDE DEF r, Sessions
  <2> QED OBVIOUS
<1>5. Passes(a, [a EXCEPT ![n] = r], closes)
  <2> HIDE DEF r
  <2> QED BY <1>2, PassesAside
<1> QED BY <1>3, <1>4, <1>5 DEF Passes

LEMMA OpenRefusedKeeps ==
    ASSUME IInv, OpenRefused
    PROVE  IInv'
<1> DEFINE m == SM!AfterPoll(manager, "app")
<1>1. /\ app.pc = "opening" /\ session[Newest].channel0 = "remoteClosed"
      /\ manager.exception # None
      /\ session' = [session EXCEPT ![Newest].timer = Heartbeats]
      /\ IF manager.exception \in CONNECTING_EXCEPTIONS
         THEN Ends(app.call, manager.exception, m, client)
         ELSE manager' = m /\ Goes(app.call, "reconnect") /\ UNCHANGED client
  BY DEF OpenRefused
<1>2. /\ manager \in Managers /\ client \in Clients /\ session \in Seq(Sessions)
      /\ app \in Apps /\ app.call \in Calls /\ Newest \in Nat
      /\ Newest \in DOMAIN session /\ session[Newest] \in Sessions
      /\ manager.exception \in Error
  BY <1>1, InvariantIs DEF Openings
<1>3. client.channel0 = Newest /\ client.transport = Newest /\ Newest # 0
  BY <1>1 DEF IInv, Current
<1>4. Passes(session, session', FALSE)
  BY <1>1, <1>2, TimedPasses, ConnectionAssumption
<1>5. m \in Managers
  BY <1>2, AfterPollKeepsType
<1> HIDE DEF m
<1>6. CASE manager.exception \in CONNECTING_EXCEPTIONS
  <2>1. Ends(app.call, manager.exception, m, client)
    BY <1>1, <1>6
  <2> QED BY <1>1, <1>2, <1>3, <1>4, <1>5, <2>1, EndsKeeps
<1>7. CASE manager.exception \notin CONNECTING_EXCEPTIONS
  <2>1. /\ client' = client /\ manager' = m
        /\ app' \in Apps /\ app'.pc = "reconnect" /\ app'.call = app.call
        /\ app'.stale = app.stale
    BY <1>1, <1>2, <1>7, GoesIs DEF Pcs
  <2>2. Newest' = Newest
    BY <1>4 DEF Passes, Newest
  <2>3. Current' /\ Retries' /\ Proceeding
    BY <1>1, <1>2, <1>3, <2>1, <2>2 DEF Current, Retries, Proceeding
  <2> QED BY <1>2, <1>4, <1>5, <2>1, <2>3, PassesKeeps
<1> QED BY <1>6, <1>7

LEMMA ChannelOpenedKeeps ==
    ASSUME IInv, ChannelOpened
    PROVE  IInv'
<1>1. /\ app.pc = "channelOpened" /\ session' = session
  BY DEF ChannelOpened
<1>2. /\ manager \in Managers /\ client \in Clients /\ session \in Seq(Sessions)
      /\ app.call \in Calls
  BY <1>1, InvariantIs DEF Openings
<1>3. client.channel0 = Newest /\ client.transport = Newest
  BY <1>1 DEF IInv, Current
<1>4. Passes(session, session', FALSE)
  BY <1>1, <1>2, PassesSame
<1>5. PICK result \in Error \cup {"done"}, c \in {client, [client EXCEPT !.lastError = None]} :
         Ends(app.call, result, manager, c)
  <2>1. client.lastError \in Error \cup {None} /\ "UnknownError" \in Error
    BY <1>2 DEF Clients, Error
  <2> QED BY <2>1 DEF ChannelOpened
<1>6. /\ c \in Clients /\ c.channel0 = client.channel0 /\ c.transport = client.transport
      /\ c.channelOpen = client.channelOpen
  BY <1>2, <1>5 DEF Clients
<1> QED BY <1>1, <1>2, <1>3, <1>4, <1>5, <1>6, EndsKeeps

\* Of the sessions a, nothing changes but that n may have asked for the channel.
Asks(a, n, b) ==
    /\ b \in Seq(Sessions) /\ Len(b) = Len(a) /\ DOMAIN b = DOMAIN a
    /\ \A k \in DOMAIN a \ {n} : b[k] = a[k]
    /\ b[n].timer = a[n].timer /\ b[n].opened = a[n].opened
    /\ b[n].channel0 = a[n].channel0 /\ b[n].broker = a[n].broker
    /\ b[n].inbox = a[n].inbox
    /\ \A other : Includes(b[n].outbox, other) =>
                      Includes(a[n].outbox, other) \/ other = "Channel.Open"
    /\ ~ Includes(a[n].outbox, "Channel.Open") => Once(b[n].outbox, "Channel.Open")

LEMMA AsksFor ==
    ASSUME NEW a \in Seq(Sessions), NEW n \in DOMAIN a
    PROVE  Asks(a, n, Written(a, n, "Channel.Open"))
<1> DEFINE r == [a[n] EXCEPT !.outbox = Append(@, "Channel.Open")]
<1>1. a[n] \in Sessions
  OBVIOUS
<1>2. a[n].outbox \in Seq(OutTypes) /\ "Channel.Open" \in OutTypes
  BY <1>1 DEF Sessions, OutTypes
<1>3. /\ Append(a[n].outbox, "Channel.Open") \in Seq(OutTypes)
      /\ \A other : Includes(Append(a[n].outbox, "Channel.Open"), other) <=>
                        Includes(a[n].outbox, other) \/ "Channel.Open" = other
      /\ Once(a[n].outbox, "Channel.Open") /\ ~ Includes(a[n].outbox, "Channel.Open") =>
             Once(Append(a[n].outbox, "Channel.Open"), "Channel.Open")
  BY <1>2, AppendIncludes
<1>4. ~ Includes(a[n].outbox, "Channel.Open") => Once(a[n].outbox, "Channel.Open")
  BY DEF Includes, Once
<1>5. /\ r \in Sessions /\ r.inbox = a[n].inbox /\ r.broker = a[n].broker
      /\ r.outbox = Append(a[n].outbox, "Channel.Open")
      /\ r.timer = a[n].timer /\ r.opened = a[n].opened /\ r.channel0 = a[n].channel0
  BY <1>1, <1>3 DEF Sessions
<1> DEFINE b == Written(a, n, "Channel.Open")
<1>6. b = a \/ b = [a EXCEPT ![n] = r]
  BY DEF Written
<1> HIDE DEF r, b
<1> SUFFICES Asks(a, n, b)
  BY DEF b
<1>7. CASE b = a
  BY <1>4, <1>7 DEF Asks
<1>8. CASE b = [a EXCEPT ![n] = r]
  <2>1. /\ b \in Seq(Sessions) /\ Len(b) = Len(a) /\ DOMAIN b = DOMAIN a /\ b[n] = r
        /\ \A k \in DOMAIN a \ {n} : b[k] = a[k]
    <3> HIDE DEF Sessions
    <3> QED BY <1>5, <1>8
  <2> QED BY <1>3, <1>4, <1>5, <2>1 DEF Asks
<1> QED BY <1>6, <1>7, <1>8

LEMMA OpenReturnsKeeps ==
    ASSUME IInv, OpenReturns
    PROVE  IInv'
<1> DEFINE s == [session EXCEPT ![Newest].timer = Heartbeats]
           next == IF client.channelOpen THEN "channelOpened" ELSE "openingChannel"
<1>1. /\ app.pc = "opening" /\ session[Newest].opened
      /\ IF Refuses(manager, "OPENED") THEN Fails(app.call, manager) /\ session' = s
         ELSE /\ manager' = Enter(Enter(Enter(manager, "OPENED"), "OPENING_CHANNEL"),
                                  "CHANNEL_OPEN_SENT")
              /\ session' = Written(s, Newest, "Channel.Open")
              /\ Goes(app.call, next) /\ UNCHANGED client
  BY DEF OpenReturns
<1>2. /\ manager \in Managers /\ client \in Clients /\ session \in Seq(Sessions)
      /\ app \in Apps /\ app.call \in Calls /\ Newest \in Nat
      /\ Newest \in DOMAIN session /\ session[Newest] \in Sessions
  BY <1>1, InvariantIs DEF Openings
<1>3. client.channel0 = Newest /\ client.transport = Newest /\ Newest # 0
  BY <1>1 DEF IInv, Current
<1>4. /\ Passes(session, s, FALSE) /\ s \in Seq(Sessions) /\ DOMAIN s = DOMAIN session
      /\ s[Newest] = [session[Newest] EXCEPT !.timer = Heartbeats]
  BY <1>1, <1>2, TimedPasses, ConnectionAssumption
<1> HIDE DEF s
<1>5. CASE Refuses(manager, "OPENED")
  <2>1. SM!Refuse(manager, STE) \in Managers /\ STE \in Error
    BY <1>2, StatesAre, SetStateKeepsType DEF Error
  <2>2. Ends(app.call, STE, SM!Refuse(manager, STE), client) /\ session' = s
    BY <1>1, <1>5 DEF Fails
  <2> QED BY <1>1, <1>2, <1>3, <1>4, <2>1, <2>2, EndsKeeps
<1>6. CASE ~ Refuses(manager, "OPENED")
  <2>1. /\ client' = client /\ session' = Written(s, Newest, "Channel.Open")
        /\ app' \in Apps /\ app'.pc = next /\ app'.call = app.call
        /\ app'.stale = app.stale
    BY <1>1, <1>2, <1>6, GoesIs DEF Pcs
  <2>2. manager' \in Managers
    <3>1. Enter(manager, "OPENED") \in Managers
      BY <1>2, StatesAre, SetStateKeepsType
    <3>2. Enter(Enter(manager, "OPENED"), "OPENING_CHANNEL") \in Managers
      BY <3>1, StatesAre, SetStateKeepsType
    <3> QED BY <1>1, <1>6, <3>2, StatesAre, SetStateKeepsType
  <2>3. /\ session' \in Seq(Sessions) /\ Len(session') = Len(s)
        /\ DOMAIN session' = DOMAIN s
        /\ \A k \in DOMAIN s \ {Newest} : session'[k] = s[k]
        /\ session'[Newest].timer = s[Newest].timer
        /\ session'[Newest].opened = s[Newest].opened
        /\ session'[Newest].channel0 = s[Newest].channel0
        /\ session'[Newest].broker = s[Newest].broker
        /\ session'[Newest].inbox = s[Newest].inbox
        /\ \A other : Includes(session'[Newest].outbox, other) =>
                          Includes(s[Newest].outbox, other) \/ other = "Channel.Open"
        /\ ~ Includes(s[Newest].outbox, "Channel.Open") =>
               Once(session'[Newest].outbox, "Channel.Open")
    <3>1. /\ s \in Seq(Sessions) /\ Newest \in DOMAIN s
          /\ session' = Written(s, Newest, "Channel.Open")
      BY <1>2, <1>4, <2>1
    <3>2. Asks(s, Newest, session')
      BY <3>1, AsksFor
    <3> QED BY <3>2 DEF Asks
  <2>4. /\ Newest' = Newest
        /\ \A k \in DOMAIN session : Passive(session[k], s[k], FALSE)
    BY <1>4, <2>3 DEF Passes, Newest
  <2>5. Current' /\ Retries'
    BY <1>1, <1>2, <1>3, <2>1, <2>4 DEF Current, Retries
  <2>6. Timed'
    <3>1. Timed
      BY DEF IInv
    <3>2. \A k \in DOMAIN session :
             s[k].timer => s[k].opened \/ s[k].channel0 # "opening"
      BY <2>4, <3>1 DEF Passive, Timed
    <3>3. \A k \in DOMAIN session' :
             /\ session'[k].timer = s[k].timer /\ session'[k].opened = s[k].opened
             /\ session'[k].channel0 = s[k].channel0
      BY <2>3
    <3>4. app'.pc # "dialing"
      BY <2>1
    <3> QED BY <1>4, <2>3, <3>2, <3>3, <3>4 DEF Timed
  <2>7. NoneCloses'
    <3>1. NoneCloses
      BY DEF IInv
    <3> QED BY <1>1, <1>2, <2>3, <2>4, <3>1 DEF NoneCloses, Passive
  <2>8. ASSUME ~ app'.stale PROVE OpensInTurn'
    <3>1. OpensInTurn
      BY <2>1, <2>8 DEF IInv
    <3>2. app'.pc = "openingChannel" /\ ~ client'.channelOpen
      BY <1>1, <2>1, <3>1 DEF OpensInTurn
    <3>3. \A k \in DOMAIN session : ~ Asked(k) /\ ~ Granted(k)
      BY <1>1, <3>1 DEF OpensInTurn
    <3>4. \A k \in DOMAIN session :
             /\ ~ Includes(s[k].outbox, "Channel.Open")
             /\ ~ Includes(s[k].inbox, "Channel_OpenOk")
      BY <2>4, <3>3 DEF Passive, Asked, Granted
    <3>5. ASSUME NEW k \in DOMAIN session'
          PROVE  /\ ~ Includes(session'[k].inbox, "Channel_OpenOk")
                 /\ k # Newest => ~ Includes(session'[k].outbox, "Channel.Open")
                 /\ Once(session'[k].outbox, "Channel.Open")
      <4>1. k \in DOMAIN session /\ Newest \in DOMAIN session
        BY <1>2, <1>4, <2>3
      <4>2. /\ ~ Includes(s[k].inbox, "Channel_OpenOk")
            /\ ~ Includes(s[k].outbox, "Channel.Open")
            /\ ~ Includes(s[Newest].outbox, "Channel.Open")
        BY <3>4, <4>1
      <4>3. CASE k = Newest
        BY <2>3, <4>2, <4>3
      <4>4. CASE k # Newest
        <5>1. session'[k] = s[k]
          BY <1>4, <2>3, <4>1, <4>4
        <5> QED BY <4>2, <4>4, <5>1 DEF Once, Includes
      <4> QED BY <4>3, <4>4
    <3>6. \A k \in DOMAIN session' : Once(session'[k].inbox, "Channel_OpenOk")
      BY <3>5 DEF Once, Includes
    <3> QED BY <2>4, <3>2, <3>5, <3>6 DEF OpensInTurn, AskedOnce, Asked, Granted
  <2> QED BY <1>2, <2>1, <2>2, <2>3, <2>5, <2>6, <2>7, <2>8 DEF IInv, TypesOK
<1> QED BY <1>5, <1>6

---------------------------------------------------------------------------
(* Another connection *)

LEMMA NewSessionIs ==
    /\ NewSession \in Sessions /\ ~ NewSession.timer
    /\ \A type : ~ Includes(NewSession.outbox, type) /\ ~ Includes(NewSession.inbox, type)
BY DEF NewSession, Sessions, Channel0States, Phases, Includes

LEMMA DialKeeps ==
    ASSUME IInv, NEW m \in Managers, NEW c \in Clients, NEW call \in Calls,
           NEW again \in BOOLEAN, Dial(m, c, call, again),
           app.pc \in {"idle", "reconnect"},
           Refuses(m, "CONNECTING") => c = client,
           c.transport \in {None, client.transport},
           call # "connect" => c.transport = None,
           again => ~ c.channelOpen
    PROVE  IInv'
<1>1. /\ client \in Clients /\ session \in Seq(Sessions) /\ app \in Apps /\ Newest \in Nat
  BY InvariantIs
<1>2. CASE Refuses(m, "CONNECTING")
  <2>1. Ends(call, STE, SM!Refuse(m, STE), client) /\ session' = session
    BY <1>2 DEF Dial
  <2>2. SM!Refuse(m, STE) \in Managers /\ STE \in Error
    BY StatesAre, SetStateKeepsType DEF Error
  <2>3. client.transport \in {None, client.channel0}
    BY DEF IInv, Current
  <2>4. Passes(session, session', FALSE)
    BY <1>1, <2>1, PassesSame
  <2> QED BY <1>1, <2>1, <2>2, <2>3, <2>4, EndsKeeps
<1>3. CASE ~ Refuses(m, "CONNECTING")
  <2>1. /\ manager' = Enter(m, "CONNECTING")
        /\ session' = Append(session, NewSession)
        /\ client' = [c EXCEPT !.channel0 = Newest + 1]
        /\ app' = [app EXCEPT !.pc = "dialing", !.call = call, !.again = again,
                              !.stale = app.stale \/ (~ again /\ c.channelOpen)]
    BY <1>3 DEF Dial
  <2>2. manager' \in Managers
    BY <2>1, StatesAre, SetStateKeepsType
  <2>3. /\ client' \in Clients /\ client'.channel0 = Newest + 1
        /\ client'.transport = c.transport /\ client'.channelOpen = c.channelOpen
    <3>1. client' = [c EXCEPT !.channel0 = Newest + 1] /\ Newest + 1 \in Nat
      BY <1>1, <2>1
    <3> HIDE DEF Newest
    <3> QED BY <3>1 DEF Clients
  <2>4. /\ app' \in Apps /\ app'.pc = "dialing" /\ app'.call = call
        /\ app'.stale = (app.stale \/ (~ again /\ c.channelOpen))
    <3>1. (app.stale \/ (~ again /\ c.channelOpen)) \in BOOLEAN
      OBVIOUS
    <3> QED BY <1>1, <2>1, <3>1 DEF Apps, Pcs
  <2>5. /\ session' \in Seq(Sessions) /\ Newest' = Newest + 1
        /\ DOMAIN session = 1..Newest /\ DOMAIN session' = 1..(Newest + 1)
        /\ \A n \in 1..Newest : session'[n] = session[n]
        /\ session'[Newest + 1] = NewSession
    <3> HIDE DEF NewSession, Sessions
    <3> QED BY <1>1, <2>1, NewSessionIs DEF Newest
  <2>6. \A n \in DOMAIN session' : n = Newest + 1 \/ n \in DOMAIN session
    BY <1>1, <2>5
  <2>7. Current' /\ Retries'
    <3>1. client.transport # None => client.transport \in 1..Newest
      BY DEF IInv, Current
    <3>2. c.transport # None => c.transport \in 1..(Newest + 1)
      BY <1>1, <3>1
    <3>3. Newest + 1 # 0
      BY <1>1
    <3> QED BY <2>3, <2>4, <2>5, <3>2, <3>3 DEF Current, Retries
  <2>8. Timed' /\ NoneCloses'
    <3>1. Timed
      BY DEF IInv
    <3> QED BY <2>5, <2>6, <3>1, NewSessionIs DEF Timed, NoneCloses
  <2>9. ASSUME ~ app'.stale PROVE OpensInTurn'
    <3>1. ~ app.stale /\ ~ c.channelOpen
      BY <2>4, <2>9
    <3>2. OpensInTurn
      BY <3>1 DEF IInv
    <3>3. \A n \in DOMAIN session : AskedOnce(n) /\ ~ Asked(n) /\ ~ Granted(n)
      BY <3>2 DEF OpensInTurn
    <3>4. ASSUME NEW n \in DOMAIN session'
          PROVE  AskedOnce(n)' /\ ~ Asked(n)' /\ ~ Granted(n)'
      <4>1. CASE n \in DOMAIN session
        <5>1. session'[n] = session[n]
          BY <2>5, <4>1
        <5> QED BY <3>3, <4>1, <5>1 DEF AskedOnce, Asked, Granted
      <4>2. CASE n = Newest + 1
        <5>1. session'[n] = NewSession
          BY <2>5, <4>2
        <5>2. /\ ~ Includes(session'[n].outbox, "Channel.Open")
              /\ ~ Includes(session'[n].inbox, "Channel_OpenOk")
          BY <5>1, NewSessionIs
        <5>3. /\ Once(session'[n].outbox, "Channel.Open")
              /\ Once(session'[n].inbox, "Channel_OpenOk")
          BY <5>2 DEF Once, Includes
        <5> QED BY <5>2, <5>3 DEF AskedOnce, Asked, Granted
      <4> QED BY <2>6, <4>1, <4>2
    <3> QED BY <2>3, <2>4, <3>1, <3>4 DEF OpensInTurn
  <2> QED BY <2>2, <2>3, <2>4, <2>5, <2>7, <2>8, <2>9 DEF IInv, TypesOK
<1> QED BY <1>2, <1>3

LEMMA ConnectKeeps ==
    ASSUME IInv, Connect
    PROVE  IInv'
<1>1. app.pc = "idle" /\ Dial(manager, client, "connect", FALSE)
  BY DEF Connect, MayCall
<1>2. manager \in Managers /\ client \in Clients
  BY InvariantIs
<1> QED BY <1>1, <1>2, DialKeeps DEF Calls

LEMMA ReconnectKeeps ==
    ASSUME IInv, Reconnect
    PROVE  IInv'
<1>1. /\ app.pc = "reconnect"
      /\ Dial(ResetManager(manager), ResetClient(client), app.call, TRUE)
  BY DEF Reconnect
<1>2. manager \in Managers /\ client \in Clients /\ app.call \in Calls
  BY <1>1, InvariantIs
<1>3. ResetManager(manager) \in Managers /\ ~ Refuses(ResetManager(manager), "CONNECTING")
  BY <1>2, ResetManagerIs
<1>4. /\ ResetClient(client) \in Clients /\ ResetClient(client).transport = None
      /\ ~ ResetClient(client).channelOpen
  BY <1>2 DEF ResetClient, Clients
<1> QED BY <1>1, <1>2, <1>3, <1>4, DialKeeps

---------------------------------------------------------------------------
(* The requests *)

\* The call goes on to wait, or to make another connection.
LEMMA GoesKeeps ==
    ASSUME IInv, manager' \in Managers, NEW call \in Calls,
           NEW pc \in {"waiting", "closing", "reconnect"}, Goes(call, pc), client' = client,
           NEW closes \in BOOLEAN, Passes(session, session', closes),
           app.pc # "openingChannel",
           client.channel0 = Newest, client.transport = Newest, Newest # 0
    PROVE  IInv'
<1>1. app \in Apps /\ client \in Clients /\ Newest \in Nat
  BY InvariantIs
<1>2. app' \in Apps /\ app'.pc = pc /\ app'.call = call /\ app'.stale = app.stale
  BY <1>1, GoesIs DEF Pcs
<1>3. Newest' = Newest
  BY DEF Passes, Newest
<1>4. Current' /\ Retries' /\ Proceeding
  BY <1>1, <1>2, <1>3 DEF Current, Retries, Proceeding
<1>5. app'.pc # "dialing" /\ app'.pc \notin Openings
  BY <1>2 DEF Openings
<1> QED BY <1>1, <1>2, <1>4, <1>5, PassesKeeps

\* A call that the state machine refuses.
LEMMA FailsKeeps ==
    ASSUME IInv, NEW call \in Calls, NEW m \in Managers, Fails(call, m),
           NEW closes \in BOOLEAN, Passes(session, session', closes),
           app.pc # "openingChannel", client.transport \in {None, client.channel0}
    PROVE  IInv'
<1>1. SM!Refuse(m, STE) \in Managers /\ STE \in Error
  BY StatesAre, SetStateKeepsType DEF Error
<1>2. client \in Clients
  BY InvariantIs
<1>3. Ends(call, STE, SM!Refuse(m, STE), client)
  BY DEF Fails
<1> QED BY <1>1, <1>2, <1>3, EndsKeeps

\* A client that is not closed, between two calls, has the newest session.
LEMMA HasNewest ==
    ASSUME IInv, ~ IsClosed, app.pc # "dialing"
    PROVE  /\ client.channel0 = Newest /\ client.transport = Newest /\ Newest # 0
           /\ Newest \in DOMAIN session
<1>1. client.channel0 # None /\ client.transport # None
  BY DEF IsClosed
<1> QED BY <1>1, InvariantIs DEF IInv, Current

LEMMA SendKeeps ==
    ASSUME IInv, NEW call \in Calls, NEW type \in {"Declare", "Channel.Close"},
           NEW sent \in ClientState, NEW ok \in ClientState, Send(call, type, sent, ok, "waiting"),
           app.pc = "idle", ~ IsClosed
    PROVE  IInv'
<1>1. /\ client.channel0 = Newest /\ client.transport = Newest /\ Newest # 0
      /\ Newest \in DOMAIN session
  BY HasNewest
<1>2. manager \in Managers /\ session \in Seq(Sessions)
  BY InvariantIs
<1>3. session' = Written(session, Newest, type)
  BY <1>1 DEF Send
<1>4. Passes(session, session', TRUE)
  <2>1. type \in OutTypes \ {"Channel.Open"}
    BY DEF OutTypes
  <2> QED BY ONLY <1>1, <1>2, <1>3, <2>1, WrittenPasses
<1>5. CASE Refuses(manager, sent)
  <2>1. Fails(call, manager)
    BY <1>5 DEF Send
  <2> QED BY <1>1, <1>2, <1>4, <2>1, FailsKeeps
<1>6. CASE ~ Refuses(manager, sent)
  <2>1. /\ manager' = SM!Register(Enter(manager, sent), "app", {ok, "CHANNEL_CLOSE_RECEIVED"})
        /\ Goes(call, "waiting") /\ client' = client
    BY <1>6 DEF Send
  <2>2. Enter(manager, sent) \in Managers
    BY <1>2, SetStateKeepsType, StatesAre
  <2>3. {ok, "CHANNEL_CLOSE_RECEIVED"} \in SUBSET ClientState
    BY StatesAre
  <2>4. manager' \in Managers
    BY <2>1, <2>2, <2>3, RegisterKeepsType
  <2> QED BY <1>1, <1>4, <2>1, <2>4, GoesKeeps
<1> QED BY <1>5, <1>6

LEMMA DeclareKeeps ==
    ASSUME IInv, Declare
    PROVE  IInv'
<1>1. app.pc = "idle" /\ "declare" \in Calls
  BY DEF Declare, MayCall, Calls
<1>2. CASE IsClosed
  <2>1. Ends("declare", "skipped", manager, client) /\ session' = session
    BY <1>2 DEF Declare
  <2>2. manager \in Managers /\ client \in Clients /\ session \in Seq(Sessions)
    BY InvariantIs
  <2>3. Passes(session, session', FALSE)
    BY <2>1, <2>2, PassesSame
  <2>4. client.transport \in {None, client.channel0}
    BY <1>1 DEF IInv, Current
  <2> QED BY <1>1, <2>1, <2>2, <2>3, <2>4, EndsKeeps
<1>3. CASE ~ IsClosed
  <2>1. Send("declare", "Declare", "QUEUE_DECLARE_SENT", "QUEUE_DECLAREOK_RECEIVED",
             "waiting")
    BY <1>3 DEF Declare
  <2>2. {"QUEUE_DECLARE_SENT", "QUEUE_DECLAREOK_RECEIVED"} \subseteq ClientState
    BY StatesAre
  <2> QED BY <1>1, <1>3, <2>1, <2>2, SendKeeps
<1> QED BY <1>2, <1>3

LEMMA DisconnectKeeps ==
    ASSUME IInv, NEW m \in Managers, Disconnect("close", m),
           app.pc \in {"idle", "waiting"},
           client.channel0 = Newest, client.transport = Newest, Newest # 0
    PROVE  IInv'
<1> DEFINE t == [session EXCEPT ![Newest].timer = FALSE]
           s == Written(t, Newest, "Close")
<1>1. /\ client \in Clients /\ session \in Seq(Sessions)
      /\ Newest \in DOMAIN session /\ session[Newest] \in Sessions
      /\ "close" \in Calls
  BY InvariantIs DEF Calls
<1>2. CASE Refuses(m, "CLOSING")
  <2>1. Fails("close", m) /\ session' = session
    BY <1>2 DEF Disconnect
  <2>2. Passes(session, session', FALSE)
    BY <1>1, <2>1, PassesSame
  <2> QED BY <1>1, <2>1, <2>2, FailsKeeps
<1>3. CASE ~ Refuses(m, "CLOSING")
  <2>1. \/ /\ manager' = Enter(m, "CLOSING")
           /\ session' = [s EXCEPT ![Newest].channel0 = "closing", ![Newest].exception = None]
           /\ Goes("close", "closing") /\ client' = client
        \/ /\ Ends("close", STE, Enter(m, "CLOSING"), client)
           /\ session' = [s EXCEPT ![Newest].exception = STE]
    BY <1>3 DEF Disconnect
  <2>2. Enter(m, "CLOSING") \in Managers
    BY StatesAre, SetStateKeepsType
  <2>3. /\ Passes(session, t, FALSE) /\ t \in Seq(Sessions) /\ Newest \in DOMAIN t
        /\ t[Newest].timer = FALSE
    <3>1. /\ Passes(session, t, FALSE) /\ t \in Seq(Sessions) /\ DOMAIN t = DOMAIN session
          /\ t[Newest] = [session[Newest] EXCEPT !.timer = FALSE]
      BY ONLY <1>1, TimedPasses
    <3> HIDE DEF t
    <3> QED BY <1>1, <3>1 DEF Sessions
  <2> HIDE DEF t
  <2>4. Passes(t, s, FALSE) /\ s[Newest].timer = FALSE
    <3>1. "Close" \in OutTypes \ {"Channel.Open"} /\ "Close" # "Channel.Close"
      BY DEF OutTypes
    <3> QED BY ONLY <2>3, <3>1, WrittenPasses
  <2> HIDE DEF s
  <2>5. s \in Seq(Sessions) /\ Newest \in DOMAIN s /\ s[Newest] \in Sessions
    <3>1. s \in Seq(Sessions) /\ Len(s) = Len(t)
      BY <2>4 DEF Passes
    <3>2. Newest \in DOMAIN s
      <4> HIDE DEF Sessions
      <4> QED BY <2>3, <3>1
    <3> QED BY <3>1, <3>2
  <2>6. Passes(session, s, FALSE)
    BY <1>1, <2>3, <2>4, PassesOn
  <2>7. PICK r \in Sessions :
           /\ session' = [s EXCEPT ![Newest] = r] /\ r.timer = FALSE
           /\ r.inbox = s[Newest].inbox /\ r.outbox = s[Newest].outbox
           /\ r.broker = s[Newest].broker
    <3> DEFINE r1 == [s[Newest] EXCEPT !.channel0 = "closing", !.exception = None]
               r2 == [s[Newest] EXCEPT !.exception = STE]
    <3>1. session' = [s EXCEPT ![Newest] = r1] \/ session' = [s EXCEPT ![Newest] = r2]
      BY <2>1, <2>5
    <3>2. /\ r1 \in Sessions /\ r1.timer = FALSE /\ r1.inbox = s[Newest].inbox
          /\ r1.outbox = s[Newest].outbox /\ r1.broker = s[Newest].broker
          /\ r2 \in Sessions /\ r2.timer = FALSE /\ r2.inbox = s[Newest].inbox
          /\ r2.outbox = s[Newest].outbox /\ r2.broker = s[Newest].broker
      BY <2>4, <2>5 DEF Sessions, Channel0States, Error
    <3> HIDE DEF r1, r2
    <3> QED BY <3>1, <3>2
  <2>8. Passes(session, session', FALSE)
    <3>1. Passes(s, session', FALSE)
      BY <2>5, <2>7, PassesAside
    <3> QED BY <1>1, <2>6, <3>1, PassesOn
  <2>9. CASE Goes("close", "closing")
    BY <1>1, <2>1, <2>2, <2>8, <2>9, GoesKeeps DEF Goes, Ends
  <2> QED BY <1>1, <2>1, <2>2, <2>8, <2>9, EndsKeeps DEF Error
<1> QED BY <1>2, <1>3

LEMMA CloseKeeps ==
    ASSUME IInv, Close
    PROVE  IInv'
<1>1. /\ app.pc = "idle" /\ "close" \in Calls
      /\ manager \in Managers /\ client \in Clients /\ session \in Seq(Sessions)
  BY InvariantIs DEF Close, MayCall, Calls
<1>2. client.transport \in {None, client.channel0}
  BY <1>1 DEF IInv, Current
<1>3. CASE IsClosed
  <2>1. \/ Fails("close", manager)
        \/ Ends("close", "closed", manager, client)
        \/ Ends("close", "closed", Enter(manager, "CLOSED"), client)
    BY <1>3 DEF Close, CloseClosed
  <2>2. Passes(session, session', FALSE)
    <3>1. session' = session
      BY <1>3 DEF Close
    <3> QED BY <1>1, <3>1, PassesSame
  <2>3. Enter(manager, "CLOSED") \in Managers
    BY <1>1, StatesAre, SetStateKeepsType
  <2>4. CASE Fails("close", manager)
    BY <1>1, <1>2, <2>2, <2>4, FailsKeeps
  <2>5. CASE Ends("close", "closed", Enter(manager, "CLOSED"), client)
    BY <1>1, <1>2, <2>2, <2>3, <2>5, EndsKeeps
  <2>6. CASE Ends("close", "closed", manager, client)
    BY <1>1, <1>2, <2>2, <2>6, EndsKeeps
  <2> QED BY <2>1, <2>4, <2>5, <2>6
<1>4. CASE ~ IsClosed
  <2>1. /\ client.channel0 = Newest /\ client.transport = Newest /\ Newest # 0
    BY <1>1, <1>4, HasNewest
  <2>2. CASE client.channelOpen
    <3>1. Send("close", "Channel.Close", "CHANNEL_CLOSE_SENT", "CHANNEL_CLOSEOK_RECEIVED",
               "waiting")
      BY <1>4, <2>2 DEF Close
    <3>2. {"CHANNEL_CLOSE_SENT", "CHANNEL_CLOSEOK_RECEIVED"} \subseteq ClientState
      BY StatesAre
    <3> QED BY <1>1, <1>4, <3>1, <3>2, SendKeeps
  <2>3. CASE ~ client.channelOpen
    <3>1. Disconnect("close", manager)
      BY <1>4, <2>3 DEF Close
    <3> QED BY <1>1, <2>1, <3>1, DisconnectKeeps
  <2> QED BY <2>2, <2>3
<1> QED BY <1>3, <1>4

LEMMA PollAnsweredKeeps ==
    ASSUME IInv, PollAnswered
    PROVE  IInv'
<1> DEFINE m == SM!AfterPoll(manager, "app")
<1>1. /\ app.pc = "waiting"
      /\ IF app.call = "close" THEN Disconnect("close", m)
         ELSE Ends(app.call, "done", m, client) /\ session' = session
  BY DEF PollAnswered
<1>2. /\ manager \in Managers /\ client \in Clients /\ session \in Seq(Sessions)
      /\ app.call \in Calls
  BY <1>1, InvariantIs
<1>3. client.channel0 = Newest /\ client.transport = Newest /\ Newest # 0
  BY <1>1 DEF IInv, Current
<1>4. m \in Managers
  BY <1>2, AfterPollKeepsType
<1> HIDE DEF m
<1>5. CASE app.call = "close"
  BY <1>1, <1>3, <1>4, <1>5, DisconnectKeeps
<1>6. CASE app.call # "close"
  <2>1. Passes(session, session', FALSE)
    BY <1>1, <1>2, <1>6, PassesSame
  <2> QED BY <1>1, <1>2, <1>3, <1>4, <1>6, <2>1, EndsKeeps
<1> QED BY <1>5, <1>6

LEMMA PollRaisesKeeps ==
    ASSUME IInv, PollRaises
    PROVE  IInv'
<1>1. /\ app.pc = "waiting" /\ manager' = SM!AfterPoll(manager, "app")
      /\ Goes(app.call, "reconnect") /\ client' = client /\ session' = session
  BY DEF PollRaises
<1>2. /\ manager \in Managers /\ session \in Seq(Sessions) /\ app.call \in Calls
  BY <1>1, InvariantIs
<1>3. client.channel0 = Newest /\ client.transport = Newest /\ Newest # 0
  BY <1>1 DEF IInv, Current
<1>4. manager' \in Managers /\ Passes(session, session', FALSE)
  BY <1>1, <1>2, AfterPollKeepsType, PassesSame
<1> QED BY <1>1, <1>2, <1>3, <1>4, GoesKeeps

LEMMA CloseReturnsKeeps ==
    ASSUME IInv, CloseReturns
    PROVE  IInv'
<1>1. /\ app.pc = "closing"
      /\ session' = [session EXCEPT ![client.transport].socket = "closed"]
      /\ \/ Fails("close", manager)
         \/ Ends("close", "closed", ResetManager(Enter(manager, "CLOSED")),
                 ResetClient(client))
  BY DEF CloseReturns
<1>2. /\ manager \in Managers /\ client \in Clients /\ session \in Seq(Sessions)
      /\ Newest # 0 /\ Newest \in DOMAIN session /\ session[Newest] \in Sessions
      /\ "close" \in Calls
  BY <1>1, InvariantIs DEF Calls
<1>3. client.channel0 = Newest /\ client.transport = Newest
  BY <1>1 DEF IInv, Current
<1>4. Passes(session, session', FALSE)
  <2> DEFINE r == [session[Newest] EXCEPT !.socket = "closed"]
  <2>1. /\ r \in Sessions /\ r.inbox = session[Newest].inbox
        /\ r.outbox = session[Newest].outbox /\ r.broker = session[Newest].broker
        /\ r.timer = session[Newest].timer /\ r.opened = session[Newest].opened
        /\ r.channel0 = session[Newest].channel0
    BY <1>2 DEF Sessions
  <2>2. session' = [session EXCEPT ![Newest] = r]
    BY <1>1, <1>2, <1>3
  <2> HIDE DEF r
  <2> QED BY <1>2, <2>1, <2>2, PassesAside
<1>5. CASE Fails("close", manager)
  BY <1>1, <1>2, <1>3, <1>4, <1>5, FailsKeeps
<1> DEFINE m == ResetManager(Enter(manager, "CLOSED"))
           c == ResetClient(client)
<1>6. CASE Ends("close", "closed", m, c)
  <2>1. m \in Managers
    BY <1>2, StatesAre, SetStateKeepsType, ResetManagerIs
  <2>2. c \in Clients /\ c.channel0 = None /\ c.transport = None /\ ~ c.channelOpen
    BY <1>2 DEF ResetClient, Clients
  <2> HIDE DEF m, c
  <2> QED BY <1>1, <1>2, <1>4, <1>6, <2>1, <2>2, EndsKeeps
<1> QED BY <1>1, <1>5, <1>6

LEMMA CloseRaisesKeeps ==
    ASSUME IInv, CloseRaises
    PROVE  IInv'
<1>1. app.pc = "closing"
  BY DEF CloseRaises
<1>2. /\ manager \in Managers /\ client \in Clients /\ session \in Seq(Sessions)
      /\ Newest # 0 /\ Newest \in DOMAIN session /\ session[Newest] \in Sessions
      /\ "close" \in Calls
  BY <1>1, InvariantIs DEF Calls
<1>3. client.channel0 = Newest /\ client.transport = Newest
  BY <1>1 DEF IInv, Current
<1>4. /\ session[Newest].exception # None
      /\ Ends("close", session[Newest].exception, manager, client)
      /\ session' = [session EXCEPT ![Newest].exception = None]
  BY <1>3 DEF CloseRaises
<1>5. session[Newest].exception \in Error
  BY <1>2, <1>4 DEF Sessions
<1> DEFINE r == [session[Newest] EXCEPT !.exception = None]
<1>6. /\ r \in Sessions /\ r.inbox = session[Newest].inbox
      /\ r.outbox = session[Newest].outbox /\ r.broker = session[Newest].broker
      /\ r.timer = session[Newest].timer /\ r.opened = session[Newest].opened
      /\ r.channel0 = session[Newest].channel0
  BY <1>2 DEF Sessions
<1>7. session' = [session EXCEPT ![Newest] = r]
  BY <1>2, <1>4
<1> HIDE DEF r
<1>8. Passes(session, session', FALSE)
  BY <1>2, <1>6, <1>7, PassesAside
<1> QED BY <1>1, <1>2, <1>3, <1>4, <1>5, <1>8, EndsKeeps

LEMMA RunReadyKeeps ==
    ASSUME IInv, RunReady
    PROVE  IInv'
<1>1. /\ manager.ready # <<>> /\ manager' = SM!RunCallbacks(manager)
      /\ client' = client /\ session' = session /\ app' = app
  BY DEF RunReady
<1>2. manager \in Managers /\ client \in Clients /\ session \in Seq(Sessions)
  BY InvariantIs
<1>3. manager' \in Managers /\ manager'.state = manager.state
  BY <1>1, <1>2, RunCallbacksKeepsType
<1>4. Passes(session, session', FALSE)
  BY <1>1, <1>2, PassesSame
<1> QED BY <1>1, <1>2, <1>3, <1>4, AsideKeeps

---------------------------------------------------------------------------
(* The callbacks *)

\* The sessions s are the sessions a without the frame that is first in the inbox of n.
Taken(a, n, s) ==
    /\ Passes(a, s, FALSE) /\ s \in Seq(Sessions) /\ Len(s) = Len(a)
    /\ Head(a[n].inbox) \in InTypes /\ Includes(a[n].inbox, Head(a[n].inbox))
    /\ Once(a[n].inbox, Head(a[n].inbox)) => ~ Includes(s[n].inbox, Head(a[n].inbox))
    /\ \A k \in DOMAIN a : s[k].timer = a[k].timer

Rest(a, n) == [a EXCEPT ![n].inbox = Tail(a[n].inbox)]

LEMMA RestIsTaken ==
    ASSUME NEW a \in Seq(Sessions), NEW n \in DOMAIN a, a[n].inbox # <<>>
    PROVE  Taken(a, n, Rest(a, n))
<1> DEFINE s == Rest(a, n)
<1> DEFINE r == [a[n] EXCEPT !.inbox = Tail(a[n].inbox)]
<1>1. a \in Seq(Sessions) /\ n \in DOMAIN a /\ a[n] \in Sessions
  OBVIOUS
<1>2. a[n].inbox \in Seq(InTypes)
  BY <1>1 DEF Sessions
<1>3. /\ Tail(a[n].inbox) \in Seq(InTypes) /\ Head(a[n].inbox) \in InTypes
      /\ Includes(a[n].inbox, Head(a[n].inbox))
      /\ \A type : Includes(Tail(a[n].inbox), type) => Includes(a[n].inbox, type)
      /\ \A type : Once(a[n].inbox, type) => Once(Tail(a[n].inbox), type)
      /\ Once(a[n].inbox, Head(a[n].inbox)) =>
             ~ Includes(Tail(a[n].inbox), Head(a[n].inbox))
  BY <1>2, TailIncludes
<1>4. /\ r \in Sessions /\ r.inbox = Tail(a[n].inbox) /\ r.outbox = a[n].outbox
      /\ r.broker = a[n].broker /\ r.timer = a[n].timer /\ r.opened = a[n].opened
      /\ r.channel0 = a[n].channel0
  BY <1>1, <1>3 DEF Sessions
<1>5. s = [a EXCEPT ![n] = r]
  BY DEF Rest
<1> HIDE DEF r, s
<1> SUFFICES Taken(a, n, s)
  BY DEF s
<1>6. Passive(a[n], r, FALSE)
  BY <1>3, <1>4 DEF Passive
<1>7. Passes(a, s, FALSE)
  BY ONLY <1>1, <1>4, <1>5, <1>6, PassesOne
<1>8. /\ s \in Seq(Sessions) /\ Len(s) = Len(a) /\ DOMAIN s = DOMAIN a /\ s[n] = r
      /\ \A k \in DOMAIN a \ {n} : s[k] = a[k]
  <2> HIDE DEF Sessions
  <2> QED BY ONLY <1>1, <1>4, <1>5
<1> QED BY <1>3, <1>4, <1>7, <1>8 DEF Taken

LEMMA HeartbeatsMissedKeeps ==
    ASSUME IInv, NEW n \in DOMAIN session, HeartbeatsMissed(n)
    PROVE  IInv'
<1> DEFINE m == BeforeANewException
<1> DEFINE s == [session EXCEPT ![n].timer = FALSE]
<1>1. /\ manager' = SM!SetState(m, "CLOSED", Lost, STE)
      /\ session' = s \/ session' = Raised(s, STE)
      /\ client' = [client EXCEPT !.lastError = "UnknownError"] /\ app' = app
  BY DEF HeartbeatsMissed
<1>2. manager \in Managers /\ client \in Clients /\ session \in Seq(Sessions)
  BY InvariantIs
<1>3. session # <<>> /\ STE \in Error /\ Lost \in Error /\ "UnknownError" \in Error
  <2>1. session # <<>>
    <3> HIDE DEF Sessions
    <3> QED BY <1>2
  <2> QED BY <2>1 DEF Error
<1>4. /\ manager' \in Managers
      /\ manager'.state \in {manager.state, "CLOSED"}
  <2>1. m \in Managers /\ m.state = manager.state
    BY <1>2 DEF BeforeANewException, Managers, SM!ManagerWith
  <2> HIDE DEF m
  <2> QED BY <1>1, <1>3, <2>1, StatesAre, SetStateKeepsType
<1>5. /\ client' \in Clients /\ client'.channel0 = client.channel0
      /\ client'.transport = client.transport /\ client'.channelOpen = client.channelOpen
  BY <1>1, <1>2, <1>3 DEF Clients
<1>6. /\ Passes(session, s, FALSE)
      /\ \A k \in DOMAIN session : s[k].timer => session[k].timer
  <2>1. Passes(session, s, FALSE) /\ s[n] = [session[n] EXCEPT !.timer = FALSE]
    BY ONLY <1>2, TimedPasses
  <2>2. session[n] \in Sessions
    BY <1>2
  <2>3. s[n].timer = FALSE
    BY <2>1, <2>2 DEF Sessions
  <2>4. \A k \in DOMAIN session \ {n} : s[k] = session[k]
    BY <1>2
  <2> QED BY <2>1, <2>3, <2>4
<1> HIDE DEF s
<1>7. /\ Passes(session, session', FALSE)
      /\ \A k \in DOMAIN session : session'[k].timer => session[k].timer
  BY <1>1, <1>2, <1>3, <1>6, OrRaised
<1> QED BY <1>1, <1>4, <1>5, <1>7, AsideKeeps

LEMMA MovesTo ==
    ASSUME NEW type \in {"OpenOk", "CloseOk"} \cup Replies
    PROVE  Moves(type).to \in {"open", "closed", "remoteClosed"}
<1>1. "OpenOk" \notin Replies /\ "CloseOk" \notin Replies
  BY ConnectionAssumption DEF Replies
<1>2. CASE type = "OpenOk"
  BY <1>1, <1>2 DEF Moves
<1>3. CASE type = "CloseOk"
  BY <1>1, <1>3 DEF Moves
<1>4. CASE type \in Replies
  BY <1>1, <1>4 DEF Moves
<1> QED BY <1>2, <1>3, <1>4

LEMMA ProcessKeeps ==
    ASSUME IInv, NEW s, Passes(session, s, FALSE),
           \A k \in DOMAIN session : s[k].timer = session[k].timer,
           NEW type \in {"OpenOk", "CloseOk"} \cup Replies,
           client.channel0 # None, Process(s, type)
    PROVE  IInv'
<1>1. /\ manager \in Managers /\ client \in Clients /\ session \in Seq(Sessions)
      /\ client.channel0 = Newest /\ Newest \in DOMAIN session /\ session # <<>>
  BY InvariantIs DEF IInv, Current
<1>2. /\ s \in Seq(Sessions) /\ Newest \in DOMAIN s /\ s[Newest] \in Sessions
      /\ DOMAIN s = DOMAIN session
  <2>1. s \in Seq(Sessions) /\ Len(s) = Len(session)
    BY DEF Passes
  <2>2. DOMAIN s = DOMAIN session
    <3> HIDE DEF Sessions
    <3> QED BY <1>1, <2>1
  <2> QED BY <1>1, <2>1, <2>2
<1>3. STE \in Error /\ (type \in Replies => type \in Error)
  BY DEF Error, Replies
<1>4. CASE s[Newest].channel0 \notin Moves(type).from
  <2> DEFINE r == [s[Newest] EXCEPT !.exception = STE]
             t == [s EXCEPT ![Newest] = r]
  <2>1. /\ session' = Raised([s EXCEPT ![Newest].exception = STE], STE)
        /\ manager' = manager /\ client' = client /\ app' = app
    BY <1>1, <1>4 DEF Process
  <2>2. /\ r \in Sessions /\ r.inbox = s[Newest].inbox /\ r.outbox = s[Newest].outbox
        /\ r.broker = s[Newest].broker /\ r.timer = s[Newest].timer
        /\ r.opened = s[Newest].opened /\ r.channel0 = s[Newest].channel0
    BY <1>2, <1>3 DEF Sessions
  <2>3. session' = Raised(t, STE)
    BY <1>2, <2>1
  <2> HIDE DEF r
  <2>4. Passes(s, t, FALSE)
    BY <1>2, <2>2, PassesAside
  <2>5. Passes(session, t, FALSE)
    BY <1>1, <2>4, PassesOn
  <2>6. \A k \in DOMAIN session : t[k].timer = session[k].timer
    BY <1>2, <2>2
  <2> HIDE DEF t
  <2>7. /\ Passes(session, session', FALSE)
        /\ \A k \in DOMAIN session : session'[k].timer => session[k].timer
    BY <1>1, <1>3, <2>3, <2>5, <2>6, OrRaised
  <2> QED BY <1>1, <2>1, <2>7, AsideKeeps
<1>5. CASE s[Newest].channel0 \in Moves(type).from
  <2> DEFINE r == [s[Newest] EXCEPT !.channel0 = Moves(type).to,
                                    !.opened = s[Newest].opened \/ type = "OpenOk"]
             t == [s EXCEPT ![Newest] = r]
  <2>1. /\ r \in Sessions /\ r.inbox = s[Newest].inbox /\ r.outbox = s[Newest].outbox
        /\ r.broker = s[Newest].broker /\ r.timer = s[Newest].timer
        /\ r.channel0 # "opening"
    <3>1. (s[Newest].opened \/ type = "OpenOk") \in BOOLEAN
      OBVIOUS
    <3> QED BY <1>2, <3>1, MovesTo DEF Sessions, Channel0States
  <2>2. [s EXCEPT ![Newest].channel0 = Moves(type).to,
                  ![Newest].opened = @ \/ type = "OpenOk"] = t
    BY <1>2
  <2>3. app' = app /\ \/ /\ manager' = SM!SetState(manager, "EXCEPTION", type, STE)
                         /\ client' = [client EXCEPT !.lastError = type]
                         /\ session' = Written(t, Newest, "CloseOk") /\ type \in Replies
                      \/ session' = t /\ manager' = manager /\ client' = client
    BY <1>1, <1>5, <2>2 DEF Process
  <2> HIDE DEF r
  <2>4. Passes(s, t, FALSE)
    BY <1>2, <2>1, PassesAside
  <2>5. Passes(session, t, FALSE)
    BY <1>1, <2>4, PassesOn
  <2>6. \A k \in DOMAIN session : t[k].timer = session[k].timer
    BY <1>2, <2>1
  <2>7. t \in Seq(Sessions) /\ DOMAIN t = DOMAIN s
    BY <1>2, <2>4 DEF Passes
  <2> HIDE DEF t
  <2>8. CASE session' = t /\ manager' = manager /\ client' = client
    BY <1>1, <2>3, <2>5, <2>6, <2>8, AsideKeeps
  <2>9. CASE /\ manager' = SM!SetState(manager, "EXCEPTION", type, STE)
             /\ client' = [client EXCEPT !.lastError = type]
             /\ session' = Written(t, Newest, "CloseOk") /\ type \in Replies
    <3>1. manager' \in Managers
      BY <1>1, <1>3, <2>9, StatesAre, SetStateKeepsType
    <3>2. /\ client' \in Clients /\ client'.channel0 = client.channel0
          /\ client'.transport = client.transport
          /\ client'.channelOpen = client.channelOpen
      BY <1>1, <1>3, <2>9 DEF Clients
    <3>3. /\ Passes(t, session', FALSE)
          /\ \A k \in DOMAIN t : session'[k].timer = t[k].timer
      <4>1. "CloseOk" \in OutTypes \ {"Channel.Open"} /\ "CloseOk" # "Channel.Close"
        BY DEF OutTypes
      <4>2. t \in Seq(Sessions) /\ Newest \in DOMAIN t
        BY <1>2, <2>7
      <4>3. session' = Written(t, Newest, "CloseOk")
        BY <2>9
      <4> QED BY ONLY <4>1, <4>2, <4>3, WrittenPasses
    <3>4. /\ Passes(session, session', FALSE)
          /\ \A k \in DOMAIN session : session'[k].timer = session[k].timer
      BY <1>1, <1>2, <2>5, <2>6, <2>7, <3>3, PassesOn
    <3> QED BY <1>1, <2>3, <3>1, <3>2, <3>4, AsideKeeps
  <2> QED BY <2>3, <2>8, <2>9
<1> QED BY <1>4, <1>5

\* A frame of the channel from the session n.  Only the answer to Channel.Open has a
\* part in the opening.
LEMMA OnFrameKeeps ==
    ASSUME IInv, NEW n \in DOMAIN session, NEW s, Passes(session, s, FALSE),
           \A k \in DOMAIN session : s[k].timer = session[k].timer,
           NEW type \in DOMAIN Sets, client.channel0 # None, OnFrame(s, type),
           Includes(session[n].inbox, type),
           Once(session[n].inbox, type) => ~ Includes(s[n].inbox, type)
    PROVE  IInv'
<1>1. /\ manager \in Managers /\ client \in Clients /\ session \in Seq(Sessions)
      /\ app \in Apps /\ Newest \in Nat /\ Newest # 0
      /\ client.channel0 = Newest /\ Newest \in DOMAIN session /\ session # <<>>
  BY InvariantIs DEF IInv, Current
<1>2. /\ s \in Seq(Sessions) /\ Newest \in DOMAIN s /\ s[Newest] \in Sessions
      /\ DOMAIN s = DOMAIN session
  <2>1. s \in Seq(Sessions) /\ Len(s) = Len(session)
    BY DEF Passes
  <2>2. DOMAIN s = DOMAIN session
    <3> HIDE DEF Sessions
    <3> QED BY <1>1, <2>1
  <2> QED BY <1>1, <2>1, <2>2
<1>3. STE \in Error
  BY DEF Error
<1> DEFINE r == [s[Newest] EXCEPT !.heard = TRUE]
           t == [s EXCEPT ![Newest] = r]
<1>4. /\ r \in Sessions /\ r.inbox = s[Newest].inbox /\ r.outbox = s[Newest].outbox
      /\ r.broker = s[Newest].broker /\ r.timer = s[Newest].timer
      /\ r.opened = s[Newest].opened /\ r.channel0 = s[Newest].channel0
  BY <1>2 DEF Sessions
<1>5. [s EXCEPT ![Newest].heard = TRUE] = t
  BY <1>2
<1>6. /\ manager' = Enter(manager, Sets[type])
      /\ session' = t \/ session' = Raised(t, STE)
      /\ client' = [client EXCEPT !.channelOpen =
                       CASE type = "Channel_OpenOk"  -> TRUE
                         [] type = "Channel_CloseOk" -> FALSE
                         [] OTHER                    -> client.channelOpen]
      /\ app' = IF type = "Channel_OpenOk" /\ app.pc = "openingChannel"
                THEN [app EXCEPT !.pc = "channelOpened"] ELSE app
  BY <1>1, <1>5 DEF OnFrame
<1> HIDE DEF r
<1>7. /\ Passes(session, t, FALSE) /\ t[n].inbox = s[n].inbox
      /\ \A k \in DOMAIN session : t[k].timer = session[k].timer
  <2>1. Passes(s, t, FALSE)
    BY <1>2, <1>4, PassesAside
  <2> QED BY <1>1, <1>2, <1>4, <2>1, PassesOn
<1>8. t \in Seq(Sessions) /\ t # <<>> /\ DOMAIN t = DOMAIN session
  <2>1. t \in Seq(Sessions) /\ Len(t) = Len(session)
    BY <1>7 DEF Passes
  <2> HIDE DEF t, Sessions
  <2> QED BY <1>1, <2>1
<1> HIDE DEF t
<1>9. /\ Passes(session, session', FALSE)
      /\ \A k \in DOMAIN session : session'[k].timer => session[k].timer
  BY <1>1, <1>3, <1>6, <1>7, OrRaised
<1>10. Includes(session'[n].inbox, type) => Includes(t[n].inbox, type)
  <2>1. CASE session' = t
    BY <2>1
  <2>2. CASE session' = Raised(t, STE)
    <3>1. Passes(t, session', FALSE)
      BY <1>3, <1>8, <2>2, RaisedPasses
    <3>2. session'[n].inbox = t[n].inbox
      BY <1>8, <2>2 DEF Raised
    <3> QED BY <3>2
  <2> QED BY <1>6, <2>1, <2>2
<1>11. manager' \in Managers
  <2>1. Sets[type] \in ClientState
    BY StatesAre
  <2> QED BY <1>1, <1>6, <2>1, SetStateKeepsType
<1>12. CASE type # "Channel_OpenOk"
  <2>1. app' = app
    BY <1>6, <1>12
  <2>2. \E open \in {FALSE, client.channelOpen} :
           client' = [client EXCEPT !.channelOpen = open]
    BY <1>6, <1>12
  <2>3. /\ client' \in Clients /\ client'.channel0 = client.channel0
        /\ client'.transport = client.transport
        /\ client'.channelOpen => client.channelOpen
    BY <1>1, <2>2 DEF Clients
  <2> QED BY <1>1, <1>9, <1>11, <2>1, <2>3, AsideKeeps
<1>13. CASE type = "Channel_OpenOk"
  <2>1. client' = [client EXCEPT !.channelOpen = TRUE]
    <3>1. "Channel_OpenOk" # "Channel_CloseOk"
      OBVIOUS
    <3> QED BY <1>6, <1>13, <3>1
  <2>2. /\ client' \in Clients /\ client'.channel0 = client.channel0
        /\ client'.transport = client.transport
    BY <1>1, <2>1 DEF Clients
  <2>3. /\ app' \in Apps /\ app'.stale = app.stale /\ app'.call = app.call
        /\ app'.result = app.result
        /\ app'.pc = IF app.pc = "openingChannel" THEN "channelOpened" ELSE app.pc
    BY <1>1, <1>6, <1>13 DEF Apps, Pcs
  <2>4. Newest' = Newest
    BY <1>9 DEF Passes, Newest
  <2>5. Current'
    BY <1>1, <2>2, <2>3, <2>4 DEF IInv, Current
  <2>6. Retries'
    <3>1. Retries /\ client.channel0 # None
      BY DEF IInv
    <3> QED BY <2>3, <3>1 DEF Retries
  <2>7. /\ Timed' /\ NoneCloses' /\ session' \in Seq(Sessions)
        /\ DOMAIN session' = DOMAIN session
        /\ \A k \in DOMAIN session : Passive(session[k], session'[k], FALSE)
    BY <1>9, <2>3, PassesRest DEF Openings
  <2>8. ASSUME ~ app'.stale PROVE OpensInTurn'
    <3>1. OpensInTurn
      BY <2>3, <2>8 DEF IInv
    <3>2. Granted(n)
      BY <1>13 DEF Granted
    <3>3. /\ n = Newest /\ app.pc = "openingChannel" /\ AskedOnce(n)
          /\ \A k \in DOMAIN session : k # n => ~ Asked(k) /\ ~ Granted(k)
      BY <3>1, <3>2 DEF OpensInTurn
    <3>4. /\ ~ Asked(n) /\ Once(session[n].inbox, "Channel_OpenOk")
          /\ session[n].broker \notin {"new", "open"}
      BY <3>2, <3>3 DEF AskedOnce
    <3>5. ~ Granted(n)'
      BY <1>7, <1>10, <1>13, <3>4 DEF Granted
    <3>6. ~ Asked(n)' /\ session'[n].broker \notin {"new", "open"}
      BY <2>7, <3>4 DEF Asked, Passive
    <3>7. \A k \in DOMAIN session : k # n => ~ Asked(k)' /\ ~ Granted(k)'
      BY <2>7, <3>3 DEF Asked, Granted, Passive
    <3>8. \A k \in DOMAIN session : AskedOnce(k)'
      BY <2>7, <3>1, <3>5, <3>6, <3>7 DEF OpensInTurn, AskedOnce, Passive
    <3>9. app'.pc = "channelOpened"
      BY <2>3, <3>3
    <3> QED BY <2>4, <2>7, <3>3, <3>5, <3>6, <3>7, <3>8, <3>9 DEF OpensInTurn
  <2> QED BY <1>11, <2>2, <2>3, <2>5, <2>6, <2>7, <2>8 DEF IInv, TypesOK
<1> QED BY <1>12, <1>13

LEMMA ReceiveKeeps ==
    ASSUME IInv, NEW n \in DOMAIN session, Receive(n)
    PROVE  IInv'
<1> DEFINE type == Head(session[n].inbox)
           s == [session EXCEPT ![n].inbox = Tail(@)]
<1>1. /\ session[n].inbox # <<>>
      /\ IF type = "Disconnected" THEN OnDisconnected(s)
         ELSE IF client.channel0 = None
         THEN session' = Raised(s, "AttributeError") /\ UNCHANGED <<manager, client, app>>
         ELSE IF type \in DOMAIN Sets THEN OnFrame(s, type) ELSE Process(s, type)
  BY DEF Receive
<1>2. manager \in Managers /\ client \in Clients /\ session \in Seq(Sessions)
  BY InvariantIs
<1>3. /\ Passes(session, s, FALSE) /\ s \in Seq(Sessions) /\ Len(s) = Len(session)
      /\ type \in InTypes /\ Includes(session[n].inbox, type)
      /\ Once(session[n].inbox, type) => ~ Includes(s[n].inbox, type)
      /\ \A k \in DOMAIN session : s[k].timer = session[k].timer
  <2>1. s = Rest(session, n)
    BY DEF Rest
  <2>2. Taken(session, n, s)
    BY <1>1, <1>2, <2>1, RestIsTaken
  <2> HIDE DEF s
  <2> QED BY <2>2 DEF Taken
<1> HIDE DEF s, type
<1>4. CASE type = "Disconnected"
  <2>1. /\ \/ manager' = manager
           \/ ~ IsClosed /\ manager' = SM!SetState(manager, "EXCEPTION", Lost, STE)
        /\ session' = s /\ client' = client /\ app' = app
    BY <1>1, <1>4 DEF OnDisconnected
  <2>2. Lost \in Error
    BY DEF Error
  <2>3. manager' \in Managers
    <3>1. SM!SetState(manager, "EXCEPTION", Lost, STE) \in Managers
      BY <1>2, <2>2, StatesAre, SetStateKeepsType
    <3> QED BY <1>2, <2>1, <3>1
  <2>4. client.channel0 = None => manager' = manager
    BY <2>1 DEF IsClosed
  <2> QED BY <1>2, <1>3, <2>1, <2>3, <2>4, AsideKeeps
<1>5. CASE type # "Disconnected" /\ client.channel0 = None
  <2>1. session' = Raised(s, "AttributeError") /\ UNCHANGED <<manager, client, app>>
    BY <1>1, <1>5
  <2>2. "AttributeError" \in Error /\ session # <<>>
    <3>1. session # <<>>
      <4> HIDE DEF Sessions
      <4> QED BY <1>2
    <3> QED BY <3>1 DEF Error
  <2>3. /\ Passes(session, session', FALSE)
        /\ \A k \in DOMAIN session : session'[k].timer => session[k].timer
    BY <1>2, <1>3, <2>1, <2>2, OrRaised
  <2> QED BY <1>2, <2>1, <2>3, AsideKeeps
<1>6. CASE type # "Disconnected" /\ client.channel0 # None /\ type \in DOMAIN Sets
  <2>1. OnFrame(s, type)
    BY <1>1, <1>6
  <2> QED BY <1>3, <1>6, <2>1, OnFrameKeeps
<1>7. CASE type # "Disconnected" /\ client.channel0 # None /\ type \notin DOMAIN Sets
  <2>1. Process(s, type)
    BY <1>1, <1>7
  <2>2. type \in {"OpenOk", "CloseOk"} \cup Replies
    BY <1>3, <1>7 DEF InTypes
  <2> QED BY <1>3, <1>7, <2>1, <2>2, ProcessKeeps
<1> QED BY <1>4, <1>5, <1>6, <1>7

---------------------------------------------------------------------------
(* The broker and the network *)

\* What the broker may answer, from where, to a frame: it opens the channel when it is
\* asked to, and goes back only when it is asked to close it.
MayAnswer(broker, frame, frames, phase) ==
    /\ frames = <<>> \/ \E type \in InTypes : frames = <<type>>
    /\ phase \in Phases
    /\ Includes(frames, "Channel_OpenOk") => frame = "Channel.Open" /\ phase = "channel"
    /\ broker \notin {"new", "open"} /\ phase \in {"new", "open"} =>
           frame = "Channel.Close"

LEMMA BrokerAnswers ==
    ASSUME NEW n \in DOMAIN session, BrokerReads(n), session[n].broker \in Phases
    PROVE  \E frames, phase :
              /\ Answers(n, frames, phase)
              /\ MayAnswer(session[n].broker, Head(session[n].outbox), frames, phase)
<1> DEFINE frame == Head(session[n].outbox)
           broker == session[n].broker
<1>1. \/ /\ broker = "new"
         /\ \E reply \in {"OpenOk"} \cup Refusals, phase \in {"open", "closing"} :
               Answers(n, <<reply>>, phase)
      \/ broker = "open" /\ frame = "Channel.Open" /\ Answers(n, <<"Channel_OpenOk">>, "channel")
      \/ broker = "channel" /\ frame = "Declare" /\ Answers(n, <<"DeclareOk">>, broker)
      \/ /\ broker = "channel" /\ frame = "Channel.Close"
         /\ Answers(n, <<"Channel_CloseOk">>, "open")
      \/ broker \in {"open", "channel"} /\ frame = "Close" /\ Answers(n, <<"CloseOk">>, "gone")
      \/ broker = "closing" /\ frame = "CloseOk" /\ Answers(n, <<>>, "gone")
      \/ Answers(n, <<>>, broker)
  BY DEF BrokerReads
<1>2. \A t : /\ \A type : Includes(<<t>>, type) <=> type = t
             /\ \A type : ~ Includes(<<>>, type)
  BY DEF Includes
<1>3. /\ {"OpenOk", "CloseOk", "Channel_OpenOk", "Channel_CloseOk", "DeclareOk"} \cup Refusals
             \subseteq InTypes
      /\ "Channel_OpenOk" \notin Refusals
  BY StatesAre, ConnectionAssumption DEF InTypes, Replies
<1>4. {"open", "channel", "gone", "closing"} \subseteq Phases
  BY DEF Phases
<1> HIDE DEF frame, broker
<1>5. CASE broker = "new" /\ \E reply \in {"OpenOk"} \cup Refusals, phase \in {"open", "closing"} :
                                Answers(n, <<reply>>, phase)
  <2>1. PICK reply \in {"OpenOk"} \cup Refusals, phase \in {"open", "closing"} :
           Answers(n, <<reply>>, phase)
    BY <1>5
  <2>2. MayAnswer(broker, frame, <<reply>>, phase)
    BY <1>2, <1>3, <1>4, <1>5 DEF MayAnswer
  <2> QED BY <2>1, <2>2 DEF broker, frame
<1>6. CASE broker = "open" /\ frame = "Channel.Open"
           /\ Answers(n, <<"Channel_OpenOk">>, "channel")
  <2>1. MayAnswer(broker, frame, <<"Channel_OpenOk">>, "channel")
    BY <1>2, <1>3, <1>4, <1>6 DEF MayAnswer
  <2> QED BY <1>6, <2>1 DEF broker, frame
<1>7. CASE broker = "channel" /\ frame = "Declare" /\ Answers(n, <<"DeclareOk">>, broker)
  <2>1. MayAnswer(broker, frame, <<"DeclareOk">>, broker)
    BY <1>2, <1>3, <1>4, <1>7 DEF MayAnswer
  <2> QED BY <1>7, <2>1 DEF broker, frame
<1>8. CASE broker = "channel" /\ frame = "Channel.Close"
           /\ Answers(n, <<"Channel_CloseOk">>, "open")
  <2>1. MayAnswer(broker, frame, <<"Channel_CloseOk">>, "open")
    BY <1>2, <1>3, <1>4, <1>8 DEF MayAnswer
  <2> QED BY <1>8, <2>1 DEF broker, frame
<1>9. CASE broker \in {"open", "channel"} /\ frame = "Close" /\ Answers(n, <<"CloseOk">>, "gone")
  <2>1. MayAnswer(broker, frame, <<"CloseOk">>, "gone")
    BY <1>2, <1>3, <1>4, <1>9 DEF MayAnswer
  <2> QED BY <1>9, <2>1 DEF broker, frame
<1>10. CASE broker = "closing" /\ frame = "CloseOk" /\ Answers(n, <<>>, "gone")
  <2>1. MayAnswer(broker, frame, <<>>, "gone")
    BY <1>2, <1>3, <1>4, <1>10 DEF MayAnswer
  <2> QED BY <1>10, <2>1 DEF broker, frame
<1>11. CASE Answers(n, <<>>, broker)
  <2>1. broker \in Phases
    BY DEF broker
  <2>2. MayAnswer(broker, frame, <<>>, broker)
    BY <1>2, <2>1 DEF MayAnswer
  <2> QED BY <1>11, <2>2 DEF broker, frame
<1> QED BY <1>1, <1>5, <1>6, <1>7, <1>8, <1>9, <1>10, <1>11

\* What the broker sends: its frames, and the end of the connection.
LEMMA SentIs ==
    ASSUME NEW frames, frames = <<>> \/ \E type \in InTypes : frames = <<type>>, NEW more,
           more = frames \/ more = Append(frames, "Disconnected")
    PROVE  /\ more \in Seq(InTypes) /\ Once(more, "Channel_OpenOk")
           /\ Includes(more, "Channel_OpenOk") => Includes(frames, "Channel_OpenOk")
<1>1. frames \in Seq(InTypes) /\ Once(frames, "Channel_OpenOk")
  <2>1. CASE frames = <<>>
    BY <2>1 DEF Once
  <2>2. ASSUME NEW type \in InTypes, frames = <<type>>
        PROVE  frames \in Seq(InTypes) /\ Once(frames, "Channel_OpenOk")
    <3>1. frames \in Seq(InTypes) /\ DOMAIN frames = 1..1
      <4> HIDE DEF InTypes
      <4> QED BY <2>2
    <3> QED BY <3>1 DEF Once
  <2> QED BY <2>1, <2>2
<1>2. "Disconnected" \in InTypes /\ "Disconnected" # "Channel_OpenOk"
  BY DEF InTypes
<1>3. CASE more = Append(frames, "Disconnected")
  BY <1>1, <1>2, <1>3, AppendIncludes
<1> QED BY <1>1, <1>3

LEMMA BrokerReadsKeeps ==
    ASSUME IInv, NEW n \in DOMAIN session, BrokerReads(n)
    PROVE  IInv'
<1> DEFINE a == session[n]
<1>1. /\ a.outbox # <<>> /\ manager' = manager /\ client' = client /\ app' = app
  BY DEF BrokerReads
<1>2. /\ manager \in Managers /\ client \in Clients /\ session \in Seq(Sessions)
      /\ app \in Apps /\ a \in Sessions
  <2>1. session \in Seq(Sessions)
    BY InvariantIs
  <2>2. a \in Sessions
    BY <2>1
  <2> QED BY <2>2, InvariantIs
<1>3. /\ a.broker \in Phases /\ a.outbox \in Seq(OutTypes) /\ a.inbox \in Seq(InTypes)
  BY <1>2 DEF Sessions
<1>4. PICK frames, phase :
         Answers(n, frames, phase) /\ MayAnswer(a.broker, Head(a.outbox), frames, phase)
  BY <1>3, BrokerAnswers
<1> DEFINE more == IF phase = "gone" THEN Append(frames, "Disconnected") ELSE frames
           socket == IF phase = "gone" THEN "lost" ELSE a.socket
           r == [a EXCEPT !.outbox = Tail(a.outbox), !.broker = phase,
                          !.inbox = a.inbox \o more, !.socket = socket]
<1>5. session' = [session EXCEPT ![n] = r]
  BY <1>2, <1>4 DEF Answers
<1>6. /\ more \in Seq(InTypes) /\ Once(more, "Channel_OpenOk")
      /\ Includes(more, "Channel_OpenOk") => Includes(frames, "Channel_OpenOk")
  BY <1>4, SentIs DEF MayAnswer
<1>7. phase \in Phases /\ socket \in {"dialing", "made", "silent", "lost", "closed"}
  BY <1>2, <1>4 DEF MayAnswer, Sessions
<1> HIDE DEF more, socket
<1>8. /\ a.inbox \o more \in Seq(InTypes)
      /\ \A type : Includes(a.inbox \o more, type) <=>
                       Includes(a.inbox, type) \/ Includes(more, type)
      /\ \A type : Once(a.inbox, type) /\ ~ Includes(more, type)
                       => Once(a.inbox \o more, type)
      /\ \A type : ~ Includes(a.inbox, type) /\ Once(more, type)
                       => Once(a.inbox \o more, type)
  BY <1>3, <1>6, ConcatIncludes
<1>9. /\ Tail(a.outbox) \in Seq(OutTypes) /\ Includes(a.outbox, Head(a.outbox))
      /\ \A type : Includes(Tail(a.outbox), type) => Includes(a.outbox, type)
      /\ \A type : Once(a.outbox, type) => Once(Tail(a.outbox), type)
      /\ Once(a.outbox, Head(a.outbox)) => ~ Includes(Tail(a.outbox), Head(a.outbox))
  BY <1>1, <1>3, TailIncludes
<1>10. /\ r \in Sessions /\ r.inbox = a.inbox \o more /\ r.outbox = Tail(a.outbox)
       /\ r.broker = phase /\ r.timer = a.timer /\ r.opened = a.opened
       /\ r.channel0 = a.channel0
  BY <1>2, <1>7, <1>8, <1>9 DEF Sessions
<1> HIDE DEF r
<1>11. /\ session' \in Seq(Sessions) /\ Len(session') = Len(session)
       /\ DOMAIN session' = DOMAIN session /\ session'[n] = r
       /\ \A k \in DOMAIN session \ {n} : session'[k] = session[k]
  <2> HIDE DEF Sessions
  <2> QED BY <1>2, <1>5, <1>10
<1>12. Newest' = Newest
  BY <1>11 DEF Newest
<1>13. Current' /\ Retries'
  BY <1>1, <1>12 DEF IInv, Current, Retries
<1>14. \A k \in DOMAIN session :
          /\ session'[k].timer => session[k].timer
          /\ session[k].opened => session'[k].opened
          /\ session'[k].channel0 = session[k].channel0
          /\ \A type : Includes(session'[k].outbox, type) => Includes(session[k].outbox, type)
  <2> TAKE k \in DOMAIN session
  <2>1. CASE k = n
    BY <1>9, <1>10, <1>11, <2>1
  <2>2. CASE k # n
    <3>1. session'[k] = session[k]
      BY <1>11, <2>2
    <3> QED BY <3>1
  <2> QED BY <2>1, <2>2
<1>15. app.pc \in Openings => Newest \in DOMAIN session
  BY InvariantIs
<1>16. Timed'
  <2>1. Timed /\ (app.pc = "dialing" => Newest \in DOMAIN session)
    BY <1>15 DEF IInv, Openings
  <2>2. DOMAIN session' = DOMAIN session
    BY <1>11
  <2>3. \A k \in DOMAIN session' :
           session'[k].timer => session'[k].opened \/ session'[k].channel0 # "opening"
    BY <1>14, <2>1, <2>2 DEF Timed
  <2>4. app'.pc = "dialing" => ~ session'[Newest].timer
    BY <1>1, <1>14, <2>1 DEF Timed
  <2> QED BY <1>12, <2>3, <2>4 DEF Timed
<1>17. NoneCloses'
  <2>1. NoneCloses /\ (app.pc \in Openings => Newest \in DOMAIN session)
    BY <1>15 DEF IInv
  <2>2. app'.pc \in Openings => ~ Includes(session'[Newest].outbox, "Channel.Close")
    BY <1>1, <1>14, <2>1 DEF NoneCloses, Openings
  <2> QED BY <1>12, <2>2 DEF NoneCloses, Openings
<1>18. ASSUME ~ app'.stale PROVE OpensInTurn'
  <2>1. OpensInTurn
    BY <1>1, <1>18 DEF IInv
  <2>2. /\ ~ (Asked(n) /\ Granted(n)) /\ Once(a.outbox, "Channel.Open")
        /\ Once(a.inbox, "Channel_OpenOk")
        /\ Granted(n) => a.broker \notin {"new", "open"}
    BY <2>1 DEF OpensInTurn, AskedOnce
  <2>3. Includes(more, "Channel_OpenOk") =>
            /\ Asked(n) /\ phase = "channel" /\ ~ Includes(Tail(a.outbox), "Channel.Open")
    BY <1>4, <1>6, <1>9, <2>2 DEF MayAnswer, Asked
  <2>4. Granted(n)' <=> Granted(n) \/ Includes(more, "Channel_OpenOk")
    BY <1>8, <1>10, <1>11 DEF Granted
  <2>5. Asked(n)' <=> Includes(Tail(a.outbox), "Channel.Open")
    BY <1>10, <1>11 DEF Asked
  <2>6. Asked(n)' => Asked(n)
    BY <1>9, <2>5 DEF Asked
  <2>7. a.broker \notin {"new", "open"} /\ n = Newest
           /\ app.pc \in {"openingChannel", "channelOpened"} =>
               phase \notin {"new", "open"}
    <3>1. ASSUME n = Newest, app.pc \in {"openingChannel", "channelOpened"}
          PROVE  Head(a.outbox) # "Channel.Close"
      BY <1>9, <3>1 DEF IInv, NoneCloses
    <3> QED BY <1>4, <3>1 DEF MayAnswer
  <2>8. AskedOnce(n)'
    <3>1. ~ (Asked(n)' /\ Granted(n)')
      BY <2>2, <2>3, <2>4, <2>5, <2>6
    <3>2. Once(session'[n].outbox, "Channel.Open")
      BY <1>9, <1>10, <1>11, <2>2
    <3>3. Once(session'[n].inbox, "Channel_OpenOk")
      <4>1. CASE Includes(more, "Channel_OpenOk")
        <5>1. ~ Includes(a.inbox, "Channel_OpenOk")
          BY <2>2, <2>3, <4>1 DEF Granted
        <5> QED BY <1>6, <1>8, <1>10, <1>11, <5>1
      <4>2. CASE ~ Includes(more, "Channel_OpenOk")
        BY <1>8, <1>10, <1>11, <2>2, <4>2
      <4> QED BY <4>1, <4>2
    <3>4. Granted(n)' => session'[n].broker \notin {"new", "open"}
      <4>1. CASE Includes(more, "Channel_OpenOk")
        BY <1>10, <1>11, <2>3, <4>1
      <4>2. CASE Granted(n)
        <5>1. n = Newest /\ app.pc = "openingChannel"
          BY <2>1, <4>2 DEF OpensInTurn
        <5> QED BY <1>10, <1>11, <2>2, <2>7, <4>2, <5>1
      <4> QED BY <2>4, <4>1, <4>2
    <3> QED BY <3>1, <3>2, <3>3, <3>4 DEF AskedOnce
  <2>9. \A k \in DOMAIN session : k # n =>
            /\ AskedOnce(k)' /\ (Asked(k)' <=> Asked(k)) /\ (Granted(k)' <=> Granted(k))
    BY <1>11, <2>1 DEF OpensInTurn, AskedOnce, Asked, Granted
  <2>10. \A k \in DOMAIN session : Asked(k)' \/ Granted(k)' => Asked(k) \/ Granted(k)
    BY <2>3, <2>4, <2>6, <2>9
  <2>11. app'.pc = "channelOpened" => session'[Newest].broker \notin {"new", "open"}
    <3>1. ASSUME app.pc = "channelOpened"
          PROVE  session'[Newest].broker \notin {"new", "open"}
      <4>1. session[Newest].broker \notin {"new", "open"} /\ Newest \in DOMAIN session
        BY <1>15, <2>1, <3>1 DEF OpensInTurn, Openings
      <4>2. CASE Newest = n
        BY <1>10, <1>11, <2>7, <3>1, <4>1, <4>2
      <4>3. CASE Newest # n
        BY <1>11, <4>1, <4>3
      <4> QED BY <4>2, <4>3
    <3> QED BY <1>1, <3>1
  <2> QED BY <1>1, <1>11, <1>12, <2>1, <2>8, <2>9, <2>10, <2>11 DEF OpensInTurn
<1> QED BY <1>1, <1>2, <1>11, <1>13, <1>16, <1>17, <1>18 DEF IInv, TypesOK

\* The network and the broker act on one session, and leave the client alone.
LEMMA NetworkKeeps ==
    ASSUME IInv, NEW n \in DOMAIN session, NEW r \in Sessions,
           session' = [session EXCEPT ![n] = r], r.timer = session[n].timer,
           Passive(session[n], r, FALSE), UNCHANGED <<manager, client, app>>
    PROVE  IInv'
<1>1. manager \in Managers /\ client \in Clients /\ session \in Seq(Sessions)
  BY InvariantIs
<1>2. Passes(session, session', FALSE)
  BY <1>1, PassesOne
<1>3. \A k \in DOMAIN session : session'[k].timer => session[k].timer
  <2> TAKE k \in DOMAIN session
  <2>1. session'[k] = IF k = n THEN r ELSE session[k]
    BY <1>1
  <2> QED BY <2>1
<1> QED BY <1>1, <1>2, <1>3, AsideKeeps

LEMMA BrokerClosesKeeps ==
    ASSUME IInv, NEW n \in DOMAIN session, BrokerCloses(n)
    PROVE  IInv'
<1> DEFINE a == session[n]
           r == [a EXCEPT !.inbox = Append(a.inbox, "ConnectionForced"), !.broker = "closing"]
<1>1. a \in Sessions /\ a.inbox \in Seq(InTypes)
  <2>1. session \in Seq(Sessions)
    BY InvariantIs
  <2>2. a \in Sessions
    BY <2>1
  <2> QED BY <2>2 DEF Sessions
<1>2. "ConnectionForced" \in InTypes /\ "ConnectionForced" # "Channel_OpenOk"
  BY DEF InTypes, Replies
<1>3. /\ Append(a.inbox, "ConnectionForced") \in Seq(InTypes)
      /\ \A type : Includes(Append(a.inbox, "ConnectionForced"), type) <=>
                       Includes(a.inbox, type) \/ "ConnectionForced" = type
      /\ Once(a.inbox, "Channel_OpenOk") =>
             Once(Append(a.inbox, "ConnectionForced"), "Channel_OpenOk")
  BY <1>1, <1>2, AppendIncludes
<1>4. /\ r \in Sessions /\ r.inbox = Append(a.inbox, "ConnectionForced")
      /\ r.outbox = a.outbox /\ r.broker = "closing" /\ r.timer = a.timer
      /\ r.opened = a.opened /\ r.channel0 = a.channel0
  BY <1>1, <1>3 DEF Sessions, Phases
<1>5. session' = [session EXCEPT ![n] = r] /\ UNCHANGED <<manager, client, app>>
  BY DEF BrokerCloses
<1> HIDE DEF r
<1>6. Passive(a, r, FALSE)
  BY <1>2, <1>3, <1>4 DEF Passive
<1> QED BY <1>4, <1>5, <1>6, NetworkKeeps

LEMMA SocketStallsKeeps ==
    ASSUME IInv, NEW n \in DOMAIN session, SocketStalls(n)
    PROVE  IInv'
<1> DEFINE a == session[n]
           r == [a EXCEPT !.socket = "silent", !.inbox = <<>>]
<1>1. a \in Sessions
  <2>1. session \in Seq(Sessions)
    BY InvariantIs
  <2> QED BY <2>1
<1>2. /\ r \in Sessions /\ r.inbox = <<>> /\ r.outbox = a.outbox /\ r.broker = a.broker
      /\ r.timer = a.timer /\ r.opened = a.opened /\ r.channel0 = a.channel0
  <2>1. <<>> \in Seq(InTypes)
    <3> HIDE DEF InTypes
    <3> QED OBVIOUS
  <2> QED BY <1>1, <2>1 DEF Sessions
<1>3. session' = [session EXCEPT ![n] = r] /\ UNCHANGED <<manager, client, app>>
  BY DEF SocketStalls
<1> HIDE DEF r
<1>4. ~ Includes(<<>>, "Channel_OpenOk") /\ Once(<<>>, "Channel_OpenOk")
  BY DEF Includes, Once
<1>5. Passive(a, r, FALSE)
  BY <1>2, <1>4 DEF Passive
<1> QED BY <1>2, <1>3, <1>5, NetworkKeeps

LEMMA SocketLostKeeps ==
    ASSUME IInv, NEW n \in DOMAIN session, SocketLost(n)
    PROVE  IInv'
<1> DEFINE a == session[n]
<1>1. a \in Sessions /\ a.inbox \in Seq(InTypes)
  <2>1. session \in Seq(Sessions)
    BY InvariantIs
  <2>2. a \in Sessions
    BY <2>1
  <2> QED BY <2>2 DEF Sessions
<1>2. PICK k \in 0..Len(a.inbox) :
         session' = [session EXCEPT ![n].socket = "lost", ![n].outbox = <<>>,
                                    ![n].inbox = Append(SubSeq(@, 1, k), "Disconnected")]
  BY DEF SocketLost
<1> DEFINE some == SubSeq(a.inbox, 1, k)
           r == [a EXCEPT !.socket = "lost", !.outbox = <<>>,
                          !.inbox = Append(some, "Disconnected")]
<1>3. session' = [session EXCEPT ![n] = r] /\ UNCHANGED <<manager, client, app>>
  BY <1>2 DEF SocketLost
<1>4. /\ some \in Seq(InTypes)
      /\ \A type : Includes(some, type) => Includes(a.inbox, type)
      /\ \A type : Once(a.inbox, type) => Once(some, type)
  BY <1>1, PrefixIncludes
<1> HIDE DEF some
<1>5. "Disconnected" \in InTypes /\ "Disconnected" # "Channel_OpenOk"
  BY DEF InTypes
<1>6. /\ Append(some, "Disconnected") \in Seq(InTypes)
      /\ \A type : Includes(Append(some, "Disconnected"), type) <=>
                       Includes(some, type) \/ "Disconnected" = type
      /\ Once(some, "Channel_OpenOk") =>
             Once(Append(some, "Disconnected"), "Channel_OpenOk")
  BY <1>4, <1>5, AppendIncludes
<1>7. /\ r \in Sessions /\ r.inbox = Append(some, "Disconnected") /\ r.outbox = <<>>
      /\ r.broker = a.broker /\ r.timer = a.timer /\ r.opened = a.opened
      /\ r.channel0 = a.channel0
  <2>1. <<>> \in Seq(OutTypes)
    <3> HIDE DEF OutTypes
    <3> QED OBVIOUS
  <2> QED BY <1>1, <1>6, <2>1 DEF Sessions
<1> HIDE DEF r
<1>8. /\ \A type : ~ Includes(<<>>, type)
      /\ Once(<<>>, "Channel.Open")
  BY DEF Includes, Once
<1>9. Passive(a, r, FALSE)
  BY <1>4, <1>5, <1>6, <1>7, <1>8 DEF Passive
<1> QED BY <1>3, <1>7, <1>9, NetworkKeeps

---------------------------------------------------------------------------
(* The invariant *)

LEMMA InitHas == Init => IInv
<1> SUFFICES ASSUME Init PROVE IInv
  OBVIOUS
<1>1. manager \in Managers
  <2>1. {} \in Events /\ <<>> \in Seq(Events)
    <3>1. {} \in Events
      BY DEF Events
    <3> HIDE DEF Events
    <3> QED BY <3>1
  <2>2. "DISCONNECTED" \in ClientState
    BY StatesAre
  <2>3. manager = [state |-> "DISCONNECTED", exception |-> None, waits |-> {},
                   ready |-> <<>>, fired |-> {}]
    BY DEF Init, SM!NewManager
  <2> QED BY <2>1, <2>2, <2>3, ManagersAre
<1>2. app \in Apps /\ app.pc = "idle" /\ app.call = None /\ app.result = None
  <2>1. MaxCalls \in Int
    BY ConnectionAssumption
  <2> QED BY <2>1 DEF Init, Apps, Pcs
<1>3. client \in Clients /\ client.channel0 = None /\ client.transport = None
  BY DEF Init, Clients
<1>4. session = <<>> /\ session \in Seq(Sessions) /\ DOMAIN session = {}
  <2> HIDE DEF Sessions
  <2> QED BY DEF Init
<1>5. app.call # "connect" \/ app.result \notin ResetErrors
  BY <1>2 DEF ResetErrors
<1>6. Current /\ Timed /\ NoneCloses /\ OpensInTurn
  BY <1>2, <1>3, <1>4 DEF Current, Timed, NoneCloses, OpensInTurn, Init
<1>7. Retries
  BY <1>5 DEF Retries
<1> QED BY <1>1, <1>2, <1>3, <1>4, <1>6, <1>7 DEF IInv, TypesOK

LEMMA StutterKeeps ==
    ASSUME IInv, UNCHANGED vars
    PROVE  IInv'
<1>1. manager \in Managers /\ client \in Clients /\ session \in Seq(Sessions)
  BY InvariantIs
<1>2. manager' = manager /\ client' = client /\ session' = session /\ app' = app
  BY DEF vars
<1>3. Passes(session, session', FALSE)
  BY <1>1, <1>2, PassesSame
<1> QED BY <1>1, <1>2, <1>3, AsideKeeps

LEMMA NextKeeps ==
    ASSUME IInv, Next
    PROVE  IInv'
<1>1. CASE Call
  BY <1>1, ConnectKeeps, DeclareKeeps, CloseKeeps DEF Call
<1>2. CASE Proceeds
  BY <1>2, DialFailsKeeps, ConnectedKeeps, DialReturnsKeeps, OpenRaisesKeeps,
     OpenReturnsKeeps, OpenRefusedKeeps, ChannelOpenedKeeps, ReconnectKeeps,
     PollAnsweredKeeps, PollRaisesKeeps, CloseReturnsKeeps, CloseRaisesKeeps DEF Proceeds
<1>3. CASE RunReady
  BY <1>3, RunReadyKeeps
<1>4. ASSUME NEW n \in DOMAIN session,
             \/ Receive(n) \/ HeartbeatsMissed(n)
             \/ BrokerReads(n) \/ BrokerCloses(n) \/ SocketStalls(n) \/ SocketLost(n)
      PROVE  IInv'
  BY <1>4, ReceiveKeeps, HeartbeatsMissedKeeps, BrokerReadsKeeps, BrokerClosesKeeps,
     SocketStallsKeeps, SocketLostKeeps
<1> QED BY <1>1, <1>2, <1>3, <1>4 DEF Next

\* IInv is invariant: the client has the newest session or none, only an answered
\* session has a timer, nothing touches a client that connect() has reset, and, when
\* connect() was never called with _channel_open still set, the only request or grant
\* of a channel under way is that of the newest session.
THEOREM ConnectionInvariance == Spec => []IInv
<1>1. Init => IInv
  BY InitHas
<1>2. IInv /\ [Next]_vars => IInv'
  BY NextKeeps, StutterKeeps
<1> QED BY <1>1, <1>2, PTL DEF Spec

---------------------------------------------------------------------------
(* What follows *)

LEMMA InvariantTypes == IInv => TypeOK
<1> SUFFICES ASSUME IInv PROVE TypeOK
  OBVIOUS
<1>1. /\ manager.state \in ClientState /\ manager.exception \in Error \cup {None}
      /\ client \in Clients
  BY InvariantIs
<1>2. client.lastError \in Error \cup {None}
  BY <1>1 DEF Clients
<1> QED BY <1>1, <1>2 DEF TypeOK, IInv, Current, Timed

\* The client has the Channel0 of the session that was tried last or none, and in a
\* call that waits for the broker the transport of that session: whatever is tried,
\* refused, lost or closed, and however the callbacks of old sessions come between.
THEOREM ConnectionTypeCorrect == Spec => []TypeOK
<1> QED BY ConnectionInvariance, InvariantTypes, PTL

LEMMA InvariantRetries == IInv => ConnectCanBeRetried
<1> SUFFICES ASSUME IInv, app.pc = "idle" /\ app.call = "connect" /\ app.result \in ResetErrors
             PROVE  IsClosed /\ ~ Refuses(manager, "CONNECTING")
  BY DEF ConnectCanBeRetried
<1>1. client.channel0 = None /\ manager.state = "CLOSED"
  BY DEF IInv, Retries
<1> QED BY <1>1, ClosedConnects DEF IsClosed, Refuses, SM!Refuses

\* After connect() has failed for a reason it knows, nothing that an old connection
\* does keeps it from being tried again.
THEOREM RetriesAfterFailure == Spec => []ConnectCanBeRetried
<1> QED BY ConnectionInvariance, InvariantRetries, PTL

\* When the step that ends the call is taken, the invariant has the rest.
LEMMA ReconnectedStep ==
    ASSUME IInv, ~ app.stale, app.pc = "channelOpened"
    PROVE  client.transport = Newest /\ session[Newest].broker # "open"
BY DEF IInv, Current, OpensInTurn

\* A call that comes back from a connection made in place of another comes back when
\* the broker has opened a channel on the newest connection, as long as connect() was
\* never called with _channel_open still set.
THEOREM ComesBackWithChannel == Spec => ReconnectedWithChannel
<1>1. IInv /\ [Next]_vars =>
          [(~ app.stale /\ app.again /\ app.pc = "channelOpened" /\ app'.pc = "idle") =>
              client.transport = Newest /\ session[Newest].broker # "open"]_vars
  BY ReconnectedStep
<1> QED BY <1>1, ConnectionInvariance, PTL DEF Spec, ReconnectedWithChannel
=============================================================================
