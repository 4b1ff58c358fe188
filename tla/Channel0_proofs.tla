--------------------------- MODULE Channel0_proofs ---------------------------
(***************************************************************************)
(* Proofs about Channel0, for every heartbeat interval and channel limit   *)
(* that either side asks for, and any number of frames: the inductive      *)
(* invariant, and from it the safety properties of the run channel0.       *)
(***************************************************************************)
EXTENDS Channel0, TLAPS

---------------------------------------------------------------------------
(* The inductive invariant *)

States == DOMAIN Transitions
Managers == SM!ManagerWith(Error)
Offers == [limit : Nat, heartbeat : Nat]
Phases == {"idle", "starting", "tuning", "tuned", "open", "closing", "closed"}

InFrame == [type : {"Start"}, supported : BOOLEAN]
           \cup [type : {"Tune"}, limit : Nat, heartbeat : Nat]
           \cup [type : {"OpenOk", "Blocked", "Unblocked", "Close", "CloseOk",
                         "Heartbeat", "Traffic", "Other"}]
OutFrame == [type : {"TuneOk"}, settings : Settings]
            \cup [type : {"ProtocolHeader", "StartOk", "Open", "Close", "CloseOk",
                          "Heartbeat"}]

Elements(frames) == {frames[i] : i \in DOMAIN frames}

\* What TypeOK leaves out: the socket and the broker.
WireOK ==
    /\ inbox \in Seq(InFrame)
    /\ outbox \in Seq(OutFrame)
    /\ broker \in [phase : Phases, blocked : BOOLEAN, unsolicited : Nat,
                   accepted : BOOLEAN, agreed : Settings \cup {None},
                   offered : Offers \cup {None}]

\* Before open() nothing is sent either way.
NotOpened ==
    task.open = "idle" =>
        /\ broker.phase = "idle" /\ inbox = <<>> /\ outbox = <<>>
        /\ manager.state \in {"UNINITIALIZED", "EXCEPTION"}
        /\ task.close = "idle"

\* The protocol header is the first frame the broker gets, and the only one.
HeaderIsFirst ==
    /\ broker.phase = "idle" => inbox = <<>>
    /\ \A i \in DOMAIN outbox : outbox[i].type = "ProtocolHeader" =>
                                    i = 1 /\ broker.phase = "idle"

BeforeTune == {"UNINITIALIZED", "PROTOCOL_HEADER_SENT", "START_RECEIVED", "STARTOK_SENT"}

\* The settings are final and within what the broker offered.
Settled ==
    /\ manager.state \notin BeforeTune
    /\ broker.phase \notin {"idle", "starting"}
    /\ settings.heartbeat \in Nat
    /\ broker.offered.limit # 0 => settings.limit \in 1..broker.offered.limit

TuneIsOffered ==
    \A frame \in Elements(inbox) :
        frame.type = "Tune" => /\ broker.phase \notin {"idle", "starting"}
                               /\ frame.limit = broker.offered.limit

TuneOkIsSettled ==
    \A frame \in Elements(outbox) :
        frame.type = "TuneOk" => Settled /\ frame.settings = settings

AgreedIsSettled ==
    broker.phase = "tuned" \/ broker.accepted => Settled /\ broker.agreed = settings

OpenOkIsAcceptance ==
    (\/ "OpenOk" \in Types(inbox)
     \/ <<"OPENOK_RECEIVED", "open">> \in SM!Pending(manager)
     \/ task.open = "true")
    => broker.accepted

CloseOkSentIsReported ==
    (\/ <<"CLOSEOK_SENT", "open">> \in SM!Pending(manager)
     \/ task.open = "false")
    => "closed by broker" \in reported

\* The timer is armed by open() alone, and time only passes while it is.
TimerIsOpens ==
    /\ task.open \in {"idle", "waiting"} => ~ Armed /\ silence \in {None, 0}
    /\ task.close # "idle" /\ task.orderly => ~ Armed /\ task.open # "waiting"

\* The next check comes before the third interval of silence ends.
CheckIsInTime ==
    (/\ task.open = "true" /\ task.close = "idle" /\ settings.heartbeat # 0
     /\ "missed heartbeats" \notin reported)
    => /\ timer \in 0..settings.heartbeat
       /\ silence # None => silence + timer <= 3 * settings.heartbeat

IInv ==
    /\ TypeOK /\ WireOK
    /\ manager.state # "TUNE_RECEIVED"
    /\ NotOpened /\ HeaderIsFirst
    /\ TuneIsOffered /\ TuneOkIsSettled /\ AgreedIsSettled
    /\ OpenOkIsAcceptance /\ CloseOkSentIsReported
    /\ TimerIsOpens /\ CheckIsInTime
---------------------------------------------------------------------------
(* What the operators of the state manager do to this table *)

Waiters == {"open", "close"}

\* From m to n: a state of S is entered last, and no other events are scheduled
\* than those of the states in S.
Moves(m, n, S) ==
    /\ n \in Managers
    /\ n.state \in S
    /\ SM!Pending(n) \subseteq SM!Pending(m) \cup (S \X Waiters)

LEMMA StatesAre ==
    States = {"UNINITIALIZED", "EXCEPTION", "PROTOCOL_HEADER_SENT", "START_RECEIVED",
              "STARTOK_SENT", "TUNE_RECEIVED", "TUNEOK_SENT", "OPEN_SENT",
              "OPENOK_RECEIVED", "CLOSE_RECEIVED", "CLOSE_SENT", "CLOSEOK_RECEIVED",
              "CLOSEOK_SENT", "BLOCKED_RECEIVED", "UNBLOCKED_RECEIVED",
              "HEARTBEAT_RECEIVED", "HEARTBEAT_SENT"}
BY DEF States, Transitions

\* Where the states of the handshake are entered from.
LEMMA Handshake ==
    ASSUME NEW s \in States
    PROVE  /\ "PROTOCOL_HEADER_SENT" \in Transitions[s] =>
                s \in {"UNINITIALIZED", "CLOSEOK_RECEIVED", "CLOSEOK_SENT"}
           /\ "START_RECEIVED" \in Transitions[s] => s = "PROTOCOL_HEADER_SENT"
           /\ "STARTOK_SENT" \in Transitions[s] => s = "START_RECEIVED"
           /\ "TUNE_RECEIVED" \in Transitions[s] => s = "STARTOK_SENT"
BY StatesAre DEF Transitions

\* Accepted states, and the ones the handlers go on to.
LEMMA HandlersGoOn ==
    /\ "STARTOK_SENT" \in Transitions["START_RECEIVED"]
    /\ "TUNEOK_SENT" \in Transitions["TUNE_RECEIVED"]
    /\ "OPEN_SENT" \in Transitions["TUNEOK_SENT"]
    /\ "CLOSEOK_SENT" \in Transitions["CLOSE_RECEIVED"]
    /\ "HEARTBEAT_SENT" \in Transitions["HEARTBEAT_RECEIVED"]
BY DEF Transitions

\* The closed states, and the first, are left by open() and close() alone.
LEMMA ClosedTable ==
    /\ Transitions["UNINITIALIZED"] = {"PROTOCOL_HEADER_SENT"}
    /\ Transitions["CLOSEOK_RECEIVED"] = {"PROTOCOL_HEADER_SENT"}
    /\ Transitions["CLOSEOK_SENT"] = {"PROTOCOL_HEADER_SENT"}
    /\ Transitions["EXCEPTION"] = {"CLOSE_SENT"}
BY DEF Transitions

\* A state that is accepted, or the current one set again.
LEMMA EnterMoves ==
    ASSUME NEW m \in Managers, NEW value \in States, NEW exc \in Error \cup {None},
           ~ SM!Refuses(m, value, exc)
    PROVE  /\ Moves(m, Enter(m, value, exc), {value})
           /\ Enter(m, value, exc).exception = exc
<1> DEFINE n == Enter(m, value, exc)
<1>1. /\ m \in SM!ManagerWith(Error)
      /\ m.ready \in Seq(SUBSET (States \X Waiters))
      /\ m.waits \in SUBSET (States \X Waiters)
      /\ m.fired \in SUBSET (States \X Waiters)
  BY DEF Managers, SM!ManagerWith, SM!Event, States, Waiters
<1>2. CASE SM!Unchanged(m, value, exc)
  <2>1. n = m
    BY <1>2 DEF Enter, SM!SetState
  <2> QED BY <2>1, <1>2 DEF SM!Unchanged, Moves
<1>3. CASE ~ SM!Unchanged(m, value, exc)
  <2>1. n = SM!Enter(m, value, exc)
    BY <1>3 DEF Enter, SM!SetState
  <2>2. SM!Scheduled(m, value) \in SUBSET (States \X Waiters)
    BY <1>1 DEF SM!Scheduled
  <2>3. /\ n.state = value /\ n.exception = exc /\ n.fired = m.fired
        /\ n.waits = m.waits
        /\ n.ready = IF SM!Scheduled(m, value) = {} THEN m.ready
                     ELSE Append(m.ready, SM!Scheduled(m, value))
        /\ n = [state |-> n.state, exception |-> n.exception, waits |-> n.waits,
                ready |-> n.ready, fired |-> n.fired]
    BY <1>1, <2>1 DEF SM!Enter, SM!ManagerWith
  <2>4. n.ready \in Seq(SUBSET (States \X Waiters))
    BY <1>1, <2>2, <2>3
  <2>5. n \in Managers
    BY <1>1, <2>3, <2>4 DEF Managers, SM!ManagerWith, SM!Event, States, Waiters
  <2>6. ASSUME NEW e \in SM!Pending(n), e \notin SM!Pending(m)
        PROVE  e \in {value} \X Waiters
    <3>1. /\ e \in States \X Waiters
          /\ \E i \in DOMAIN n.ready : e \in n.ready[i]
          /\ \A i \in DOMAIN m.ready : e \notin m.ready[i]
      BY <2>6, <2>3 DEF SM!Pending, SM!Event, States, Waiters
    <3>2. n.ready = Append(m.ready, SM!Scheduled(m, value))
      BY <3>1, <2>3
    <3>3. e \in SM!Scheduled(m, value)
      BY <3>1, <3>2, <2>2, <1>1
    <3> QED BY <3>1, <3>3 DEF SM!Scheduled
  <2> QED BY <2>3, <2>5, <2>6 DEF Moves
<1> QED BY <1>2, <1>3

LEMMA MovesOn ==
    ASSUME NEW m, NEW n, NEW k, NEW S, NEW T, Moves(m, n, S), Moves(n, k, T)
    PROVE  /\ k \in Managers /\ k.state \in T
           /\ SM!Pending(k) \subseteq SM!Pending(m) \cup ((S \cup T) \X Waiters)
BY DEF Moves

\* Two states in a row, the second one from the table.
LEMMA EnterAllMoves ==
    ASSUME NEW m \in Managers, NEW first \in States, NEW second \in States,
           ~ SM!Refuses(m, first, None), second \in Transitions[first]
    PROVE  /\ Moves(m, EnterAll(m, first, second), {first, second})
           /\ EnterAll(m, first, second).state = second
           /\ EnterAll(m, first, second).exception = None
<1>1. /\ Moves(m, Enter(m, first, None), {first})
      /\ Enter(m, first, None).exception = None
  BY EnterMoves
<1>2. Enter(m, first, None) \in Managers /\ Enter(m, first, None).state = first
  BY <1>1 DEF Moves
<1>3. ~ SM!Refuses(Enter(m, first, None), second, None)
  BY <1>2 DEF SM!Refuses
<1>4. /\ Moves(Enter(m, first, None), EnterAll(m, first, second), {second})
      /\ EnterAll(m, first, second).exception = None
  BY <1>2, <1>3, EnterMoves DEF EnterAll
<1> QED BY <1>1, <1>4, MovesOn DEF Moves

\* What reaches the loop's exception handler.
LEMMA OnExceptionMoves ==
    ASSUME NEW m \in Managers, NEW exc \in Error
    PROVE  Moves(m, SM!OnException(m, exc), {"EXCEPTION"})
<1>1. "EXCEPTION" \in States
  BY StatesAre
<1>2. ~ SM!Refuses(m, "EXCEPTION", exc)
  BY DEF SM!Refuses
<1>3. SM!OnException(m, exc) = SM!SetState(m, "EXCEPTION", exc, exc)
  BY DEF SM!OnException
<1>4. SM!SetState(m, "EXCEPTION", exc, exc) = Enter(m, "EXCEPTION", exc)
  BY <1>2 DEF Enter, SM!SetState
<1> QED BY <1>1, <1>2, <1>3, <1>4, EnterMoves

LEMMA RefuseKeeps ==
    ASSUME NEW m \in Managers, NEW exc \in Error
    PROVE  /\ SM!Refuse(m, exc) \in Managers
           /\ SM!Refuse(m, exc).state = m.state
           /\ SM!Pending(SM!Refuse(m, exc)) = SM!Pending(m)
<1>1. m \in SM!ManagerWith(Error)
  BY DEF Managers
<1> QED BY <1>1 DEF SM!Refuse, SM!Pending, Managers, SM!ManagerWith

\* A refusal inside a callback of the loop ends in EXCEPTION.
LEMMA RefusedCallbackMoves ==
    ASSUME NEW m \in Managers, NEW value, NEW exc \in Error,
           SM!Refuses(m, value, None)
    PROVE  Moves(m, SM!SetStateInCallback(m, value, None, exc), {"EXCEPTION"})
<1>1. Moves(SM!Refuse(m, exc), SM!OnException(SM!Refuse(m, exc), exc), {"EXCEPTION"})
  BY RefuseKeeps, OnExceptionMoves
<1>2. SM!SetStateInCallback(m, value, None, exc) = SM!OnException(SM!Refuse(m, exc), exc)
  BY DEF SM!SetStateInCallback
<1> QED BY <1>1, <1>2, RefuseKeeps DEF Moves

\* The steps that enter no state.
Keeps(m, n) ==
    /\ n \in Managers
    /\ n.state = m.state
    /\ SM!Pending(n) \subseteq SM!Pending(m)

LEMMA RunCallbacksKeeps ==
    ASSUME NEW m \in Managers, m.ready # <<>>
    PROVE  Keeps(m, SM!RunCallbacks(m))
<1> DEFINE n == SM!RunCallbacks(m)
           Events == SUBSET (States \X Waiters)
<1>1. /\ m \in SM!ManagerWith(Error)
      /\ m.ready \in Seq(Events) /\ m.fired \in Events /\ m.waits \in Events
  BY DEF Managers, SM!ManagerWith, SM!Event, States, Waiters
<1>2. /\ n.state = m.state /\ n.exception = m.exception /\ n.waits = m.waits
      /\ n.fired = m.fired \cup Head(m.ready)
      /\ n.ready = Tail(m.ready)
  BY <1>1 DEF SM!RunCallbacks, SM!ManagerWith
<1> HIDE DEF Events
<1>3. /\ Len(m.ready) \in Nat /\ Len(m.ready) > 0
      /\ DOMAIN m.ready = 1..Len(m.ready)
      /\ Head(m.ready) = m.ready[1] /\ Head(m.ready) \in Events
      /\ n.ready \in Seq(Events)
      /\ DOMAIN n.ready = 1..(Len(m.ready) - 1)
      /\ \A i \in DOMAIN n.ready : n.ready[i] = m.ready[i + 1]
  BY <1>1, <1>2
<1>4. n \in Managers
  BY <1>1, <1>2, <1>3
  DEF Events, SM!RunCallbacks, Managers, SM!ManagerWith, SM!Event, States, Waiters
<1>5. ASSUME NEW e \in SM!Pending(n)
      PROVE  e \in SM!Pending(m)
  <2>1. e \in SM!Event /\ (e \in n.fired \/ \E i \in DOMAIN n.ready : e \in n.ready[i])
    BY <1>5 DEF SM!Pending
  <2>2. 1 \in DOMAIN m.ready /\ \A i \in DOMAIN n.ready : i + 1 \in DOMAIN m.ready
    BY <1>3
  <2> QED BY <2>1, <2>2, <1>2, <1>3 DEF SM!Pending
<1> QED BY <1>2, <1>4, <1>5 DEF Keeps

LEMMA AfterPollKeeps ==
    ASSUME NEW m \in Managers, NEW w \in Waiters
    PROVE  Keeps(m, SM!AfterPoll(m, w))
<1> DEFINE n == SM!AfterPoll(m, w)
           Events == SUBSET (States \X Waiters)
<1>1. /\ m \in SM!ManagerWith(Error)
      /\ m.ready \in Seq(Events) /\ m.fired \in Events /\ m.waits \in Events
  BY DEF Managers, SM!ManagerWith, SM!Event, States, Waiters
<1>2. /\ n.state = m.state /\ n.exception = None
      /\ n.waits = m.waits \ SM!EventsOf(w)
      /\ n.fired = m.fired \ SM!EventsOf(w)
      /\ n.ready = [i \in DOMAIN m.ready |-> m.ready[i] \ SM!EventsOf(w)]
  BY <1>1 DEF SM!AfterPoll, SM!ClearWaits, SM!ManagerWith
<1>3. /\ Len(m.ready) \in Nat /\ DOMAIN m.ready = 1..Len(m.ready)
      /\ \A i \in DOMAIN m.ready : m.ready[i] \in Events
  BY <1>1
<1>4. \A i \in DOMAIN m.ready : m.ready[i] \ SM!EventsOf(w) \in Events
  BY <1>3
<1>5. n.ready \in Seq(Events)
  BY <1>2, <1>3, <1>4
<1>6. n \in Managers
  <2>1. SM!ClearWaits(m, w) \in Managers
    BY <1>1, <1>5 DEF SM!AfterPoll, SM!ClearWaits, Managers, SM!ManagerWith,
                      SM!Event, States, Waiters
  <2> QED BY <2>1 DEF SM!AfterPoll, Managers, SM!ManagerWith
<1>7. SM!Pending(n) \subseteq SM!Pending(m)
  BY <1>2 DEF SM!Pending
<1> QED BY <1>2, <1>6, <1>7 DEF Keeps

LEMMA RegisterKeeps ==
    ASSUME NEW m \in Managers, NEW w \in Waiters, NEW S \in SUBSET States
    PROVE  Keeps(m, SM!Register(m, w, S))
<1>1. m \in SM!ManagerWith(Error)
  BY DEF Managers
<1>2. S \X {w} \subseteq SM!Event
  BY DEF SM!Event, States, Waiters
<1> QED BY <1>1, <1>2
    DEF Keeps, SM!Register, SM!Pending, Managers, SM!ManagerWith

\* A coroutine enters its state and waits, or is refused.
LEMMA SetAndWaitMoves ==
    ASSUME manager \in Managers, NEW name \in Waiters, NEW value \in States,
           NEW waitsOn \in Seq(States), SetAndWait(name, value, waitsOn)
    PROVE  \/ SM!Refuses(manager, value, None) /\ Keeps(manager, manager')
           \/ ~ SM!Refuses(manager, value, None) /\ Moves(manager, manager', {value})
<1>1. CASE SM!Refuses(manager, value, None)
  <2>1. manager' = SM!Refuse(manager, "StateTransitionError")
    BY <1>1 DEF SetAndWait
  <2> QED BY <1>1, <2>1, RefuseKeeps DEF Keeps, Error
<1>2. CASE ~ SM!Refuses(manager, value, None)
  <2> DEFINE n == Enter(manager, value, None)
             S == {waitsOn[i] : i \in DOMAIN waitsOn}
  <2>1. manager' = SM!Register(n, name, S)
    BY <1>2 DEF SetAndWait
  <2>2. Moves(manager, n, {value})
    BY <1>2, EnterMoves
  <2>3. S \in SUBSET States
    OBVIOUS
  <2> HIDE DEF n, S
  <2>4. n \in Managers
    BY <2>2 DEF Moves
  <2>5. Keeps(n, manager')
    BY <2>1, <2>3, <2>4, RegisterKeeps
  <2> QED BY <1>2, <2>2, <2>5 DEF Moves, Keeps
<1> QED BY <1>1, <1>2

---------------------------------------------------------------------------
(* The frames on the socket *)

LEMMA TailElements ==
    ASSUME NEW S, NEW frames \in Seq(S), frames # <<>>
    PROVE  /\ Tail(frames) \in Seq(S)
           /\ Head(frames) \in Elements(frames) /\ Head(frames) \in S
           /\ Elements(Tail(frames)) \subseteq Elements(frames)
<1>1. /\ Len(frames) \in Nat /\ Len(frames) > 0 /\ DOMAIN frames = 1..Len(frames)
      /\ Head(frames) = frames[1] /\ frames[1] \in S
      /\ Tail(frames) \in Seq(S) /\ DOMAIN Tail(frames) = 1..(Len(frames) - 1)
      /\ \A i \in 1..(Len(frames) - 1) : Tail(frames)[i] = frames[i + 1]
  OBVIOUS
<1>2. /\ 1 \in DOMAIN frames
      /\ \A i \in 1..(Len(frames) - 1) : i + 1 \in DOMAIN frames
  BY <1>1
<1> QED BY <1>1, <1>2 DEF Elements

LEMMA ConcatElements ==
    ASSUME NEW S, NEW frames \in Seq(S), NEW more \in Seq(S)
    PROVE  /\ frames \o more \in Seq(S)
           /\ Elements(frames \o more) = Elements(frames) \cup Elements(more)
<1> DEFINE all == frames \o more
<1>1. /\ Len(frames) \in Nat /\ Len(more) \in Nat
      /\ DOMAIN frames = 1..Len(frames) /\ DOMAIN more = 1..Len(more)
      /\ all \in Seq(S) /\ DOMAIN all = 1..(Len(frames) + Len(more))
      /\ \A i \in 1..Len(frames) : all[i] = frames[i]
      /\ \A i \in 1..Len(more) : all[Len(frames) + i] = more[i]
  OBVIOUS
<1> HIDE DEF all
<1>2. ASSUME NEW i \in DOMAIN all
      PROVE  all[i] \in Elements(frames) \cup Elements(more)
  <2>1. CASE i \in 1..Len(frames)
    BY <2>1, <1>1 DEF Elements
  <2>2. CASE i - Len(frames) \in 1..Len(more)
    <3>1. all[i] = more[i - Len(frames)]
      BY <2>2, <1>1
    <3> QED BY <3>1, <2>2, <1>1 DEF Elements
  <2> QED BY <2>1, <2>2, <1>1
<1>3. ASSUME NEW i \in DOMAIN frames
      PROVE  frames[i] \in Elements(all)
  BY <1>1 DEF Elements
<1>4. ASSUME NEW i \in DOMAIN more
      PROVE  more[i] \in Elements(all)
  <2>1. Len(frames) + i \in DOMAIN all
    BY <1>1
  <2> QED BY <2>1, <1>1 DEF Elements
<1>5. Elements(all) = Elements(frames) \cup Elements(more)
  BY <1>2, <1>3, <1>4 DEF Elements
<1> QED BY <1>1, <1>5 DEF all

LEMMA PrefixElements ==
    ASSUME NEW S, NEW frames \in Seq(S), NEW n \in 0..Len(frames)
    PROVE  /\ SubSeq(frames, 1, n) \in Seq(S)
           /\ Elements(SubSeq(frames, 1, n)) \subseteq Elements(frames)
<1>1. /\ Len(frames) \in Nat /\ DOMAIN frames = 1..Len(frames)
      /\ SubSeq(frames, 1, n) \in Seq(S)
      /\ DOMAIN SubSeq(frames, 1, n) = 1..n
      /\ \A i \in 1..n : SubSeq(frames, 1, n)[i] = frames[i]
  OBVIOUS
<1> QED BY <1>1 DEF Elements

\* No step of the client but open() writes a protocol header.
HeaderFirst(frames) == \A i \in DOMAIN frames : frames[i].type = "ProtocolHeader" => i = 1

LEMMA WriteAppends ==
    ASSUME WireOK, HeaderFirst(outbox), NEW frames \in Seq(OutFrame),
           \A frame \in Elements(frames) : frame.type # "ProtocolHeader",
           Write(frames)
    PROVE  /\ outbox' \in Seq(OutFrame)
           /\ Elements(outbox') \subseteq Elements(outbox) \cup Elements(frames)
           /\ HeaderFirst(outbox')
<1>1. outbox \in Seq(OutFrame)
  BY DEF WireOK
<1>2. CASE outbox' = outbox
  BY <1>1, <1>2
<1>3. CASE outbox' = outbox \o frames
  <2>1. /\ Len(outbox) \in Nat /\ Len(frames) \in Nat
        /\ DOMAIN outbox = 1..Len(outbox) /\ DOMAIN frames = 1..Len(frames)
        /\ DOMAIN outbox' = 1..(Len(outbox) + Len(frames))
        /\ \A i \in 1..Len(outbox) : outbox'[i] = outbox[i]
        /\ \A i \in 1..Len(frames) : outbox'[Len(outbox) + i] = frames[i]
    BY <1>1, <1>3
  <2>2. ASSUME NEW i \in DOMAIN outbox', outbox'[i].type = "ProtocolHeader"
        PROVE  i = 1
    <3>1. CASE i \in 1..Len(outbox)
      BY <3>1, <2>1, <2>2 DEF HeaderFirst
    <3>2. CASE i - Len(outbox) \in 1..Len(frames)
      <4>1. outbox'[i] = frames[i - Len(outbox)]
        BY <3>2, <2>1
      <4> QED BY <4>1, <3>2, <2>1, <2>2 DEF Elements
    <3> QED BY <3>1, <3>2, <2>1
  <2> QED BY <1>1, <1>3, <2>2, ConcatElements DEF HeaderFirst
<1> QED BY <1>2, <1>3 DEF Write

LEMMA TailHasNoHeader ==
    ASSUME NEW S, NEW frames \in Seq(S), frames # <<>>, HeaderFirst(frames)
    PROVE  \A frame \in Elements(Tail(frames)) : frame.type # "ProtocolHeader"
<1>1. /\ Len(frames) \in Nat /\ DOMAIN frames = 1..Len(frames)
      /\ DOMAIN Tail(frames) = 1..(Len(frames) - 1)
      /\ \A i \in 1..(Len(frames) - 1) : Tail(frames)[i] = frames[i + 1]
  OBVIOUS
<1> SUFFICES ASSUME NEW i \in 1..(Len(frames) - 1)
             PROVE  frames[i + 1].type # "ProtocolHeader"
  BY <1>1 DEF Elements
<1> QED BY <1>1 DEF HeaderFirst

\* The frames that carry nothing, and those that do.
LEMMA FramesAre ==
    /\ \A type \in {"OpenOk", "Blocked", "Unblocked", "Close", "CloseOk",
                    "Heartbeat", "Traffic", "Other"} : Frame(type) \in InFrame
    /\ \A type \in {"ProtocolHeader", "StartOk", "Open", "Close", "CloseOk",
                    "Heartbeat"} : Frame(type) \in OutFrame
    /\ \A type : Frame(type).type = type
    /\ \A frame \in InFrame : frame.type = "Tune" =>
           frame.limit \in Nat /\ frame.heartbeat \in Nat
    /\ \A frame \in OutFrame : frame.type = "TuneOk" => frame.settings \in Settings
BY DEF Frame, InFrame, OutFrame

LEMMA SingleElement ==
    ASSUME NEW S, NEW a \in S
    PROVE  <<a>> \in Seq(S) /\ Elements(<<a>>) = {a}
BY DEF Elements

LEMMA PairElements ==
    ASSUME NEW S, NEW a \in S, NEW b \in S
    PROVE  <<a, b>> \in Seq(S) /\ Elements(<<a, b>>) = {a, b}
BY DEF Elements

---------------------------------------------------------------------------
(* The handshake.  Most steps of the client change neither the settings nor *)
(* the broker, take frames and add none that matters to the handshake.     *)

\* The part of the invariant that is about the handshake.
Protocol ==
    /\ manager.state # "TUNE_RECEIVED"
    /\ NotOpened /\ HeaderIsFirst
    /\ TuneIsOffered /\ TuneOkIsSettled /\ AgreedIsSettled
    /\ OpenOkIsAcceptance /\ CloseOkSentIsReported

\* What such a step does with the frames.
FramesGo ==
    /\ inbox' \in Seq(InFrame) /\ Elements(inbox') \subseteq Elements(inbox)
    /\ outbox' \in Seq(OutFrame) /\ HeaderFirst(outbox')
    /\ \A frame \in Elements(outbox') :
           frame.type \in {"ProtocolHeader", "TuneOk"} => frame \in Elements(outbox)

\* What it does with the manager, and with the answer of open().
ManagerGoes ==
    /\ manager' \in Managers /\ manager'.state # "TUNE_RECEIVED"
    /\ manager'.state \in BeforeTune => manager.state \in BeforeTune
    /\ (\/ <<"OPENOK_RECEIVED", "open">> \in SM!Pending(manager')
        \/ task'.open = "true")
       => \/ <<"OPENOK_RECEIVED", "open">> \in SM!Pending(manager)
          \/ task.open = "true" \/ "OpenOk" \in Types(inbox)
    /\ (\/ <<"CLOSEOK_SENT", "open">> \in SM!Pending(manager')
        \/ task'.open = "false")
       => \/ <<"CLOSEOK_SENT", "open">> \in SM!Pending(manager)
          \/ task.open = "false" \/ "closed by broker" \in reported'
    /\ reported \subseteq reported'

LEMMA EmptyElements ==
    ASSUME NEW S, NEW frames \in Seq(S)
    PROVE  Elements(frames) = {} <=> frames = <<>>
<1>1. Len(frames) \in Nat /\ DOMAIN frames = 1..Len(frames)
  OBVIOUS
<1>2. CASE frames = <<>>
  BY <1>2 DEF Elements
<1>3. CASE frames # <<>>
  <2>1. 1 \in DOMAIN frames
    BY <1>1, <1>3
  <2> QED BY <2>1, <1>3 DEF Elements
<1> QED BY <1>2, <1>3

LEMMA TypesOfElements ==
    ASSUME NEW frames
    PROVE  Types(frames) = {frame.type : frame \in Elements(frames)}
BY DEF Types, Elements

LEMMA ClientStepPreserves ==
    ASSUME IInv, UNCHANGED <<broker, settings>>, FramesGo, ManagerGoes, NotOpened'
    PROVE  Protocol'
<1> USE DEF IInv
<1>1. /\ inbox \in Seq(InFrame) /\ outbox \in Seq(OutFrame)
      /\ \A frame \in Elements(inbox') : frame \in Elements(inbox)
  BY DEF WireOK, FramesGo
<1>2. HeaderIsFirst'
  <2>1. broker'.phase = "idle" => inbox' = <<>>
    <3>1. /\ Elements(inbox) = {} <=> inbox = <<>>
          /\ Elements(inbox') = {} <=> inbox' = <<>>
      BY <1>1, EmptyElements DEF FramesGo
    <3> QED BY <1>1, <3>1 DEF HeaderIsFirst
  <2>2. ASSUME NEW i \in DOMAIN outbox', outbox'[i].type = "ProtocolHeader"
        PROVE  i = 1 /\ broker'.phase = "idle"
    <3>1. i = 1
      BY <2>2 DEF FramesGo, HeaderFirst
    <3>2. outbox'[i] \in Elements(outbox)
      BY <2>2 DEF FramesGo, Elements
    <3> QED BY <3>1, <3>2, <2>2 DEF HeaderIsFirst, Elements
  <2> QED BY <2>1, <2>2 DEF HeaderIsFirst
<1>3. TuneIsOffered'
  BY <1>1 DEF TuneIsOffered
<1>4. Settled => Settled'
  BY DEF Settled, ManagerGoes
<1>5. TuneOkIsSettled'
  <2> SUFFICES ASSUME NEW frame \in Elements(outbox'), frame.type = "TuneOk"
               PROVE  Settled' /\ frame.settings = settings'
    BY DEF TuneOkIsSettled
  <2>1. frame \in Elements(outbox)
    BY DEF FramesGo
  <2> QED BY <2>1, <1>4 DEF TuneOkIsSettled
<1>6. AgreedIsSettled'
  BY <1>4 DEF AgreedIsSettled
<1>7. OpenOkIsAcceptance'
  <2>1. "OpenOk" \in Types(inbox') => "OpenOk" \in Types(inbox)
    BY <1>1, TypesOfElements
  <2> QED BY <2>1 DEF OpenOkIsAcceptance, ManagerGoes
<1>8. CloseOkSentIsReported'
  BY DEF CloseOkSentIsReported, ManagerGoes
<1>9. manager'.state # "TUNE_RECEIVED"
  BY DEF ManagerGoes
<1> QED BY <1>2, <1>3, <1>5, <1>6, <1>7, <1>8, <1>9 DEF Protocol

\* What is written by then, but for the header and TuneOk.
LEMMA FramesGoBy ==
    ASSUME IInv, inbox' = inbox \/ \E type : Takes(type),
           \/ outbox' = outbox
           \/ \E type \in {"StartOk", "Close", "CloseOk", "Heartbeat"} :
                  Write(<<Frame(type)>>)
    PROVE  FramesGo
<1>1. /\ inbox \in Seq(InFrame) /\ outbox \in Seq(OutFrame) /\ WireOK
      /\ HeaderFirst(outbox)
  BY DEF IInv, WireOK, HeaderIsFirst, HeaderFirst
<1>2. inbox' \in Seq(InFrame) /\ Elements(inbox') \subseteq Elements(inbox)
  BY <1>1, TailElements DEF Takes
<1>3. CASE outbox' = outbox
  BY <1>1, <1>2, <1>3 DEF FramesGo
<1>4. ASSUME NEW type \in {"StartOk", "Close", "CloseOk", "Heartbeat"},
             Write(<<Frame(type)>>)
      PROVE  FramesGo
  <2>1. Frame(type) \in OutFrame /\ Frame(type).type = type
    BY FramesAre
  <2>2. <<Frame(type)>> \in Seq(OutFrame) /\ Elements(<<Frame(type)>>) = {Frame(type)}
    BY <2>1, SingleElement
  <2>3. /\ outbox' \in Seq(OutFrame) /\ HeaderFirst(outbox')
        /\ Elements(outbox') \subseteq Elements(outbox) \cup {Frame(type)}
    BY <1>1, <1>4, <2>1, <2>2, WriteAppends
  <2> QED BY <1>2, <2>1, <2>3 DEF FramesGo
<1> QED BY <1>3, <1>4

---------------------------------------------------------------------------
(* process(), one lemma per frame *)

\* What an accepted frame says of the state the manager was in.
LEMMA AcceptedFrom ==
    ASSUME IInv, NEW type \in DOMAIN EntersOn, Accepts(type)
    PROVE  /\ EntersOn[type] \in States \ {"EXCEPTION"}
           /\ ~ SM!Refuses(manager, EntersOn[type], None)
           /\ manager \in Managers /\ manager.state \in States
           /\ \/ manager.state = EntersOn[type]
              \/ EntersOn[type] \in Transitions[manager.state]
           /\ task.open # "idle"
           /\ type \in Types(inbox)
<1>1. manager \in Managers /\ manager.state \in States
  BY DEF IInv, TypeOK, Managers, SM!ManagerWith, States
<1>2. EntersOn[type] \in States \ {"EXCEPTION"}
  BY StatesAre DEF EntersOn
<1>3. ~ SM!Refuses(manager, EntersOn[type], None)
  BY DEF Accepts
<1>4. task.open # "idle"
  BY DEF Accepts, Takes, IInv, NotOpened
<1>5. type \in Types(inbox)
  <2>1. inbox \in Seq(InFrame) /\ inbox # <<>> /\ Head(inbox).type = type
    BY DEF IInv, WireOK, Accepts, Takes
  <2> QED BY <2>1, TailElements, TypesOfElements
<1> QED BY <1>1, <1>2, <1>3, <1>4, <1>5 DEF SM!Refuses, SM!Unchanged

\* The steps that leave the coroutines alone and enter no state they answer to.
LEMMA QuietMove ==
    ASSUME IInv, NEW S, Moves(manager, manager', S),
           S \cap (BeforeTune \cup {"TUNE_RECEIVED", "OPENOK_RECEIVED", "CLOSEOK_SENT"}) = {},
           task'.open = task.open, reported \subseteq reported'
    PROVE  ManagerGoes
BY DEF Moves, ManagerGoes

LEMMA KeptManager ==
    ASSUME IInv, Keeps(manager, manager'),
           task'.open \in {"true", "false"} =>
             \/ task.open = task'.open
             \/ task'.open = "true" /\ <<"OPENOK_RECEIVED", "open">> \in SM!Pending(manager)
             \/ task'.open = "false" /\ <<"CLOSEOK_SENT", "open">> \in SM!Pending(manager),
           reported \subseteq reported'
    PROVE  ManagerGoes
<1>1. /\ manager' \in Managers /\ manager'.state = manager.state
      /\ \A e \in SM!Pending(manager') : e \in SM!Pending(manager)
  BY DEF Keeps
<1>2. manager.state # "TUNE_RECEIVED"
  BY DEF IInv
<1> QED BY <1>1, <1>2 DEF ManagerGoes

LEMMA ReceiveRefusedPreserves ==
    ASSUME IInv, ReceiveRefused
    PROVE  Protocol'
<1>1. manager \in Managers
  BY DEF IInv, TypeOK, Managers
<1>2. Moves(manager, manager', {"EXCEPTION"})
  BY <1>1, RefusedCallbackMoves DEF ReceiveRefused, Error
<1>3. ManagerGoes
  BY <1>2, QuietMove DEF ReceiveRefused, BeforeTune
<1>4. FramesGo
  BY FramesGoBy DEF ReceiveRefused
<1>5. NotOpened'
  BY DEF IInv, NotOpened, ReceiveRefused, Takes
<1>6. UNCHANGED <<broker, settings>>
  BY DEF ReceiveRefused
<1> QED BY <1>3, <1>4, <1>5, <1>6, ClientStepPreserves

LEMMA ReceiveStartPreserves ==
    ASSUME IInv, ReceiveStart
    PROVE  Protocol' /\ manager' \in Managers
<1> DEFINE started == Enter(manager, "START_RECEIVED", None)
<1>1. /\ "START_RECEIVED" \in States /\ "STARTOK_SENT" \in States
      /\ "EXCEPTION" \in States
  BY StatesAre
<1>2. EntersOn["Start"] = "START_RECEIVED" /\ "Start" \in DOMAIN EntersOn
  BY DEF EntersOn
<1>3. /\ manager \in Managers /\ manager.state \in States /\ task.open # "idle"
      /\ ~ SM!Refuses(manager, "START_RECEIVED", None)
      /\ \/ manager.state = "START_RECEIVED"
         \/ "START_RECEIVED" \in Transitions[manager.state]
  BY <1>2, AcceptedFrom DEF ReceiveStart
<1>4. manager.state \in BeforeTune
  BY <1>3, Handshake DEF BeforeTune
<1>5. Moves(manager, started, {"START_RECEIVED"})
  BY <1>1, <1>3, EnterMoves
<1>6. started \in Managers /\ started.state = "START_RECEIVED"
  BY <1>5 DEF Moves
<1>7. CASE manager' = Enter(started, "STARTOK_SENT", None) /\ Write(<<Frame("StartOk")>>)
  <2>1. ~ SM!Refuses(started, "STARTOK_SENT", None)
    BY <1>6, HandlersGoOn DEF SM!Refuses
  <2>2. Moves(started, manager', {"STARTOK_SENT"})
    BY <1>1, <1>6, <1>7, <2>1, EnterMoves
  <2>3. ManagerGoes
    BY <1>4, <1>5, <2>2, MovesOn DEF Moves, ManagerGoes, ReceiveStart
  <2>4. FramesGo
    BY <1>7, FramesGoBy DEF ReceiveStart, Accepts
  <2>5. NotOpened' /\ UNCHANGED <<broker, settings>>
    BY <1>3 DEF NotOpened, ReceiveStart
  <2> QED BY <2>2, <2>3, <2>4, <2>5, ClientStepPreserves DEF Moves
<1>8. CASE /\ manager' = Enter(started, "EXCEPTION", "ClientNegotiationException")
           /\ UNCHANGED outbox
  <2>1. ~ SM!Refuses(started, "EXCEPTION", "ClientNegotiationException")
    BY DEF SM!Refuses
  <2>2. Moves(started, manager', {"EXCEPTION"})
    BY <1>1, <1>6, <1>8, <2>1, EnterMoves DEF Error
  <2>3. ManagerGoes
    BY <1>4, <1>5, <2>2, MovesOn DEF Moves, ManagerGoes, ReceiveStart
  <2>4. FramesGo
    BY <1>8, FramesGoBy DEF ReceiveStart, Accepts
  <2>5. NotOpened' /\ UNCHANGED <<broker, settings>>
    BY <1>3 DEF NotOpened, ReceiveStart
  <2> QED BY <2>2, <2>3, <2>4, <2>5, ClientStepPreserves DEF Moves
<1> QED BY <1>7, <1>8 DEF ReceiveStart

\* The handlers that enter one state, and leave the rest alone.
LEMMA ReceiveOpenOkPreserves ==
    ASSUME IInv, ReceiveOpenOk
    PROVE  Protocol' /\ manager' \in Managers
<1>1. EntersOn["OpenOk"] = "OPENOK_RECEIVED" /\ "OpenOk" \in DOMAIN EntersOn
  BY DEF EntersOn
<1>2. /\ manager \in Managers /\ task.open # "idle" /\ "OpenOk" \in Types(inbox)
      /\ "OPENOK_RECEIVED" \in States
      /\ ~ SM!Refuses(manager, "OPENOK_RECEIVED", None)
  BY <1>1, AcceptedFrom DEF ReceiveOpenOk
<1>3. Moves(manager, manager', {"OPENOK_RECEIVED"})
  BY <1>2, EnterMoves DEF ReceiveOpenOk
<1>4. ManagerGoes
  BY <1>2, <1>3 DEF Moves, ManagerGoes, BeforeTune, ReceiveOpenOk
<1>5. FramesGo
  BY FramesGoBy DEF ReceiveOpenOk, Accepts
<1>6. NotOpened' /\ UNCHANGED <<broker, settings>>
  BY <1>2 DEF NotOpened, ReceiveOpenOk
<1> QED BY <1>3, <1>4, <1>5, <1>6, ClientStepPreserves DEF Moves

LEMMA ReceiveBlockedPreserves ==
    ASSUME IInv, NEW type \in {"Blocked", "Unblocked"}, ReceiveBlocked(type)
    PROVE  Protocol' /\ manager' \in Managers
<1>1. /\ EntersOn[type] \in {"BLOCKED_RECEIVED", "UNBLOCKED_RECEIVED"}
      /\ type \in DOMAIN EntersOn
  BY DEF EntersOn
<1>2. /\ manager \in Managers /\ task.open # "idle" /\ EntersOn[type] \in States
      /\ ~ SM!Refuses(manager, EntersOn[type], None)
  BY <1>1, AcceptedFrom DEF ReceiveBlocked
<1>3. Moves(manager, manager', {EntersOn[type]})
  BY <1>2, EnterMoves DEF ReceiveBlocked
<1>4. ManagerGoes
  BY <1>1, <1>3, QuietMove DEF BeforeTune, ReceiveBlocked
<1>5. FramesGo
  BY FramesGoBy DEF ReceiveBlocked, Accepts
<1>6. NotOpened' /\ UNCHANGED <<broker, settings>>
  BY <1>2 DEF NotOpened, ReceiveBlocked
<1> QED BY <1>3, <1>4, <1>5, <1>6, ClientStepPreserves DEF Moves

LEMMA ReceiveCloseOkPreserves ==
    ASSUME IInv, ReceiveCloseOk
    PROVE  Protocol' /\ manager' \in Managers
<1>1. EntersOn["CloseOk"] = "CLOSEOK_RECEIVED" /\ "CloseOk" \in DOMAIN EntersOn
  BY DEF EntersOn
<1>2. /\ manager \in Managers /\ task.open # "idle" /\ "CLOSEOK_RECEIVED" \in States
      /\ ~ SM!Refuses(manager, "CLOSEOK_RECEIVED", None)
  BY <1>1, AcceptedFrom DEF ReceiveCloseOk
<1>3. Moves(manager, manager', {"CLOSEOK_RECEIVED"})
  BY <1>2, EnterMoves DEF ReceiveCloseOk
<1>4. ManagerGoes
  BY <1>3, QuietMove DEF BeforeTune, ReceiveCloseOk
<1>5. FramesGo
  BY FramesGoBy DEF ReceiveCloseOk, Accepts
<1>6. NotOpened' /\ UNCHANGED <<broker, settings>>
  BY <1>2 DEF NotOpened, ReceiveCloseOk
<1> QED BY <1>3, <1>4, <1>5, <1>6, ClientStepPreserves DEF Moves

LEMMA ReceiveOtherPreserves ==
    ASSUME IInv, ReceiveOther
    PROVE  Protocol' /\ manager' \in Managers
<1>1. manager \in Managers /\ "EXCEPTION" \in States /\ task.open # "idle"
  BY StatesAre DEF IInv, TypeOK, Managers, NotOpened, ReceiveOther, Takes
<1>2. ~ SM!Refuses(manager, "EXCEPTION", "AIORabbitException")
  BY DEF SM!Refuses
<1>3. Moves(manager, manager', {"EXCEPTION"})
  BY <1>1, <1>2, EnterMoves DEF ReceiveOther, Error
<1>4. ManagerGoes
  BY <1>3, QuietMove DEF BeforeTune, ReceiveOther
<1>5. FramesGo
  BY FramesGoBy DEF ReceiveOther
<1>6. NotOpened' /\ UNCHANGED <<broker, settings>>
  BY <1>1 DEF NotOpened, ReceiveOther
<1> QED BY <1>3, <1>4, <1>5, <1>6, ClientStepPreserves DEF Moves

LEMMA ReceiveHeartbeatPreserves ==
    ASSUME IInv, ReceiveHeartbeat
    PROVE  Protocol' /\ manager' \in Managers
<1>1. EntersOn["Heartbeat"] = "HEARTBEAT_RECEIVED" /\ "Heartbeat" \in DOMAIN EntersOn
  BY DEF EntersOn
<1>2. /\ manager \in Managers /\ task.open # "idle"
      /\ "HEARTBEAT_RECEIVED" \in States /\ "HEARTBEAT_SENT" \in States
      /\ ~ SM!Refuses(manager, "HEARTBEAT_RECEIVED", None)
  BY <1>1, StatesAre, AcceptedFrom DEF ReceiveHeartbeat
<1>3. /\ Moves(manager, manager', {"HEARTBEAT_RECEIVED", "HEARTBEAT_SENT"})
  BY <1>2, HandlersGoOn, EnterAllMoves DEF ReceiveHeartbeat
<1>4. ManagerGoes
  BY <1>3, QuietMove DEF BeforeTune, ReceiveHeartbeat
<1>5. FramesGo
  BY FramesGoBy DEF ReceiveHeartbeat, Accepts
<1>6. NotOpened' /\ UNCHANGED <<broker, settings>>
  BY <1>2 DEF NotOpened, ReceiveHeartbeat
<1> QED BY <1>3, <1>4, <1>5, <1>6, ClientStepPreserves DEF Moves

LEMMA ReceiveClosePreserves ==
    ASSUME IInv, ReceiveClose
    PROVE  Protocol' /\ manager' \in Managers
<1>1. EntersOn["Close"] = "CLOSE_RECEIVED" /\ "Close" \in DOMAIN EntersOn
  BY DEF EntersOn
<1>2. /\ manager \in Managers /\ task.open # "idle"
      /\ "CLOSE_RECEIVED" \in States /\ "CLOSEOK_SENT" \in States
      /\ ~ SM!Refuses(manager, "CLOSE_RECEIVED", None)
  BY <1>1, StatesAre, AcceptedFrom DEF ReceiveClose
<1>3. /\ Moves(manager, manager', {"CLOSE_RECEIVED", "CLOSEOK_SENT"})
  BY <1>2, HandlersGoOn, EnterAllMoves DEF ReceiveClose
<1>4. ManagerGoes
  BY <1>3 DEF Moves, ManagerGoes, BeforeTune, ReceiveClose
<1>5. FramesGo
  BY FramesGoBy DEF ReceiveClose, Accepts
<1>6. NotOpened' /\ UNCHANGED <<broker, settings>>
  BY <1>2 DEF NotOpened, ReceiveClose
<1> QED BY <1>3, <1>4, <1>5, <1>6, ClientStepPreserves DEF Moves

LEMMA NegotiateWithin ==
    ASSUME NEW requested \in Nat, NEW offered \in Nat
    PROVE  /\ Negotiate(requested, offered) \in Nat
           /\ offered # 0 => Negotiate(requested, offered) \in 1..offered
BY DEF Negotiate, Smaller

\* Connection.Tune settles the settings: no TuneOk is on its way yet, nothing was
\* agreed, and no second Tune will be accepted.
LEMMA ReceiveTunePreserves ==
    ASSUME IInv, ReceiveTune
    PROVE  /\ Protocol' /\ manager' \in Managers
           /\ settings' \in Settings
           /\ inbox' \in Seq(InFrame) /\ outbox' \in Seq(OutFrame)
           /\ task.open # "true"
<1> USE DEF IInv
<1> DEFINE tune == Head(inbox)
           tuned == EnterAll(manager, "TUNE_RECEIVED", "TUNEOK_SENT")
           reply == [type |-> "TuneOk", settings |-> settings']
<1>1. EntersOn["Tune"] = "TUNE_RECEIVED" /\ "Tune" \in DOMAIN EntersOn
  BY DEF EntersOn
<1>2. /\ manager \in Managers /\ manager.state \in States /\ task.open # "idle"
      /\ "TUNE_RECEIVED" \in States /\ "TUNEOK_SENT" \in States /\ "OPEN_SENT" \in States
      /\ ~ SM!Refuses(manager, "TUNE_RECEIVED", None)
      /\ manager.state = "STARTOK_SENT"
  BY <1>1, StatesAre, AcceptedFrom, Handshake DEF ReceiveTune
<1>3. ~ Settled
  BY <1>2 DEF Settled, BeforeTune
<1>4. /\ \A frame \in Elements(outbox) : frame.type # "TuneOk"
      /\ ~ broker.accepted /\ broker.phase # "tuned"
      /\ "OpenOk" \notin Types(inbox) /\ task.open # "true"
      /\ <<"OPENOK_RECEIVED", "open">> \notin SM!Pending(manager)
  BY <1>3 DEF TuneOkIsSettled, AgreedIsSettled, OpenOkIsAcceptance
<1>5. /\ inbox \in Seq(InFrame) /\ outbox \in Seq(OutFrame)
      /\ inbox # <<>> /\ tune.type = "Tune" /\ inbox' = Tail(inbox)
  BY DEF WireOK, ReceiveTune, Accepts, Takes
<1>6. /\ tune \in Elements(inbox) /\ tune \in InFrame
      /\ inbox' \in Seq(InFrame) /\ Elements(inbox') \subseteq Elements(inbox)
  BY <1>5, TailElements
<1>7. /\ broker.phase \notin {"idle", "starting"}
      /\ tune.limit = broker.offered.limit
      /\ tune.limit \in Nat /\ tune.heartbeat \in Nat
  BY <1>5, <1>6, FramesAre DEF TuneIsOffered
<1>8. /\ settings' = [heartbeat |-> IF settings.heartbeat = None THEN tune.heartbeat
                                     ELSE settings.heartbeat,
                      limit     |-> Negotiate(settings.limit, tune.limit)]
      /\ Write(<<reply, Frame("Open")>>)
      /\ manager' = Enter(tuned, "OPEN_SENT", None)
      /\ UNCHANGED <<broker, task, reported>>
  BY DEF ReceiveTune
<1> HIDE DEF tune
<1>9. /\ settings' \in Settings /\ settings'.heartbeat \in Nat
      /\ broker.offered.limit # 0 => settings'.limit \in 1..broker.offered.limit
  <2>1. settings.heartbeat \in Nat \cup {None} /\ settings.limit \in Nat
    BY DEF TypeOK, Settings
  <2>2. /\ Negotiate(settings.limit, tune.limit) \in Nat
        /\ tune.limit # 0 => Negotiate(settings.limit, tune.limit) \in 1..tune.limit
    BY <2>1, <1>7, NegotiateWithin
  <2> QED BY <2>1, <2>2, <1>7, <1>8 DEF Settings
<1>10. /\ manager' \in Managers /\ manager'.state = "OPEN_SENT"
       /\ SM!Pending(manager') \subseteq SM!Pending(manager) \cup
              ({"TUNE_RECEIVED", "TUNEOK_SENT", "OPEN_SENT"} \X Waiters)
  <2>1. /\ Moves(manager, tuned, {"TUNE_RECEIVED", "TUNEOK_SENT"})
        /\ tuned.state = "TUNEOK_SENT" /\ tuned \in Managers
    BY <1>2, HandlersGoOn, EnterAllMoves DEF Moves
  <2> HIDE DEF tuned
  <2>2. ~ SM!Refuses(tuned, "OPEN_SENT", None)
    BY <2>1, HandlersGoOn DEF SM!Refuses
  <2>3. Moves(tuned, manager', {"OPEN_SENT"})
    BY <1>2, <1>8, <2>1, <2>2, EnterMoves
  <2> QED BY <2>1, <2>3, MovesOn DEF Moves
<1>11. Settled'
  BY <1>7, <1>8, <1>9, <1>10 DEF Settled, BeforeTune
<1>12. /\ outbox' \in Seq(OutFrame) /\ HeaderFirst(outbox')
       /\ Elements(outbox') \subseteq Elements(outbox) \cup {reply, Frame("Open")}
  <2>1. reply \in OutFrame /\ reply.type = "TuneOk"
    BY <1>9 DEF OutFrame
  <2>2. Frame("Open") \in OutFrame /\ Frame("Open").type = "Open"
    BY FramesAre
  <2>3. /\ <<reply, Frame("Open")>> \in Seq(OutFrame)
        /\ Elements(<<reply, Frame("Open")>>) = {reply, Frame("Open")}
    BY <2>1, <2>2 DEF Elements
  <2>4. HeaderFirst(outbox) /\ WireOK
    BY DEF HeaderIsFirst, HeaderFirst
  <2> HIDE DEF reply
  <2> QED BY <1>8, <2>1, <2>2, <2>3, <2>4, WriteAppends
<1>13. NotOpened' /\ CloseOkSentIsReported'
  BY <1>2, <1>8, <1>10 DEF NotOpened, CloseOkSentIsReported
<1>14. TuneIsOffered'
  BY <1>6, <1>8 DEF TuneIsOffered
<1>15. TuneOkIsSettled'
  <2> SUFFICES ASSUME NEW frame \in Elements(outbox'), frame.type = "TuneOk"
               PROVE  frame.settings = settings'
    BY <1>11 DEF TuneOkIsSettled
  <2>1. frame = reply \/ frame = Frame("Open")
    BY <1>4, <1>12
  <2>2. Frame("Open").type = "Open"
    BY FramesAre
  <2> QED BY <2>1, <2>2
<1>16. AgreedIsSettled'
  BY <1>4, <1>8 DEF AgreedIsSettled
<1>17. OpenOkIsAcceptance'
  <2>1. "OpenOk" \notin Types(inbox')
    BY <1>4, <1>6, TypesOfElements
  <2> QED BY <1>4, <1>8, <1>10, <2>1 DEF OpenOkIsAcceptance
<1>18. HeaderIsFirst'
  <2>1. \A frame \in Elements(outbox) : frame.type # "ProtocolHeader"
    BY <1>7 DEF HeaderIsFirst, Elements
  <2>2. reply.type # "ProtocolHeader" /\ Frame("Open").type # "ProtocolHeader"
    BY FramesAre
  <2> HIDE DEF reply
  <2>3. \A frame \in Elements(outbox') : frame.type # "ProtocolHeader"
    BY <1>12, <2>1, <2>2
  <2> QED BY <1>7, <1>8, <2>3 DEF HeaderIsFirst, Elements
<1> QED BY <1>4, <1>6, <1>9, <1>10, <1>12, <1>13, <1>14, <1>15, <1>16, <1>17, <1>18
    DEF Protocol

LEMMA ReceiveTrafficPreserves ==
    ASSUME IInv, ReceiveTraffic
    PROVE  Protocol'
<1>1. manager \in Managers /\ manager' = manager /\ task' = task /\ reported' = reported
  BY DEF IInv, TypeOK, Managers, ReceiveTraffic
<1>2. ManagerGoes
  BY <1>1 DEF IInv, ManagerGoes
<1>3. FramesGo
  BY FramesGoBy DEF ReceiveTraffic
<1>4. NotOpened' /\ UNCHANGED <<broker, settings>>
  BY DEF IInv, NotOpened, ReceiveTraffic, Takes
<1> QED BY <1>2, <1>3, <1>4, ClientStepPreserves

---------------------------------------------------------------------------
(* The coroutines, the loop and the timer *)

LEMMA CallbackRaisesPreserves ==
    ASSUME IInv, CallbackRaises
    PROVE  Protocol' /\ manager' \in Managers
<1>1. Moves(manager, manager', {"EXCEPTION"})
  BY OnExceptionMoves DEF IInv, TypeOK, Managers, CallbackRaises, Error
<1>2. task'.open = task.open /\ task'.close = task.close
  BY DEF IInv, TypeOK, CallbackRaises
<1>3. ManagerGoes
  BY <1>1, <1>2, QuietMove DEF BeforeTune, CallbackRaises
<1>4. FramesGo
  BY FramesGoBy DEF CallbackRaises, network
<1>5. NotOpened' /\ UNCHANGED <<broker, settings>>
  BY <1>1, <1>2 DEF IInv, NotOpened, CallbackRaises, network, Moves
<1> QED BY <1>1, <1>3, <1>4, <1>5, ClientStepPreserves DEF Moves

LEMMA RunReadyKept ==
    ASSUME IInv, RunReady
    PROVE  Protocol' /\ manager' \in Managers
<1>1. Keeps(manager, manager')
  BY RunCallbacksKeeps DEF IInv, TypeOK, Managers, RunReady
<1>2. ManagerGoes
  BY <1>1, KeptManager DEF RunReady
<1>3. FramesGo
  BY FramesGoBy DEF RunReady, network
<1>4. NotOpened' /\ UNCHANGED <<broker, settings>>
  BY <1>1 DEF IInv, NotOpened, RunReady, network, Keeps
<1> QED BY <1>1, <1>2, <1>3, <1>4, ClientStepPreserves DEF Keeps

\* What the handshake needs to know of the ends of open() and close().
LEMMA EndsPreserve ==
    ASSUME IInv, NEW w \in Waiters, manager' = SM!AfterPoll(manager, w),
           task.open # "idle", task'.open # "idle",
           task'.open \in {"true", "false"} =>
             \/ task.open = task'.open
             \/ task'.open = "true" /\ <<"OPENOK_RECEIVED", "open">> \in SM!Pending(manager)
             \/ task'.open = "false" /\ <<"CLOSEOK_SENT", "open">> \in SM!Pending(manager),
           UNCHANGED <<settings, reported, network, broker>>
    PROVE  Protocol' /\ manager' \in Managers
<1>1. Keeps(manager, manager')
  BY AfterPollKeeps DEF IInv, TypeOK, Managers
<1>2. ManagerGoes
  BY <1>1, KeptManager
<1>3. FramesGo
  BY FramesGoBy DEF network
<1>4. NotOpened'
  BY DEF NotOpened
<1> QED BY <1>1, <1>2, <1>3, <1>4, ClientStepPreserves DEF Keeps

LEMMA OpenReturnsPreserves ==
    ASSUME IInv, OpenReturns
    PROVE  Protocol' /\ manager' \in Managers
<1>1. PICK state \in {"OPENOK_RECEIVED", "CLOSEOK_SENT"} :
        /\ SM!PollReturns(manager, "open", OpenWaitsOn, state)
        /\ Goes("open", IF state = "OPENOK_RECEIVED" THEN "true" ELSE "false")
  BY DEF OpenReturns
<1>2. <<state, "open">> \in SM!Pending(manager)
  <2>1. <<state, "open">> \in manager.fired
    BY <1>1 DEF SM!PollReturns, SM!IsSet
  <2>2. manager.fired \subseteq SM!Event
    BY DEF IInv, TypeOK, SM!ManagerWith
  <2> QED BY <2>1, <2>2 DEF SM!Pending
<1>3. task'.open = IF state = "OPENOK_RECEIVED" THEN "true" ELSE "false"
  BY <1>1 DEF Goes, IInv, TypeOK
<1>4. /\ manager' = SM!AfterPoll(manager, "open") /\ task.open # "idle"
      /\ UNCHANGED <<settings, reported, network, broker>>
  BY DEF OpenReturns
<1> QED BY <1>2, <1>3, <1>4, EndsPreserve DEF Waiters

LEMMA OpenRaisesPreserves ==
    ASSUME IInv, OpenRaises
    PROVE  Protocol' /\ manager' \in Managers
<1>1. task'.open = "raised"
  BY DEF OpenRaises, Goes, IInv, TypeOK
<1>2. /\ manager' = SM!AfterPoll(manager, "open") /\ task.open # "idle"
      /\ UNCHANGED <<settings, reported, network, broker>>
  BY DEF OpenRaises
<1> QED BY <1>1, <1>2, EndsPreserve DEF Waiters

LEMMA CloseEndsPreserves ==
    ASSUME IInv, CloseEnds
    PROVE  Protocol' /\ manager' \in Managers
<1>1. task'.open = task.open
  BY DEF CloseEnds, CloseReturns, CloseRaises, Goes, IInv, TypeOK
<1>2. task.open # "idle"
  BY DEF CloseEnds, CloseReturns, CloseRaises, IInv, NotOpened
<1>3. /\ manager' = SM!AfterPoll(manager, "close")
      /\ UNCHANGED <<settings, reported, network, broker>>
  BY DEF CloseEnds, CloseReturns, CloseRaises
<1> QED BY <1>1, <1>2, <1>3, EndsPreserve DEF Waiters

LEMMA ClosePreserves ==
    ASSUME IInv, Close
    PROVE  Protocol' /\ manager' \in Managers
<1>1. manager \in Managers /\ "CLOSE_SENT" \in States /\ CloseWaitsOn \in Seq(States)
  <2>1. {"CLOSE_SENT", "CLOSEOK_RECEIVED"} \subseteq States
    BY StatesAre
  <2>2. CloseWaitsOn \in Seq(States)
    BY <2>1, SingleElement DEF CloseWaitsOn
  <2> QED BY <2>1, <2>2 DEF IInv, TypeOK, Managers
<1>2. /\ task'.open = task.open /\ task.open # "idle"
      /\ SetAndWait("close", "CLOSE_SENT", CloseWaitsOn)
      /\ UNCHANGED <<settings, reported, inbox, broker>>
  BY DEF Close, MayClose, IInv, TypeOK
<1>3. \/ Keeps(manager, manager') \/ Moves(manager, manager', {"CLOSE_SENT"})
  BY <1>1, <1>2, SetAndWaitMoves DEF Waiters
<1>4. ManagerGoes
  BY <1>2, <1>3, QuietMove, KeptManager DEF BeforeTune
<1>5. FramesGo
  BY <1>2, FramesGoBy DEF Close
<1>6. NotOpened'
  BY <1>2 DEF NotOpened
<1> QED BY <1>2, <1>4, <1>5, <1>6, ClientStepPreserves DEF ManagerGoes

\* open() begins the handshake: nothing has gone before its header.
LEMMA OpenPreserves ==
    ASSUME IInv, Open
    PROVE  /\ Protocol' /\ manager' \in Managers
           /\ outbox' \in Seq(OutFrame)
<1> USE DEF IInv
<1> DEFINE header == Frame("ProtocolHeader")
<1>1. /\ manager \in Managers /\ "PROTOCOL_HEADER_SENT" \in States
      /\ OpenWaitsOn \in Seq(States)
  <2>1. {"PROTOCOL_HEADER_SENT", "OPENOK_RECEIVED", "CLOSEOK_SENT"} \subseteq States
    BY StatesAre
  <2>2. OpenWaitsOn \in Seq(States)
    BY <2>1, PairElements DEF OpenWaitsOn
  <2> QED BY <2>1, <2>2 DEF TypeOK, Managers
<1>2. /\ task.open = "idle" /\ broker.phase = "idle" /\ inbox = <<>> /\ outbox = <<>>
      /\ task'.open \in {"raised", "waiting"} /\ task'.close = task.close
      /\ SetAndWait("open", "PROTOCOL_HEADER_SENT", OpenWaitsOn)
      /\ UNCHANGED <<settings, reported, inbox, broker>>
      /\ Write(<<header>>)
  BY DEF Open, Goes, TypeOK, NotOpened
<1>3. \/ Keeps(manager, manager') \/ Moves(manager, manager', {"PROTOCOL_HEADER_SENT"})
  BY <1>1, <1>2, SetAndWaitMoves DEF Waiters
<1>4. /\ manager' \in Managers /\ manager'.state # "TUNE_RECEIVED"
      /\ SM!Pending(manager') \subseteq
            SM!Pending(manager) \cup ({"PROTOCOL_HEADER_SENT"} \X Waiters)
  BY <1>3 DEF Keeps, Moves
<1>5. header \in OutFrame /\ header.type = "ProtocolHeader"
  BY FramesAre
<1> HIDE DEF header
<1>6. outbox' = <<>> \/ outbox' = <<header>>
  BY <1>2 DEF Write
<1>7. /\ outbox' \in Seq(OutFrame)
      /\ \A i \in DOMAIN outbox' : i = 1 /\ outbox'[i] = header
  <2>1. CASE outbox' = <<>>
    BY <2>1
  <2>2. CASE outbox' = <<header>>
    BY <1>5, <2>2
  <2> QED BY <1>6, <2>1, <2>2
<1>8. ~ Settled
  BY <1>2 DEF Settled
<1>9. broker.phase # "tuned" /\ ~ broker.accepted
  BY <1>8 DEF AgreedIsSettled
<1>10. NotOpened' /\ HeaderIsFirst' /\ TuneIsOffered'
  BY <1>2, <1>7 DEF NotOpened, HeaderIsFirst, TuneIsOffered
<1>11. TuneOkIsSettled' /\ AgreedIsSettled'
  BY <1>2, <1>5, <1>7, <1>9 DEF TuneOkIsSettled, AgreedIsSettled, Elements
<1>12. OpenOkIsAcceptance' /\ CloseOkSentIsReported'
  BY <1>2, <1>4 DEF OpenOkIsAcceptance, CloseOkSentIsReported
<1> QED BY <1>4, <1>7, <1>10, <1>11, <1>12 DEF Protocol

LEMMA TimePreserves ==
    ASSUME IInv, Tick \/ HeartbeatCheck
    PROVE  Protocol'
<1>1. /\ manager \in Managers /\ UNCHANGED <<manager, settings, task, network, broker>>
      /\ reported \subseteq reported'
  BY DEF IInv, TypeOK, Managers, Tick, HeartbeatCheck
<1>2. ManagerGoes
  BY <1>1 DEF IInv, ManagerGoes
<1>3. FramesGo
  BY <1>1, FramesGoBy DEF network
<1>4. NotOpened'
  BY <1>1 DEF IInv, NotOpened, network
<1> QED BY <1>1, <1>2, <1>3, <1>4, ClientStepPreserves

---------------------------------------------------------------------------
(* The network and the broker *)

LEMMA SocketLostPreserves ==
    ASSUME IInv, SocketLost
    PROVE  Protocol' /\ inbox' \in Seq(InFrame) /\ outbox' \in Seq(OutFrame)
<1>1. /\ inbox \in Seq(InFrame) /\ outbox' = <<>> /\ UNCHANGED <<client, broker>>
      /\ \E n \in 0..Len(inbox) : inbox' = SubSeq(inbox, 1, n)
  BY DEF IInv, WireOK, SocketLost
<1>2. inbox' \in Seq(InFrame) /\ Elements(inbox') \subseteq Elements(inbox)
  BY <1>1, PrefixElements
<1>3. outbox' \in Seq(OutFrame) /\ Elements(outbox') = {} /\ HeaderFirst(outbox')
  BY <1>1 DEF Elements, HeaderFirst
<1>4. FramesGo
  BY <1>2, <1>3 DEF FramesGo
<1>5. ManagerGoes
  BY <1>1 DEF ManagerGoes, client, IInv, TypeOK, Managers
<1>6. inbox = <<>> => inbox' = <<>>
  <2>1. /\ Elements(inbox) = {} <=> inbox = <<>>
        /\ Elements(inbox') = {} <=> inbox' = <<>>
    BY <1>1, <1>2, EmptyElements
  <2> QED BY <2>1, <1>2
<1>7. NotOpened'
  BY <1>1, <1>6 DEF IInv, NotOpened, client
<1> QED BY <1>1, <1>2, <1>3, <1>4, <1>5, <1>7, ClientStepPreserves DEF client

\* The broker reads a frame or speaks: what it does to the frames, in any case.
BrokerFrames(added) ==
    /\ UNCHANGED client
    /\ task.open # "idle"
    /\ inbox' \in Seq(InFrame) /\ Elements(inbox') \subseteq Elements(inbox) \cup added
    /\ outbox' \in Seq(OutFrame) /\ Elements(outbox') \subseteq Elements(outbox)
    /\ \A frame \in Elements(outbox') : frame.type # "ProtocolHeader"

\* The steps of the broker that settle nothing.
BrokerGoesOn ==
    /\ broker'.offered = broker.offered /\ broker'.agreed = broker.agreed
    /\ broker'.accepted = broker.accepted
    /\ broker.phase \notin {"idle", "starting"} => broker'.phase \notin {"idle", "starting"}
    /\ broker'.phase = "tuned" => broker.phase = "tuned"
    /\ broker'.phase = "idle" => broker.phase = "idle" /\ inbox' = inbox

LEMMA BrokerGoesOnPreserves ==
    ASSUME IInv, NEW added \in SUBSET InFrame, BrokerFrames(added), BrokerGoesOn,
           \A frame \in added : frame.type \notin {"Tune", "OpenOk"}
    PROVE  Protocol'
<1> USE DEF IInv
<1>1. /\ \A frame \in Elements(inbox') : frame \in Elements(inbox) \/ frame \in added
      /\ UNCHANGED <<manager, settings, task, reported>>
  BY DEF BrokerFrames, client
<1>2. NotOpened'
  BY <1>1 DEF NotOpened, BrokerFrames
<1>3. HeaderIsFirst'
  BY DEF HeaderIsFirst, BrokerFrames, BrokerGoesOn, Elements
<1>4. TuneIsOffered'
  BY <1>1 DEF TuneIsOffered, BrokerGoesOn
<1>5. Settled => Settled'
  BY <1>1 DEF Settled, BrokerGoesOn
<1>6. TuneOkIsSettled'
  <2> SUFFICES ASSUME NEW frame \in Elements(outbox'), frame.type = "TuneOk"
               PROVE  Settled' /\ frame.settings = settings'
    BY DEF TuneOkIsSettled
  <2>1. frame \in Elements(outbox)
    BY DEF BrokerFrames
  <2> QED BY <2>1, <1>1, <1>5 DEF TuneOkIsSettled
<1>7. AgreedIsSettled'
  BY <1>1, <1>5 DEF AgreedIsSettled, BrokerGoesOn
<1>8. OpenOkIsAcceptance'
  <2>1. "OpenOk" \in Types(inbox') => "OpenOk" \in Types(inbox)
    BY <1>1, TypesOfElements
  <2> QED BY <1>1, <2>1 DEF OpenOkIsAcceptance, BrokerGoesOn
<1>9. CloseOkSentIsReported' /\ manager'.state # "TUNE_RECEIVED"
  BY <1>1 DEF CloseOkSentIsReported
<1> QED BY <1>2, <1>3, <1>4, <1>6, <1>7, <1>8, <1>9 DEF Protocol

LEMMA SendsAppends ==
    ASSUME IInv, NEW frame \in InFrame, Sends(<<frame>>)
    PROVE  /\ inbox' \in Seq(InFrame)
           /\ Elements(inbox') \subseteq Elements(inbox) \cup {frame}
<1> DEFINE sent == <<frame>>
<1>1. inbox \in Seq(InFrame)
  BY DEF IInv, WireOK
<1>2. sent \in Seq(InFrame) /\ Elements(sent) = {frame}
  BY SingleElement
<1>3. inbox' = inbox \/ inbox' = inbox \o sent
  BY DEF Sends
<1> HIDE DEF sent
<1>4. /\ inbox \o sent \in Seq(InFrame)
      /\ Elements(inbox \o sent) = Elements(inbox) \cup {frame}
  BY <1>1, <1>2, ConcatElements
<1> QED BY <1>1, <1>3, <1>4

BrokerType == [phase : Phases, blocked : BOOLEAN, unsolicited : Nat,
               accepted : BOOLEAN, agreed : Settings \cup {None},
               offered : Offers \cup {None}]

LEMMA BrokerSpeaksPreserves ==
    ASSUME IInv, BrokerSpeaks
    PROVE  /\ Protocol' /\ inbox' \in Seq(InFrame) /\ outbox' = outbox
           /\ broker' \in BrokerType
<1> USE DEF IInv
<1>1. PICK type \in {"Heartbeat", "Traffic", "Other", "Blocked", "Unblocked", "Close"} :
        /\ Sends(<<Frame(type)>>)
        /\ broker' = [broker EXCEPT
                !.unsolicited = @ + 1,
                !.blocked = IF type \in {"Blocked", "Unblocked"} THEN ~ @ ELSE @,
                !.phase = IF type = "Close" THEN "closing" ELSE @]
  BY DEF BrokerSpeaks
<1>2. /\ broker \in BrokerType /\ broker.phase = "open" /\ outbox \in Seq(OutFrame)
      /\ outbox' = outbox /\ UNCHANGED client
  BY DEF WireOK, BrokerType, BrokerSpeaks
<1>3. /\ broker'.offered = broker.offered /\ broker'.agreed = broker.agreed
      /\ broker'.accepted = broker.accepted
      /\ broker'.phase \in {"open", "closing"}
  BY <1>1, <1>2 DEF BrokerType
<1>4. broker' \in BrokerType
  <2>1. (IF type \in {"Blocked", "Unblocked"} THEN ~ broker.blocked ELSE broker.blocked)
            \in BOOLEAN
    BY <1>2 DEF BrokerType
  <2>2. broker.unsolicited + 1 \in Nat
    BY <1>2 DEF BrokerType
  <2>3. (IF type = "Close" THEN "closing" ELSE broker.phase) \in Phases
    BY <1>2 DEF Phases
  <2> QED BY <1>1, <1>2, <2>1, <2>2, <2>3 DEF BrokerType
<1>5. /\ Frame(type) \in InFrame /\ Frame(type).type = type
  BY FramesAre
<1>6. /\ inbox' \in Seq(InFrame)
      /\ Elements(inbox') \subseteq Elements(inbox) \cup {Frame(type)}
  BY <1>1, <1>5, SendsAppends
<1>7. task.open # "idle"
  BY <1>2 DEF NotOpened
<1>8. \A frame \in Elements(outbox') : frame.type # "ProtocolHeader"
  BY <1>2 DEF HeaderIsFirst, Elements
<1>9. BrokerFrames({Frame(type)}) /\ BrokerGoesOn
  BY <1>2, <1>3, <1>6, <1>7, <1>8 DEF BrokerFrames, BrokerGoesOn
<1> QED BY <1>2, <1>4, <1>5, <1>6, <1>9, BrokerGoesOnPreserves

\* The frames when the broker takes one from the outbox.
LEMMA BrokerTakes ==
    ASSUME IInv, BrokerReads
    PROVE  /\ UNCHANGED client /\ task.open # "idle"
           /\ Head(outbox) \in Elements(outbox) /\ Head(outbox) \in OutFrame
           /\ Head(outbox).type = "ProtocolHeader" => broker.phase = "idle"
           /\ outbox' \in Seq(OutFrame) /\ Elements(outbox') \subseteq Elements(outbox)
           /\ \A frame \in Elements(outbox') : frame.type # "ProtocolHeader"
           /\ broker \in BrokerType
<1> USE DEF IInv
<1>1. /\ outbox \in Seq(OutFrame) /\ outbox # <<>> /\ outbox' = Tail(outbox)
      /\ UNCHANGED client
  BY DEF WireOK, BrokerReads
<1>2. task.open # "idle"
  BY <1>1 DEF NotOpened
<1>3. HeaderFirst(outbox)
  BY DEF HeaderIsFirst, HeaderFirst
<1>4. /\ outbox' \in Seq(OutFrame) /\ Elements(outbox') \subseteq Elements(outbox)
      /\ Head(outbox) \in Elements(outbox) /\ Head(outbox) \in OutFrame
  BY <1>1, TailElements
<1>5. \A frame \in Elements(outbox') : frame.type # "ProtocolHeader"
  BY <1>1, <1>3, TailHasNoHeader
<1>6. Head(outbox).type = "ProtocolHeader" => broker.phase = "idle"
  BY <1>4 DEF HeaderIsFirst, Elements
<1>7. broker \in BrokerType
  BY DEF WireOK, BrokerType
<1> QED BY <1>1, <1>2, <1>4, <1>5, <1>6, <1>7

\* What is proved of each case of BrokerReads.
BrokerKeeps == Protocol' /\ inbox' \in Seq(InFrame) /\ broker' \in BrokerType

\* A read that is answered with a frame that settles nothing, or not at all.
LEMMA BrokerAnswers ==
    ASSUME IInv, BrokerReads, NEW phase \in Phases \ {"idle", "tuned"},
           broker' = [broker EXCEPT !.phase = phase],
           broker.phase \in {"idle", "starting"} \/ phase # "starting",
           \/ inbox' = inbox
           \/ \E frame \in InFrame : /\ Sends(<<frame>>)
                                     /\ frame.type \notin {"Tune", "OpenOk"}
    PROVE  BrokerKeeps
<1>1. broker \in BrokerType
  BY BrokerTakes
<1>2. /\ broker' \in BrokerType /\ broker'.phase = phase
      /\ broker'.offered = broker.offered /\ broker'.agreed = broker.agreed
      /\ broker'.accepted = broker.accepted
  BY <1>1 DEF BrokerType
<1>3. BrokerGoesOn
  BY <1>2 DEF BrokerGoesOn
<1>4. CASE inbox' = inbox
  <2>1. inbox' \in Seq(InFrame)
    BY <1>4 DEF IInv, WireOK
  <2>2. BrokerFrames({})
    BY <1>4, <2>1, BrokerTakes DEF BrokerFrames
  <2> QED BY <1>2, <1>3, <2>1, <2>2, BrokerGoesOnPreserves DEF BrokerKeeps
<1>5. ASSUME NEW frame \in InFrame, Sends(<<frame>>), frame.type \notin {"Tune", "OpenOk"}
      PROVE  BrokerKeeps
  <2>1. /\ inbox' \in Seq(InFrame)
        /\ Elements(inbox') \subseteq Elements(inbox) \cup {frame}
    BY <1>5, SendsAppends
  <2>2. BrokerFrames({frame})
    BY <2>1, BrokerTakes DEF BrokerFrames
  <2> QED BY <1>2, <1>3, <1>5, <2>1, <2>2, BrokerGoesOnPreserves DEF BrokerKeeps
<1> QED BY <1>4, <1>5

\* Until Connection.Tune is sent nothing is settled.
LEMMA BrokerTunes ==
    ASSUME IInv, BrokerReads, broker.phase = "starting",
           NEW limit \in LimitOffers, NEW heartbeat \in HeartbeatOffers,
           Sends(<<[type |-> "Tune", limit |-> limit, heartbeat |-> heartbeat]>>),
           broker' = [broker EXCEPT !.phase = "tuning",
                         !.offered = [limit |-> limit, heartbeat |-> heartbeat]]
    PROVE  BrokerKeeps
<1> USE DEF IInv
<1> DEFINE tune == [type |-> "Tune", limit |-> limit, heartbeat |-> heartbeat]
           offer == [limit |-> limit, heartbeat |-> heartbeat]
<1>1. limit \in Nat /\ heartbeat \in Nat
  BY Channel0Assumption
<1>2. tune \in InFrame /\ tune.type = "Tune" /\ tune.limit = limit
  BY <1>1 DEF InFrame
<1>3. offer \in Offers /\ offer.limit = limit
  BY <1>1 DEF Offers
<1>4. /\ UNCHANGED client /\ task.open # "idle" /\ broker \in BrokerType
      /\ outbox' \in Seq(OutFrame) /\ Elements(outbox') \subseteq Elements(outbox)
      /\ \A frame \in Elements(outbox') : frame.type # "ProtocolHeader"
  BY BrokerTakes
<1>5. Sends(<<tune>>) /\ broker' = [broker EXCEPT !.phase = "tuning", !.offered = offer]
  OBVIOUS
<1> HIDE DEF tune, offer
<1>6. /\ inbox' \in Seq(InFrame)
      /\ Elements(inbox') \subseteq Elements(inbox) \cup {tune}
  BY <1>2, <1>5, SendsAppends
<1>7. /\ broker' \in BrokerType /\ broker'.phase = "tuning"
      /\ broker'.offered = offer /\ broker'.agreed = broker.agreed
      /\ broker'.accepted = broker.accepted
  BY <1>3, <1>4, <1>5 DEF BrokerType, Phases
<1>8. UNCHANGED <<manager, settings, task, reported>>
  BY <1>4 DEF client
<1>9. ~ Settled
  BY DEF Settled
<1>10. /\ \A frame \in Elements(outbox) : frame.type # "TuneOk"
       /\ \A frame \in Elements(inbox) : frame.type # "Tune"
       /\ ~ broker.accepted
  BY <1>9 DEF TuneOkIsSettled, TuneIsOffered, AgreedIsSettled
<1>11. NotOpened' /\ HeaderIsFirst'
  BY <1>4, <1>7, <1>8 DEF NotOpened, HeaderIsFirst, Elements
<1>12. TuneIsOffered' /\ TuneOkIsSettled' /\ AgreedIsSettled'
  BY <1>2, <1>3, <1>4, <1>6, <1>7, <1>10
  DEF TuneIsOffered, TuneOkIsSettled, AgreedIsSettled
<1>13. OpenOkIsAcceptance' /\ CloseOkSentIsReported' /\ manager'.state # "TUNE_RECEIVED"
  <2>1. "OpenOk" \in Types(inbox') => "OpenOk" \in Types(inbox)
    BY <1>2, <1>6, TypesOfElements
  <2> QED BY <1>7, <1>8, <2>1 DEF OpenOkIsAcceptance, CloseOkSentIsReported
<1> QED BY <1>6, <1>7, <1>11, <1>12, <1>13 DEF BrokerKeeps, Protocol

\* Connection.TuneOk holds the settings that the client keeps.
LEMMA BrokerAgrees ==
    ASSUME IInv, BrokerReads, Head(outbox).type = "TuneOk", UNCHANGED inbox,
           broker' = [broker EXCEPT !.phase = "tuned", !.agreed = Head(outbox).settings]
    PROVE  BrokerKeeps
<1> USE DEF IInv
<1>1. /\ UNCHANGED client /\ task.open # "idle" /\ broker \in BrokerType
      /\ outbox' \in Seq(OutFrame) /\ Elements(outbox') \subseteq Elements(outbox)
      /\ \A frame \in Elements(outbox') : frame.type # "ProtocolHeader"
      /\ Head(outbox) \in Elements(outbox) /\ Head(outbox) \in OutFrame
  BY BrokerTakes
<1>2. Settled /\ Head(outbox).settings = settings
  BY <1>1 DEF TuneOkIsSettled
<1>3. settings \in Settings
  BY DEF TypeOK
<1>4. /\ broker' \in BrokerType /\ broker'.phase = "tuned"
      /\ broker'.offered = broker.offered /\ broker'.agreed = settings
      /\ broker'.accepted = broker.accepted
  BY <1>1, <1>2, <1>3 DEF BrokerType, Phases
<1>5. UNCHANGED <<manager, settings, task, reported>>
  BY <1>1 DEF client
<1>6. Settled'
  BY <1>2, <1>4, <1>5 DEF Settled
<1>7. NotOpened' /\ HeaderIsFirst' /\ TuneIsOffered'
  BY <1>1, <1>4, <1>5 DEF NotOpened, HeaderIsFirst, TuneIsOffered, Elements
<1>8. TuneOkIsSettled' /\ AgreedIsSettled'
  BY <1>1, <1>4, <1>5, <1>6 DEF TuneOkIsSettled, AgreedIsSettled
<1>9. OpenOkIsAcceptance' /\ CloseOkSentIsReported' /\ manager'.state # "TUNE_RECEIVED"
  BY <1>4, <1>5 DEF OpenOkIsAcceptance, CloseOkSentIsReported
<1> QED BY <1>4, <1>7, <1>8, <1>9 DEF BrokerKeeps, Protocol, IInv, WireOK

\* Connection.OpenOk follows the agreement.
LEMMA BrokerAccepts ==
    ASSUME IInv, BrokerReads, broker.phase = "tuned", Sends(<<Frame("OpenOk")>>),
           broker' = [broker EXCEPT !.phase = "open", !.accepted = TRUE]
    PROVE  BrokerKeeps
<1> USE DEF IInv
<1>1. /\ UNCHANGED client /\ task.open # "idle" /\ broker \in BrokerType
      /\ outbox' \in Seq(OutFrame) /\ Elements(outbox') \subseteq Elements(outbox)
      /\ \A frame \in Elements(outbox') : frame.type # "ProtocolHeader"
  BY BrokerTakes
<1>2. Frame("OpenOk") \in InFrame /\ Frame("OpenOk").type = "OpenOk"
  BY FramesAre
<1>3. /\ inbox' \in Seq(InFrame)
      /\ Elements(inbox') \subseteq Elements(inbox) \cup {Frame("OpenOk")}
  BY <1>2, SendsAppends
<1>4. /\ broker' \in BrokerType /\ broker'.phase = "open"
      /\ broker'.offered = broker.offered /\ broker'.agreed = broker.agreed
      /\ broker'.accepted = TRUE
  BY <1>1 DEF BrokerType, Phases
<1>5. UNCHANGED <<manager, settings, task, reported>>
  BY <1>1 DEF client
<1>6. Settled' /\ broker.agreed = settings
  BY <1>4, <1>5 DEF Settled, AgreedIsSettled
<1>7. NotOpened' /\ HeaderIsFirst'
  BY <1>1, <1>4, <1>5 DEF NotOpened, HeaderIsFirst, Elements
<1>8. TuneIsOffered'
  BY <1>2, <1>3, <1>4 DEF TuneIsOffered
<1>9. TuneOkIsSettled' /\ AgreedIsSettled'
  BY <1>1, <1>4, <1>5, <1>6 DEF TuneOkIsSettled, AgreedIsSettled
<1>10. OpenOkIsAcceptance' /\ CloseOkSentIsReported' /\ manager'.state # "TUNE_RECEIVED"
  BY <1>4, <1>5 DEF OpenOkIsAcceptance, CloseOkSentIsReported
<1> QED BY <1>3, <1>4, <1>7, <1>8, <1>9, <1>10 DEF BrokerKeeps, Protocol

LEMMA BrokerReadsPreserves ==
    ASSUME IInv, BrokerReads
    PROVE  BrokerKeeps /\ outbox' \in Seq(OutFrame)
<1> DEFINE type == Head(outbox).type
<1>1. /\ outbox' \in Seq(OutFrame) /\ broker \in BrokerType
      /\ type = "ProtocolHeader" => broker.phase = "idle"
  BY BrokerTakes
<1>2. /\ Frame("Close") \in InFrame /\ Frame("Close").type = "Close"
      /\ Frame("CloseOk") \in InFrame /\ Frame("CloseOk").type = "CloseOk"
  BY FramesAre
<1>3. {"starting", "closing", "closed"} \subseteq Phases \ {"idle", "tuned"}
  BY DEF Phases
<1>4. CASE type = "ProtocolHeader"
  <2>1. PICK supported \in BOOLEAN :
          Sends(<<[type |-> "Start", supported |-> supported]>>)
    BY <1>4 DEF BrokerReads, BrokerAnswersHeader
  <2>2. broker' = [broker EXCEPT !.phase = "starting"]
    BY <1>4 DEF BrokerReads, BrokerAnswersHeader, BrokerGoes
  <2> DEFINE start == [type |-> "Start", supported |-> supported]
  <2>3. start \in InFrame /\ start.type = "Start"
    BY DEF InFrame
  <2>4. Sends(<<start>>)
    BY <2>1
  <2> HIDE DEF start
  <2> QED BY <1>1, <1>3, <1>4, <2>2, <2>3, <2>4, BrokerAnswers
<1>5. CASE type = "StartOk" /\ broker.phase = "starting"
  <2>1. BrokerAnswersStartOk
    BY <1>5 DEF BrokerReads
  <2>2. CASE Sends(<<Frame("Close")>>) /\ BrokerGoes("closing")
    BY <1>1, <1>2, <1>3, <2>2, BrokerAnswers DEF BrokerGoes
  <2> QED BY <1>1, <1>5, <2>1, <2>2, BrokerTunes DEF BrokerAnswersStartOk
<1>6. CASE type = "TuneOk" /\ broker.phase = "tuning"
  <2>1. /\ broker' = [broker EXCEPT !.phase = "tuned", !.agreed = Head(outbox).settings]
        /\ UNCHANGED inbox
    BY <1>6 DEF BrokerReads
  <2> QED BY <1>1, <1>6, <2>1, BrokerAgrees
<1>7. CASE type = "Open" /\ broker.phase = "tuned"
  <2>1. BrokerAnswersOpen
    BY <1>7 DEF BrokerReads
  <2>2. CASE Sends(<<Frame("Close")>>) /\ BrokerGoes("closing")
    BY <1>1, <1>2, <1>3, <2>2, BrokerAnswers DEF BrokerGoes
  <2> QED BY <1>1, <1>7, <2>1, <2>2, BrokerAccepts DEF BrokerAnswersOpen
<1>8. CASE type = "Close" /\ broker.phase # "closed"
  <2>1. Sends(<<Frame("CloseOk")>>) /\ BrokerGoes("closed")
    BY <1>8 DEF BrokerReads
  <2> QED BY <1>1, <1>2, <1>3, <2>1, BrokerAnswers DEF BrokerGoes
<1>9. CASE type = "CloseOk" /\ broker.phase = "closing"
  <2>1. UNCHANGED inbox /\ BrokerGoes("closed")
    BY <1>9 DEF BrokerReads
  <2> QED BY <1>1, <1>3, <2>1, BrokerAnswers DEF BrokerGoes
<1>10. CASE UNCHANGED <<inbox, broker>>
  <2>1. inbox' \in Seq(InFrame) /\ broker' \in BrokerType
    BY <1>1, <1>10 DEF IInv, WireOK
  <2>2. BrokerFrames({}) /\ BrokerGoesOn
    BY <1>10, <2>1, BrokerTakes DEF BrokerFrames, BrokerGoesOn
  <2> QED BY <1>1, <2>1, <2>2, BrokerGoesOnPreserves DEF BrokerKeeps
<1> QED BY <1>1, <1>4, <1>5, <1>6, <1>7, <1>8, <1>9, <1>10 DEF BrokerReads

---------------------------------------------------------------------------
(* Every step keeps the handshake in order, and the types *)

LEMMA NextProtocol ==
    ASSUME IInv, [Next]_vars
    PROVE  Protocol'
<1>1. CASE Receive
  BY <1>1, ReceiveRefusedPreserves, ReceiveStartPreserves, ReceiveTunePreserves,
     ReceiveOpenOkPreserves, ReceiveBlockedPreserves, ReceiveClosePreserves,
     ReceiveCloseOkPreserves, ReceiveHeartbeatPreserves, ReceiveOtherPreserves,
     ReceiveTrafficPreserves
  DEF Receive
<1>2. CASE Open \/ OpenEnds \/ Close \/ CloseEnds
  BY <1>2, OpenPreserves, OpenReturnsPreserves, OpenRaisesPreserves, ClosePreserves,
     CloseEndsPreserves
  DEF OpenEnds
<1>3. CASE CallbackRaises \/ RunReady \/ Tick \/ HeartbeatCheck
  BY <1>3, CallbackRaisesPreserves, RunReadyKept, TimePreserves
<1>4. CASE BrokerReads \/ BrokerSpeaks \/ SocketLost
  BY <1>4, BrokerReadsPreserves, BrokerSpeaksPreserves, SocketLostPreserves
  DEF BrokerKeeps
<1>5. CASE UNCHANGED vars
  <2>1. UNCHANGED <<broker, settings, inbox, outbox, manager, task, reported>>
    BY <1>5 DEF vars, client, network
  <2>2. FramesGo
    BY <2>1, FramesGoBy
  <2>3. ManagerGoes
    BY <2>1 DEF ManagerGoes, IInv, TypeOK, Managers
  <2>4. NotOpened'
    BY <2>1 DEF IInv, NotOpened
  <2> QED BY <2>1, <2>2, <2>3, <2>4, ClientStepPreserves
<1> QED BY <1>1, <1>2, <1>3, <1>4, <1>5 DEF Next

LEMMA NextWire ==
    ASSUME IInv, [Next]_vars
    PROVE  WireOK'
<1>1. CASE Receive /\ ~ ReceiveTune
  <2>1. FramesGo
    BY <1>1, FramesGoBy
    DEF Receive, ReceiveRefused, ReceiveStart, ReceiveOpenOk, ReceiveBlocked, ReceiveClose,
        ReceiveCloseOk, ReceiveHeartbeat, ReceiveOther, ReceiveTraffic, Accepts
  <2>2. UNCHANGED broker
    BY <1>1
    DEF Receive, ReceiveRefused, ReceiveStart, ReceiveOpenOk, ReceiveBlocked, ReceiveClose,
        ReceiveCloseOk, ReceiveHeartbeat, ReceiveOther, ReceiveTraffic
  <2> QED BY <2>1, <2>2 DEF FramesGo, IInv, WireOK
<1>2. CASE ReceiveTune
  <2>1. inbox' \in Seq(InFrame) /\ outbox' \in Seq(OutFrame)
    BY <1>2, ReceiveTunePreserves
  <2> QED BY <1>2, <2>1 DEF ReceiveTune, IInv, WireOK
<1>3. CASE Open
  <2>1. outbox' \in Seq(OutFrame)
    BY <1>3, OpenPreserves
  <2> QED BY <1>3, <2>1 DEF Open, IInv, WireOK
<1>4. CASE Close
  <2>1. FramesGo
    BY <1>4, FramesGoBy DEF Close
  <2> QED BY <1>4, <2>1 DEF FramesGo, Close, IInv, WireOK
<1>5. CASE \/ OpenEnds \/ CloseEnds \/ CallbackRaises \/ RunReady \/ Tick \/ HeartbeatCheck
           \/ UNCHANGED vars
  BY <1>5
  DEF OpenEnds, OpenReturns, OpenRaises, CloseEnds, CloseReturns, CloseRaises,
      CallbackRaises, RunReady, Tick, HeartbeatCheck, vars, network, IInv, WireOK
<1>6. CASE BrokerReads
  BY <1>6, BrokerReadsPreserves DEF BrokerKeeps, BrokerType, WireOK
<1>7. CASE BrokerSpeaks
  BY <1>7, BrokerSpeaksPreserves DEF BrokerType, IInv, WireOK
<1>8. CASE SocketLost
  <2>1. inbox' \in Seq(InFrame) /\ outbox' \in Seq(OutFrame)
    BY <1>8, SocketLostPreserves
  <2> QED BY <1>8, <2>1 DEF SocketLost, IInv, WireOK
<1> QED BY <1>1, <1>2, <1>3, <1>4, <1>5, <1>6, <1>7, <1>8 DEF Next

LEMMA NextManager ==
    ASSUME IInv, [Next]_vars
    PROVE  manager' \in Managers
<1>1. manager \in Managers
  BY DEF IInv, TypeOK, Managers
<1>2. CASE ReceiveRefused
  BY <1>1, <1>2, RefusedCallbackMoves DEF ReceiveRefused, Error, Moves
<1>3. CASE Receive /\ ~ ReceiveRefused
  BY <1>1, <1>3, ReceiveStartPreserves, ReceiveTunePreserves,
     ReceiveOpenOkPreserves, ReceiveBlockedPreserves, ReceiveClosePreserves,
     ReceiveCloseOkPreserves, ReceiveHeartbeatPreserves, ReceiveOtherPreserves
  DEF Receive, ReceiveTraffic
<1>4. CASE Open \/ OpenEnds \/ Close \/ CloseEnds \/ CallbackRaises \/ RunReady
  BY <1>4, OpenPreserves, OpenReturnsPreserves, OpenRaisesPreserves, ClosePreserves,
     CloseEndsPreserves, CallbackRaisesPreserves, RunReadyKept
  DEF OpenEnds
<1>5. CASE \/ Tick \/ HeartbeatCheck \/ BrokerReads \/ BrokerSpeaks \/ SocketLost
           \/ UNCHANGED vars
  BY <1>1, <1>5 DEF Tick, HeartbeatCheck, BrokerReads, BrokerSpeaks, SocketLost, vars, client
<1> QED BY <1>2, <1>3, <1>4, <1>5 DEF Next

\* The settings, the timer and the rest of the client's own state.
ClientTypes ==
    /\ settings \in Settings
    /\ timer \in Nat \cup {None}
    /\ silence \in (0..MaxSilence) \cup {None}
    /\ blocked \in BOOLEAN
    /\ task \in [open    : {"idle", "waiting", "true", "false", "raised"},
                 close   : {"idle", "waiting", "returned", "raised"},
                 orderly : BOOLEAN, stray : BOOLEAN]
    /\ reported \subseteq {"closed by broker", "missed heartbeats"}
    /\ transport \in {"open", "closed", "lost"}

LEMMA NextClientTypes ==
    ASSUME IInv, [Next]_vars
    PROVE  ClientTypes'
<1>1. ClientTypes
  BY DEF IInv, TypeOK, ClientTypes
<1>2. MaxSilence \in Nat /\ None \notin Nat
  BY Channel0Assumption
<1>3. CASE Receive /\ ~ ReceiveTune
  <2>1. CASE ReceiveRefused \/ ReceiveOpenOk \/ ReceiveCloseOk \/ ReceiveOther
    BY <1>1, <2>1
    DEF ReceiveRefused, ReceiveOpenOk, ReceiveCloseOk, ReceiveOther, ClientTypes
  <2>2. CASE ReceiveStart
    BY <1>1, <2>2 DEF ReceiveStart, ClientTypes
  <2>3. ASSUME NEW type, ReceiveBlocked(type)
        PROVE  ClientTypes'
    BY <1>1, <2>3 DEF ReceiveBlocked, ClientTypes
  <2>4. CASE ReceiveClose
    BY <1>1, <2>4 DEF ReceiveClose, ClientTypes
  <2>5. CASE ReceiveHeartbeat \/ ReceiveTraffic
    <3>1. silence' \in 0..MaxSilence
      BY <1>2, <2>5 DEF ReceiveHeartbeat, ReceiveTraffic
    <3> QED BY <1>1, <2>5, <3>1 DEF ReceiveHeartbeat, ReceiveTraffic, ClientTypes
  <2> QED BY <1>3, <2>1, <2>2, <2>3, <2>4, <2>5 DEF Receive
<1>4. CASE ReceiveTune
  <2>1. settings' \in Settings
    BY <1>4, ReceiveTunePreserves
  <2> QED BY <1>1, <1>4, <2>1 DEF ReceiveTune, ClientTypes
<1>5. CASE Open \/ OpenRaises \/ CloseEnds \/ CallbackRaises \/ RunReady
  BY <1>1, <1>5
  DEF Open, OpenRaises, CloseEnds, CloseReturns, CloseRaises, CallbackRaises, RunReady,
      Goes, network, ClientTypes
<1>6. CASE OpenReturns
  <2>1. timer' \in Nat \cup {None}
    BY <1>1, <1>6 DEF OpenReturns, ArmTimer, ClientTypes, Settings
  <2> QED BY <1>1, <1>6, <2>1 DEF OpenReturns, Goes, network, ClientTypes
<1>7. CASE Close
  BY <1>1, <1>7 DEF Close, ClientTypes
<1>8. CASE Tick
  <2>1. timer \in Nat \cup {None} /\ silence \in (0..MaxSilence) \cup {None}
    BY <1>1 DEF ClientTypes
  <2>2. timer' \in Nat \cup {None}
    BY <1>8, <2>1 DEF Tick, Armed
  <2>3. silence' \in (0..MaxSilence) \cup {None}
    BY <1>2, <1>8, <2>1 DEF Tick, Smaller
  <2> QED BY <1>1, <1>8, <2>2, <2>3 DEF Tick, network, ClientTypes
<1>9. CASE HeartbeatCheck
  <2>1. timer' \in {None, settings.heartbeat}
    BY <1>9 DEF HeartbeatCheck
  <2>2. reported' \subseteq reported \cup {"missed heartbeats"}
    BY <1>9 DEF HeartbeatCheck
  <2> QED BY <1>1, <1>9, <2>1, <2>2 DEF HeartbeatCheck, network, ClientTypes, Settings
<1>10. CASE BrokerReads \/ BrokerSpeaks \/ UNCHANGED vars
  BY <1>1, <1>10 DEF BrokerReads, BrokerSpeaks, vars, client, network, ClientTypes
<1>11. CASE SocketLost
  BY <1>1, <1>11 DEF SocketLost, client, ClientTypes
<1> QED BY <1>3, <1>4, <1>5, <1>6, <1>7, <1>8, <1>9, <1>10, <1>11 DEF Next, OpenEnds

LEMMA NextTypeOK ==
    ASSUME IInv, [Next]_vars
    PROVE  TypeOK'
<1>1. inbox' \in Seq(InFrame)
  BY NextWire DEF WireOK
<1>2. \A frame \in {inbox'[i] : i \in DOMAIN inbox'} :
          frame.type = "Tune" => frame.limit \in Nat /\ frame.heartbeat \in Nat
  BY <1>1, FramesAre
<1> QED BY <1>2, NextManager, NextClientTypes DEF TypeOK, ClientTypes, Managers

---------------------------------------------------------------------------
(* The heartbeat timer *)

\* A connection that open() accepted has its heartbeat interval.
LEMMA AcceptedHasInterval ==
    ASSUME OpenOkIsAcceptance, AgreedIsSettled, task.open = "true"
    PROVE  settings.heartbeat \in Nat
BY DEF OpenOkIsAcceptance, AgreedIsSettled, Settled

\* The arithmetic of an interval, a timer and a silence, each a number here.
LEMMA TickArithmetic ==
    ASSUME NEW interval \in Nat, NEW left \in 0..interval, left # 0
    PROVE  /\ left - 1 \in 0..interval
           /\ \A s \in Nat, t \in Nat :
                t <= s + 1 /\ s + left <= 3 * interval => t + (left - 1) <= 3 * interval
OBVIOUS

LEMMA CheckArithmetic ==
    ASSUME NEW interval \in Nat
    PROVE  /\ 0 \in 0..interval /\ interval \in 0..interval
           /\ \A left \in 0..interval : 0 + left <= 3 * interval
           /\ \A s \in Nat : ~ (s > 2 * interval) => s + interval <= 3 * interval
OBVIOUS

LEMMA SilenceArithmetic ==
    ASSUME NEW interval \in Nat, NEW left \in 0..interval, NEW s \in Nat,
           s + left <= 3 * interval
    PROVE  s <= 3 * interval
OBVIOUS

LEMMA SmallerIs ==
    ASSUME NEW a \in Nat, NEW b \in Nat
    PROVE  Smaller(a + 1, b) \in Nat /\ Smaller(a + 1, b) <= a + 1
BY DEF Smaller

LEMMA SilenceIsNumber ==
    ASSUME TypeOK
    PROVE  /\ silence # None => silence \in Nat
           /\ None \notin Nat /\ 0 # None
<1>1. None \notin Nat /\ MaxSilence \in Nat
  BY Channel0Assumption
<1>2. silence \in (0..MaxSilence) \cup {None}
  BY DEF TypeOK
<1>3. 0..MaxSilence \subseteq Nat /\ 0 \in Nat
  BY <1>1
<1> QED BY <1>1, <1>2, <1>3

\* The steps that leave the timer and the answers of open() and close() alone.
LEMMA TimerUntouched ==
    ASSUME IInv, UNCHANGED <<timer, task>>, reported \subseteq reported',
           silence' \in {silence, 0},
           settings' = settings \/ task.open # "true"
    PROVE  TimerIsOpens' /\ CheckIsInTime'
<1> USE DEF IInv
<1>1. TimerIsOpens'
  BY DEF TimerIsOpens, Armed
<1>2. CheckIsInTime'
  <2> SUFFICES ASSUME task.open = "true", task.close = "idle", settings.heartbeat # 0,
                      settings' = settings, "missed heartbeats" \notin reported'
               PROVE  /\ timer \in 0..settings.heartbeat
                      /\ silence' # None => silence' + timer <= 3 * settings.heartbeat
    BY DEF CheckIsInTime
  <2>1. settings.heartbeat \in Nat
    BY AcceptedHasInterval
  <2>2. /\ timer \in 0..settings.heartbeat
        /\ silence # None => silence + timer <= 3 * settings.heartbeat
    BY DEF CheckIsInTime
  <2>3. CASE silence' = silence
    BY <2>2, <2>3
  <2>4. CASE silence' = 0
    <3>1. 0 + timer <= 3 * settings.heartbeat
      BY <2>1, <2>2, CheckArithmetic
    <3> QED BY <2>2, <2>4, <3>1
  <2> QED BY <2>3, <2>4
<1> QED BY <1>1, <1>2

LEMMA TickInTime ==
    ASSUME IInv, Tick
    PROVE  TimerIsOpens' /\ CheckIsInTime'
<1> USE DEF IInv
<1>2. /\ timer # 0 /\ timer' = timer - 1
      /\ silence = None => silence' = None
      /\ UNCHANGED <<settings, task, reported>>
  BY DEF Tick
<1>3. Armed
  BY DEF Tick
<1>4. TimerIsOpens'
  BY <1>2, <1>3 DEF TimerIsOpens
<1>5. CheckIsInTime'
  <2> SUFFICES ASSUME task.open = "true", task.close = "idle", settings.heartbeat # 0,
                      "missed heartbeats" \notin reported
               PROVE  /\ timer' \in 0..settings.heartbeat
                      /\ silence' # None => silence' + timer' <= 3 * settings.heartbeat
    BY <1>2 DEF CheckIsInTime
  <2>1. settings.heartbeat \in Nat
    BY AcceptedHasInterval
  <2>2. /\ timer \in 0..settings.heartbeat
        /\ silence # None => silence + timer <= 3 * settings.heartbeat
    BY DEF CheckIsInTime
  <2>3. timer - 1 \in 0..settings.heartbeat
    BY <1>2, <2>1, <2>2, TickArithmetic
  <2>4. ASSUME silence # None
        PROVE  silence' + (timer - 1) <= 3 * settings.heartbeat
    <3>1. silence \in Nat /\ MaxSilence \in Nat
      BY <2>4, SilenceIsNumber, Channel0Assumption
    <3>2. silence' = Smaller(silence + 1, MaxSilence)
      BY <2>4 DEF Tick
    <3>3. silence' \in Nat /\ silence' <= silence + 1
      BY <3>1, <3>2, SmallerIs
    <3> QED BY <1>2, <2>1, <2>2, <2>4, <3>1, <3>3, TickArithmetic
  <2> QED BY <1>2, <2>3, <2>4
<1> QED BY <1>4, <1>5

LEMMA HeartbeatCheckInTime ==
    ASSUME IInv, HeartbeatCheck
    PROVE  TimerIsOpens' /\ CheckIsInTime'
<1> USE DEF IInv
<1>1. timer = 0 /\ Armed /\ UNCHANGED <<settings, silence, task>>
  BY SilenceIsNumber DEF HeartbeatCheck, Armed
<1>2. silence # None => silence \in Nat
  BY SilenceIsNumber
<1>3. TimerIsOpens'
  BY <1>1 DEF TimerIsOpens
<1>4. CheckIsInTime'
  <2> SUFFICES ASSUME task.open = "true", task.close = "idle", settings.heartbeat # 0,
                      "missed heartbeats" \notin reported'
               PROVE  /\ timer' \in 0..settings.heartbeat
                      /\ silence # None => silence + timer' <= 3 * settings.heartbeat
    BY <1>1 DEF CheckIsInTime
  <2>1. settings.heartbeat \in Nat
    BY AcceptedHasInterval
  <2>2. ~ Missed(2 * settings.heartbeat) /\ timer' = settings.heartbeat
    BY DEF HeartbeatCheck
  <2>3. settings.heartbeat \in 0..settings.heartbeat
    BY <2>1, CheckArithmetic
  <2>4. ASSUME silence # None
        PROVE  silence + settings.heartbeat <= 3 * settings.heartbeat
    <3>1. silence \in Nat
      BY <1>2, <2>4
    <3>2. ~ (silence > 2 * settings.heartbeat)
      BY <2>2, <2>4 DEF Missed
    <3> QED BY <2>1, <3>1, <3>2, CheckArithmetic
  <2> QED BY <2>2, <2>3, <2>4
<1> QED BY <1>3, <1>4

LEMMA CoroutinesInTime ==
    ASSUME IInv, Protocol', Open \/ OpenEnds \/ Close \/ CloseEnds
    PROVE  TimerIsOpens' /\ CheckIsInTime'
<1> USE DEF IInv
<1>1. task \in [open    : {"idle", "waiting", "true", "false", "raised"},
                close   : {"idle", "waiting", "returned", "raised"},
                orderly : BOOLEAN, stray : BOOLEAN]
  BY DEF TypeOK
<1>2. CASE Open
  <2>1. /\ task.open = "idle" /\ task.close = "idle" /\ UNCHANGED <<timer, silence>>
        /\ task'.open \in {"waiting", "raised"} /\ task'.close = "idle"
    BY <1>1, <1>2 DEF Open, Goes, NotOpened
  <2> QED BY <2>1 DEF TimerIsOpens, CheckIsInTime, Armed
<1>3. CASE OpenReturns
  <2>1. /\ task.open = "waiting" /\ ~ Armed /\ silence \in {None, 0}
        /\ task'.open \in {"true", "false"}
        /\ task'.close = task.close /\ task'.orderly = task.orderly
        /\ UNCHANGED <<settings, silence>> /\ ArmTimer
    BY <1>1, <1>3 DEF OpenReturns, Goes, TimerIsOpens
  <2>2. task.close = "idle" \/ ~ task.orderly
    BY <2>1 DEF TimerIsOpens
  <2>3. TimerIsOpens'
    BY <2>1, <2>2 DEF TimerIsOpens
  <2>4. CheckIsInTime'
    <3> SUFFICES ASSUME task'.open = "true", settings.heartbeat # 0
                 PROVE  /\ timer' \in 0..settings.heartbeat
                        /\ silence # None => silence + timer' <= 3 * settings.heartbeat
      BY <2>1 DEF CheckIsInTime
    <3>1. settings.heartbeat \in Nat
      BY <2>1 DEF Protocol, OpenOkIsAcceptance, AgreedIsSettled, Settled
    <3>2. timer' = settings.heartbeat
      BY <2>1, <3>1, Channel0Assumption DEF ArmTimer
    <3> QED BY <2>1, <3>1, <3>2
  <2> QED BY <2>3, <2>4
<1>4. CASE OpenRaises
  <2>1. /\ task.open = "waiting" /\ UNCHANGED <<timer, silence>>
        /\ task'.open = "raised"
        /\ task'.close = task.close /\ task'.orderly = task.orderly
    BY <1>1, <1>4 DEF OpenRaises, Goes
  <2> QED BY <2>1 DEF TimerIsOpens, CheckIsInTime, Armed
<1>5. CASE Close
  <2>1. /\ timer' = None /\ task'.open = task.open /\ task'.close # "idle"
        /\ task'.orderly = (task.open # "waiting") /\ UNCHANGED silence
    BY <1>1, <1>5 DEF Close
  <2> QED BY <2>1 DEF TimerIsOpens, CheckIsInTime, Armed
<1>6. CASE CloseEnds
  <2>1. /\ UNCHANGED <<timer, silence>> /\ task.close = "waiting"
        /\ task'.open = task.open /\ task'.close # "idle" /\ task'.orderly = task.orderly
    BY <1>1, <1>6 DEF CloseEnds, CloseReturns, CloseRaises, Goes
  <2> QED BY <2>1 DEF TimerIsOpens, CheckIsInTime, Armed
<1> QED BY <1>2, <1>3, <1>4, <1>5, <1>6 DEF OpenEnds

LEMMA NextInTime ==
    ASSUME IInv, [Next]_vars
    PROVE  TimerIsOpens' /\ CheckIsInTime'
<1>1. CASE Receive
  <2>1. UNCHANGED <<timer, task>> /\ reported \subseteq reported' /\ silence' \in {silence, 0}
    BY <1>1
    DEF Receive, ReceiveRefused, ReceiveStart, ReceiveTune, ReceiveOpenOk, ReceiveBlocked,
        ReceiveClose, ReceiveCloseOk, ReceiveHeartbeat, ReceiveOther, ReceiveTraffic
  <2>2. settings' = settings \/ task.open # "true"
    BY <1>1, ReceiveTunePreserves
    DEF Receive, ReceiveRefused, ReceiveStart, ReceiveOpenOk, ReceiveBlocked,
        ReceiveClose, ReceiveCloseOk, ReceiveHeartbeat, ReceiveOther, ReceiveTraffic
  <2> QED BY <2>1, <2>2, TimerUntouched
<1>2. CASE Open \/ OpenEnds \/ Close \/ CloseEnds
  BY <1>2, NextProtocol, CoroutinesInTime
<1>3. CASE Tick \/ HeartbeatCheck
  BY <1>3, TickInTime, HeartbeatCheckInTime
<1>4. CASE CallbackRaises
  <2>1. /\ UNCHANGED <<settings, timer, silence, reported>>
        /\ task'.open = task.open /\ task'.close = task.close
        /\ task'.orderly = task.orderly
    BY <1>4 DEF CallbackRaises, IInv, TypeOK
  <2> QED BY <2>1 DEF IInv, TimerIsOpens, CheckIsInTime, Armed
<1>5. CASE RunReady \/ BrokerReads \/ BrokerSpeaks \/ SocketLost \/ UNCHANGED vars
  <2>1. UNCHANGED <<settings, timer, silence, task, reported>>
    BY <1>5 DEF RunReady, BrokerReads, BrokerSpeaks, SocketLost, vars, client
  <2> QED BY <2>1, TimerUntouched
<1> QED BY <1>1, <1>2, <1>3, <1>4, <1>5 DEF Next

---------------------------------------------------------------------------
(* Closed states are left by close() alone *)

\* No frame that is accepted leads out of them.
LEMMA ClosedAccepts ==
    ASSUME IInv, IsClosed, NEW type \in DOMAIN EntersOn, Accepts(type)
    PROVE  type = "CloseOk" /\ manager.state = "CLOSEOK_RECEIVED"
<1>1. \/ manager.state = EntersOn[type]
      \/ EntersOn[type] \in Transitions[manager.state]
  BY AcceptedFrom
<1>2. EntersOn[type] \notin {"PROTOCOL_HEADER_SENT", "CLOSE_SENT", "CLOSEOK_SENT", "EXCEPTION"}
  BY DEF EntersOn
<1>3. EntersOn[type] \notin Transitions[manager.state]
  BY <1>2, ClosedTable DEF IsClosed, ClosedStates
<1>4. EntersOn[type] = "CLOSEOK_RECEIVED" => type = "CloseOk"
  BY DEF EntersOn
<1> QED BY <1>1, <1>2, <1>3, <1>4 DEF IsClosed, ClosedStates

LEMMA ReceiveStaysClosed ==
    ASSUME IInv, IsClosed, Receive
    PROVE  IsClosed'
<1>1. manager \in Managers /\ {"EXCEPTION", "CLOSEOK_RECEIVED"} \subseteq States
  BY StatesAre DEF IInv, TypeOK, Managers
<1>2. {"Start", "Tune", "OpenOk", "Blocked", "Unblocked", "Close", "CloseOk", "Heartbeat"}
        = DOMAIN EntersOn
  BY DEF EntersOn
<1>3. CASE ReceiveRefused
  BY <1>1, <1>3, RefusedCallbackMoves
  DEF ReceiveRefused, Error, Moves, IsClosed, ClosedStates
<1>4. CASE ReceiveOther
  <2>1. ~ SM!Refuses(manager, "EXCEPTION", "AIORabbitException")
    BY DEF SM!Refuses
  <2>2. Moves(manager, manager', {"EXCEPTION"})
    BY <1>1, <1>4, <2>1, EnterMoves DEF ReceiveOther, Error
  <2> QED BY <2>2 DEF Moves, IsClosed, ClosedStates
<1>5. CASE ReceiveCloseOk
  <2>1. /\ EntersOn["CloseOk"] = "CLOSEOK_RECEIVED"
        /\ ~ SM!Refuses(manager, "CLOSEOK_RECEIVED", None)
    BY <1>5 DEF EntersOn, ReceiveCloseOk, Accepts
  <2>2. Moves(manager, manager', {"CLOSEOK_RECEIVED"})
    BY <1>1, <1>5, <2>1, EnterMoves DEF ReceiveCloseOk
  <2> QED BY <2>2 DEF Moves, IsClosed, ClosedStates
<1>6. CASE ReceiveTraffic
  BY <1>6 DEF ReceiveTraffic, IsClosed
<1>7. CASE \/ ReceiveStart \/ ReceiveTune \/ ReceiveOpenOk \/ ReceiveClose \/ ReceiveHeartbeat
           \/ \E type \in {"Blocked", "Unblocked"} : ReceiveBlocked(type)
  <2>1. \E type \in {"Start", "Tune", "OpenOk", "Blocked", "Unblocked", "Close",
                      "Heartbeat"} : Accepts(type)
    BY <1>7 DEF ReceiveStart, ReceiveTune, ReceiveOpenOk, ReceiveClose, ReceiveHeartbeat,
                ReceiveBlocked
  <2> QED BY <1>2, <2>1, ClosedAccepts
<1> QED BY <1>3, <1>4, <1>5, <1>6, <1>7 DEF Receive

LEMMA StaysClosed ==
    ASSUME IInv, [Next]_vars, IsClosed, task'.close = task.close
    PROVE  IsClosed'
<1>1. manager \in Managers /\ task \in [open    : {"idle", "waiting", "true", "false", "raised"},
                close   : {"idle", "waiting", "returned", "raised"},
                orderly : BOOLEAN, stray : BOOLEAN]
  BY DEF IInv, TypeOK, Managers
<1>2. CASE Receive
  BY <1>2, ReceiveStaysClosed
<1>3. CASE CallbackRaises
  BY <1>1, <1>3, OnExceptionMoves
  DEF CallbackRaises, Error, Moves, IsClosed, ClosedStates
<1>4. CASE Open
  <2>1. manager.state = "EXCEPTION"
    BY <1>4 DEF IInv, NotOpened, Open, IsClosed, ClosedStates
  <2>2. SM!Refuses(manager, "PROTOCOL_HEADER_SENT", None)
    BY <2>1, ClosedTable DEF SM!Refuses, SM!Unchanged
  <2>3. manager' = SM!Refuse(manager, "StateTransitionError")
    BY <1>4, <2>2 DEF Open, SetAndWait
  <2>4. manager'.state = "EXCEPTION"
    BY <1>1, <2>1, <2>3, RefuseKeeps DEF Error
  <2> QED BY <2>4 DEF IsClosed, ClosedStates
<1>5. CASE OpenEnds \/ CloseEnds
  <2>1. \E w \in Waiters : manager' = SM!AfterPoll(manager, w)
    BY <1>5
    DEF OpenEnds, OpenReturns, OpenRaises, CloseEnds, CloseReturns, CloseRaises, Waiters
  <2> QED BY <1>1, <2>1, AfterPollKeeps DEF Keeps, IsClosed
<1>6. CASE Close
  <2>1. task.close = "idle" /\ task'.close # "idle"
    BY <1>1, <1>6 DEF Close, MayClose
  <2> QED BY <2>1
<1>7. CASE RunReady
  BY <1>1, <1>7, RunCallbacksKeeps DEF RunReady, Keeps, IsClosed
<1>8. CASE \/ Tick \/ HeartbeatCheck \/ BrokerReads \/ BrokerSpeaks \/ SocketLost
           \/ UNCHANGED vars
  BY <1>8
  DEF Tick, HeartbeatCheck, BrokerReads, BrokerSpeaks, SocketLost, vars, client, IsClosed
<1> QED BY <1>2, <1>3, <1>4, <1>5, <1>6, <1>7, <1>8 DEF Next

---------------------------------------------------------------------------
(* Blocked and Unblocked: the last of them on the wire is how the broker is *)

Blocking == {"Blocked", "Unblocked"}

\* The client takes frames as they come: it has not closed and has a socket.
DeafStates == ClosedStates \cup {"CLOSE_SENT"}
Listens == manager.state \notin DeafStates /\ transport = "open"

IsLast(frames, i) == \A j \in DOMAIN frames : j > i => frames[j].type \notin Blocking

LastSays(frames, is) ==
    \A i \in DOMAIN frames : IsLast(frames, i) =>
        /\ frames[i].type = "Blocked" => is
        /\ frames[i].type = "Unblocked" => ~ is

BlockingInv ==
    Listens => /\ LastSays(inbox, broker.blocked)
               /\ Blocking \cap Types(inbox) = {} => (blocked <=> broker.blocked)

LEMMA TailSays ==
    ASSUME NEW frames \in Seq(InFrame), frames # <<>>, NEW is, LastSays(frames, is)
    PROVE  /\ LastSays(Tail(frames), is)
           /\ Blocking \cap Types(Tail(frames)) = {} =>
                /\ Head(frames).type = "Blocked" => is
                /\ Head(frames).type = "Unblocked" => ~ is
                /\ Head(frames).type \notin Blocking => Blocking \cap Types(frames) = {}
<1>1. /\ Len(frames) \in Nat /\ Len(frames) > 0 /\ DOMAIN frames = 1..Len(frames)
      /\ Head(frames) = frames[1]
      /\ DOMAIN Tail(frames) = 1..(Len(frames) - 1)
      /\ \A i \in 1..(Len(frames) - 1) : Tail(frames)[i] = frames[i + 1]
  OBVIOUS
<1> DEFINE rest == Tail(frames)
<1>2. \A j \in 2..Len(frames) : j - 1 \in DOMAIN rest /\ rest[j - 1] = frames[j]
  BY <1>1
<1>3. ASSUME NEW i \in DOMAIN rest, IsLast(rest, i)
      PROVE  IsLast(frames, i + 1)
  <2> SUFFICES ASSUME NEW j \in DOMAIN frames, j > i + 1
               PROVE  frames[j].type \notin Blocking
    BY DEF IsLast
  <2>1. j \in 2..Len(frames) /\ j - 1 > i
    BY <1>1
  <2> QED BY <1>2, <1>3, <2>1 DEF IsLast
<1>4. LastSays(rest, is)
  <2> SUFFICES ASSUME NEW i \in DOMAIN rest, IsLast(rest, i)
               PROVE  /\ rest[i].type = "Blocked" => is
                      /\ rest[i].type = "Unblocked" => ~ is
    BY DEF LastSays
  <2>1. i + 1 \in DOMAIN frames /\ rest[i] = frames[i + 1]
    BY <1>1
  <2> QED BY <1>3, <2>1 DEF LastSays
<1>5. ASSUME Blocking \cap Types(rest) = {}
      PROVE  /\ frames[1].type = "Blocked" => is
             /\ frames[1].type = "Unblocked" => ~ is
             /\ frames[1].type \notin Blocking => Blocking \cap Types(frames) = {}
  <2>1. \A i \in DOMAIN rest : rest[i].type \notin Blocking
    BY <1>5 DEF Types
  <2>2. \A j \in 2..Len(frames) : frames[j].type \notin Blocking
    BY <1>2, <2>1
  <2>3. \A j \in DOMAIN frames : j = 1 \/ j \in 2..Len(frames)
    BY <1>1
  <2>4. 1 \in DOMAIN frames /\ IsLast(frames, 1)
    BY <1>1, <2>2 DEF IsLast
  <2> QED BY <2>2, <2>3, <2>4 DEF LastSays, Types
<1> QED BY <1>1, <1>4, <1>5

LEMMA AppendSays ==
    ASSUME NEW frames \in Seq(InFrame), NEW frame \in InFrame, NEW is, NEW was,
           LastSays(frames, was), frame.type \notin Blocking => (is <=> was),
           frame.type = "Blocked" => is, frame.type = "Unblocked" => ~ is
    PROVE  /\ LastSays(Append(frames, frame), is)
           /\ frame.type \in Types(Append(frames, frame))
           /\ Types(frames) \subseteq Types(Append(frames, frame))
<1> DEFINE all == Append(frames, frame)
           n == Len(frames) + 1
<1>1. /\ Len(frames) \in Nat /\ DOMAIN frames = 1..Len(frames)
      /\ DOMAIN all = 1..n /\ all[n] = frame
      /\ \A i \in 1..Len(frames) : all[i] = frames[i]
  OBVIOUS
<1> HIDE DEF all
<1>2. /\ n \in DOMAIN all
      /\ \A i \in DOMAIN all : i = n \/ (i \in DOMAIN frames /\ n > i /\ all[i] = frames[i])
      /\ \A i \in DOMAIN frames : i \in DOMAIN all /\ all[i] = frames[i]
  BY <1>1
<1>3. all[n] = frame
  BY <1>1
<1> HIDE DEF n
<1>4. ASSUME NEW i \in DOMAIN all, IsLast(all, i)
      PROVE  /\ all[i].type = "Blocked" => is
             /\ all[i].type = "Unblocked" => ~ is
  <2>1. CASE i = n
    BY <1>3, <2>1
  <2>2. CASE i \in DOMAIN frames /\ n > i /\ all[i] = frames[i]
    <3>1. frame.type \notin Blocking
      BY <1>2, <1>3, <1>4, <2>2 DEF IsLast
    <3>2. IsLast(frames, i)
      BY <1>2, <1>4 DEF IsLast
    <3> QED BY <2>2, <3>1, <3>2 DEF LastSays
  <2> QED BY <1>2, <2>1, <2>2
<1> QED BY <1>2, <1>3, <1>4 DEF LastSays, Types, all

\* A client that has begun to close does not listen again.
LEMMA DeafAccepts ==
    ASSUME IInv, manager.state \in DeafStates, NEW type \in DOMAIN EntersOn, Accepts(type)
    PROVE  type = "CloseOk"
<1>1. \/ manager.state = EntersOn[type]
      \/ EntersOn[type] \in Transitions[manager.state]
  BY AcceptedFrom
<1>2. EntersOn[type] \notin {"PROTOCOL_HEADER_SENT", "CLOSE_SENT", "CLOSEOK_SENT", "EXCEPTION"}
  BY DEF EntersOn
<1>3. Transitions["CLOSE_SENT"] = {"CLOSEOK_RECEIVED"}
  BY DEF Transitions
<1>4. EntersOn[type] = "CLOSEOK_RECEIVED"
  BY <1>1, <1>2, <1>3, ClosedTable DEF DeafStates, ClosedStates
<1> QED BY <1>4 DEF EntersOn

LEMMA StaysDeaf ==
    ASSUME IInv, [Next]_vars, manager.state \in DeafStates
    PROVE  manager'.state \in DeafStates
<1>1. /\ manager \in Managers
      /\ {"EXCEPTION", "CLOSEOK_RECEIVED", "CLOSE_SENT"} \subseteq States
  BY StatesAre DEF IInv, TypeOK, Managers
<1>2. {"EXCEPTION", "CLOSEOK_RECEIVED", "CLOSE_SENT"} \subseteq DeafStates
  BY DEF DeafStates, ClosedStates
<1>3. CASE ReceiveRefused
  BY <1>1, <1>2, <1>3, RefusedCallbackMoves DEF ReceiveRefused, Error, Moves
<1>4. CASE ReceiveOther
  <2>1. ~ SM!Refuses(manager, "EXCEPTION", "AIORabbitException")
    BY DEF SM!Refuses
  <2>2. Moves(manager, manager', {"EXCEPTION"})
    BY <1>1, <1>4, <2>1, EnterMoves DEF ReceiveOther, Error
  <2> QED BY <1>2, <2>2 DEF Moves
<1>5. CASE ReceiveCloseOk
  <2>1. /\ EntersOn["CloseOk"] = "CLOSEOK_RECEIVED"
        /\ ~ SM!Refuses(manager, "CLOSEOK_RECEIVED", None)
    BY <1>5 DEF EntersOn, ReceiveCloseOk, Accepts
  <2>2. Moves(manager, manager', {"CLOSEOK_RECEIVED"})
    BY <1>1, <1>5, <2>1, EnterMoves DEF ReceiveCloseOk
  <2> QED BY <1>2, <2>2 DEF Moves
<1>6. CASE \/ ReceiveStart \/ ReceiveTune \/ ReceiveOpenOk \/ ReceiveClose \/ ReceiveHeartbeat
           \/ \E type \in {"Blocked", "Unblocked"} : ReceiveBlocked(type)
  <2>1. \E type \in {"Start", "Tune", "OpenOk", "Blocked", "Unblocked", "Close",
                      "Heartbeat"} : Accepts(type)
    BY <1>6 DEF ReceiveStart, ReceiveTune, ReceiveOpenOk, ReceiveClose, ReceiveHeartbeat,
                ReceiveBlocked
  <2>2. {"Start", "Tune", "OpenOk", "Blocked", "Unblocked", "Close", "Heartbeat"}
          \subseteq DOMAIN EntersOn
    BY DEF EntersOn
  <2> QED BY <2>1, <2>2, DeafAccepts
<1>7. CASE CallbackRaises
  BY <1>1, <1>2, <1>7, OnExceptionMoves DEF CallbackRaises, Error, Moves
<1>8. CASE Open
  <2>1. manager.state = "EXCEPTION"
    BY <1>8 DEF IInv, NotOpened, Open, DeafStates, ClosedStates
  <2>2. SM!Refuses(manager, "PROTOCOL_HEADER_SENT", None)
    BY <2>1, ClosedTable DEF SM!Refuses, SM!Unchanged
  <2>3. manager' = SM!Refuse(manager, "StateTransitionError")
    BY <1>8, <2>2 DEF Open, SetAndWait
  <2> QED BY <1>1, <2>3, RefuseKeeps DEF Error
<1>9. CASE Close
  <2>1. {"CLOSE_SENT", "CLOSEOK_RECEIVED"} \subseteq States
    BY <1>1
  <2>2. CloseWaitsOn \in Seq(States)
    BY <2>1, SingleElement DEF CloseWaitsOn
  <2>3. Keeps(manager, manager') \/ Moves(manager, manager', {"CLOSE_SENT"})
    BY <1>1, <1>9, <2>2, SetAndWaitMoves DEF Close, Waiters
  <2> QED BY <1>2, <2>3 DEF Keeps, Moves
<1>10. CASE OpenEnds \/ CloseEnds
  <2>1. \E w \in Waiters : manager' = SM!AfterPoll(manager, w)
    BY <1>10
    DEF OpenEnds, OpenReturns, OpenRaises, CloseEnds, CloseReturns, CloseRaises, Waiters
  <2> QED BY <1>1, <2>1, AfterPollKeeps DEF Keeps
<1>11. CASE RunReady
  BY <1>1, <1>11, RunCallbacksKeeps DEF RunReady, Keeps
<1>12. CASE \/ ReceiveTraffic \/ Tick \/ HeartbeatCheck \/ BrokerReads \/ BrokerSpeaks
            \/ SocketLost \/ UNCHANGED vars
  BY <1>12
  DEF ReceiveTraffic, Tick, HeartbeatCheck, BrokerReads, BrokerSpeaks, SocketLost, vars,
      client
<1> QED BY <1>3, <1>4, <1>5, <1>6, <1>7, <1>8, <1>9, <1>10, <1>11, <1>12
    DEF Next, Receive

\* The frame that is taken says nothing of blocking.
LEMMA TakesAgrees ==
    ASSUME IInv, BlockingInv, Listens, NEW type, type \notin Blocking, Takes(type),
           UNCHANGED <<blocked, broker>>
    PROVE  BlockingInv'
<1>1. inbox \in Seq(InFrame) /\ inbox # <<>> /\ Head(inbox).type = type /\ inbox' = Tail(inbox)
  BY DEF IInv, WireOK, Takes
<1>2. /\ LastSays(inbox, broker.blocked)
      /\ Blocking \cap Types(inbox) = {} => (blocked <=> broker.blocked)
  BY DEF BlockingInv
<1>3. /\ LastSays(Tail(inbox), broker.blocked)
      /\ Blocking \cap Types(Tail(inbox)) = {} => Blocking \cap Types(inbox) = {}
  BY <1>1, <1>2, TailSays
<1> QED BY <1>1, <1>2, <1>3 DEF BlockingInv

LEMMA BlockedAgreesOnTake ==
    ASSUME IInv, BlockingInv, Listens, NEW type \in Blocking, ReceiveBlocked(type)
    PROVE  BlockingInv'
<1>1. /\ inbox \in Seq(InFrame) /\ inbox # <<>> /\ Head(inbox).type = type
      /\ inbox' = Tail(inbox) /\ blocked' = (type = "Blocked") /\ broker' = broker
  BY DEF IInv, WireOK, ReceiveBlocked, Accepts, Takes
<1>2. LastSays(inbox, broker.blocked)
  BY DEF BlockingInv
<1>3. /\ LastSays(Tail(inbox), broker.blocked)
      /\ Blocking \cap Types(Tail(inbox)) = {} =>
           /\ type = "Blocked" => broker.blocked
           /\ type = "Unblocked" => ~ broker.blocked
  BY <1>1, <1>2, TailSays
<1>4. type = "Blocked" \/ type = "Unblocked"
  BY DEF Blocking
<1>5. Blocking \cap Types(Tail(inbox)) = {} => (blocked' <=> broker.blocked)
  BY <1>1, <1>3, <1>4
<1> QED BY <1>1, <1>3, <1>5 DEF BlockingInv

\* The broker adds a frame, and is blocked as the frame says.
LEMMA SendsAgrees ==
    ASSUME IInv, BlockingInv, Listens, NEW frame \in InFrame, Sends(<<frame>>),
           blocked' = blocked,
           frame.type \notin Blocking => broker'.blocked = broker.blocked,
           frame.type = "Blocked" => broker'.blocked,
           frame.type = "Unblocked" => ~ broker'.blocked
    PROVE  BlockingInv'
<1>1. inbox \in Seq(InFrame) /\ inbox' = Append(inbox, frame)
  BY DEF IInv, WireOK, Listens, Sends
<1>2. /\ LastSays(inbox, broker.blocked)
      /\ Blocking \cap Types(inbox) = {} => (blocked <=> broker.blocked)
  BY DEF BlockingInv
<1>3. /\ LastSays(Append(inbox, frame), broker'.blocked)
      /\ frame.type \in Types(Append(inbox, frame))
      /\ Types(inbox) \subseteq Types(Append(inbox, frame))
  BY <1>1, <1>2, AppendSays
<1>4. Blocking \cap Types(inbox') = {} => (blocked' <=> broker'.blocked)
  <2> SUFFICES ASSUME Blocking \cap Types(inbox') = {}
               PROVE  blocked' <=> broker'.blocked
    OBVIOUS
  <2>1. frame.type \notin Blocking /\ Blocking \cap Types(inbox) = {}
    BY <1>1, <1>3
  <2> QED BY <1>2, <2>1
<1> QED BY <1>1, <1>3, <1>4 DEF BlockingInv

LEMMA BrokerReadsSaysNothing ==
    ASSUME IInv, BrokerReads
    PROVE  /\ broker'.blocked = broker.blocked
           /\ \/ inbox' = inbox
              \/ \E frame \in InFrame : frame.type \notin Blocking /\ Sends(<<frame>>)
<1> DEFINE type == Head(outbox).type
<1>1. broker \in BrokerType
  BY BrokerTakes
<1>2. \A t \in {"OpenOk", "Close", "CloseOk"} :
        Frame(t) \in InFrame /\ Frame(t).type \notin Blocking
  BY FramesAre DEF Blocking
<1>3. CASE type = "ProtocolHeader"
  <2>1. PICK supported \in BOOLEAN :
          Sends(<<[type |-> "Start", supported |-> supported]>>)
    BY <1>3 DEF BrokerReads, BrokerAnswersHeader
  <2>2. broker' = [broker EXCEPT !.phase = "starting"]
    BY <1>3 DEF BrokerReads, BrokerAnswersHeader, BrokerGoes
  <2> DEFINE start == [type |-> "Start", supported |-> supported]
  <2>3. start \in InFrame /\ start.type \notin Blocking
    BY DEF InFrame, Blocking
  <2>4. Sends(<<start>>)
    BY <2>1
  <2> HIDE DEF start
  <2> QED BY <1>1, <2>2, <2>3, <2>4 DEF BrokerType
<1>4. CASE type = "StartOk" /\ broker.phase = "starting"
  <2>1. BrokerAnswersStartOk
    BY <1>4 DEF BrokerReads
  <2>2. CASE Sends(<<Frame("Close")>>) /\ BrokerGoes("closing")
    BY <1>1, <1>2, <2>2 DEF BrokerGoes, BrokerType
  <2>3. ASSUME NEW limit \in LimitOffers, NEW heartbeat \in HeartbeatOffers,
               Sends(<<[type |-> "Tune", limit |-> limit, heartbeat |-> heartbeat]>>),
               broker' = [broker EXCEPT !.phase = "tuning",
                             !.offered = [limit |-> limit, heartbeat |-> heartbeat]]
        PROVE  /\ broker'.blocked = broker.blocked
               /\ \E frame \in InFrame : frame.type \notin Blocking /\ Sends(<<frame>>)
    <3> DEFINE tune == [type |-> "Tune", limit |-> limit, heartbeat |-> heartbeat]
    <3>1. limit \in Nat /\ heartbeat \in Nat
      BY Channel0Assumption
    <3>2. tune \in InFrame /\ tune.type \notin Blocking
      BY <3>1 DEF InFrame, Blocking
    <3>3. Sends(<<tune>>) /\ broker'.blocked = broker.blocked
      BY <1>1, <2>3 DEF BrokerType
    <3> HIDE DEF tune
    <3> QED BY <3>2, <3>3
  <2> QED BY <2>1, <2>2, <2>3 DEF BrokerAnswersStartOk
<1>5. CASE type = "TuneOk" /\ broker.phase = "tuning"
  <2>1. /\ broker' = [broker EXCEPT !.phase = "tuned", !.agreed = Head(outbox).settings]
        /\ UNCHANGED inbox
    BY <1>5 DEF BrokerReads
  <2> QED BY <1>1, <2>1 DEF BrokerType
<1>6. CASE type = "Open" /\ broker.phase = "tuned"
  <2>1. BrokerAnswersOpen
    BY <1>6 DEF BrokerReads
  <2> QED BY <1>1, <1>2, <2>1 DEF BrokerAnswersOpen, BrokerGoes, BrokerType
<1>7. CASE type = "Close" /\ broker.phase # "closed"
  <2>1. Sends(<<Frame("CloseOk")>>) /\ BrokerGoes("closed")
    BY <1>7 DEF BrokerReads
  <2> QED BY <1>1, <1>2, <2>1 DEF BrokerGoes, BrokerType
<1>8. CASE type = "CloseOk" /\ broker.phase = "closing"
  <2>1. UNCHANGED inbox /\ BrokerGoes("closed")
    BY <1>8 DEF BrokerReads
  <2> QED BY <1>1, <2>1 DEF BrokerGoes, BrokerType
<1>9. CASE UNCHANGED <<inbox, broker>>
  BY <1>9
<1> QED BY <1>3, <1>4, <1>5, <1>6, <1>7, <1>8, <1>9 DEF BrokerReads

LEMMA BrokerSpeaksAgrees ==
    ASSUME IInv, BlockingInv, Listens, BrokerSpeaks
    PROVE  BlockingInv'
<1>1. PICK type \in {"Heartbeat", "Traffic", "Other", "Blocked", "Unblocked", "Close"} :
        /\ type = "Blocked" => ~ broker.blocked
        /\ type = "Unblocked" => broker.blocked
        /\ Sends(<<Frame(type)>>)
        /\ broker' = [broker EXCEPT
                !.unsolicited = @ + 1,
                !.blocked = IF type \in {"Blocked", "Unblocked"} THEN ~ @ ELSE @,
                !.phase = IF type = "Close" THEN "closing" ELSE @]
  BY DEF BrokerSpeaks
<1>2. broker \in BrokerType /\ blocked' = blocked
  BY DEF IInv, WireOK, BrokerType, BrokerSpeaks, client
<1>3. broker'.blocked = IF type \in Blocking THEN ~ broker.blocked ELSE broker.blocked
  BY <1>1, <1>2 DEF BrokerType, Blocking
<1>4. /\ type \notin Blocking => broker'.blocked = broker.blocked
      /\ type = "Blocked" => broker'.blocked
      /\ type = "Unblocked" => ~ broker'.blocked
  BY <1>1, <1>3 DEF Blocking
<1>5. Frame(type) \in InFrame /\ Frame(type).type = type
  BY FramesAre
<1> QED BY <1>1, <1>2, <1>4, <1>5, SendsAgrees

LEMMA NextBlocking ==
    ASSUME IInv, BlockingInv, [Next]_vars
    PROVE  BlockingInv'
<1> SUFFICES ASSUME Listens'
             PROVE  BlockingInv'
  BY DEF BlockingInv
<1>1. Listens
  <2>1. manager.state \notin DeafStates
    BY StaysDeaf DEF Listens
  <2>2. transport = "open"
    BY DEF Listens, Next, Receive, ReceiveRefused, ReceiveStart, ReceiveTune, ReceiveOpenOk,
       ReceiveBlocked, ReceiveClose, ReceiveCloseOk, ReceiveHeartbeat, ReceiveOther,
       ReceiveTraffic, CallbackRaises, Open, OpenEnds, OpenReturns, OpenRaises, Close,
       CloseEnds, CloseReturns, CloseRaises, RunReady, Tick, HeartbeatCheck, BrokerReads,
       BrokerSpeaks, SocketLost, vars, client, network
  <2> QED BY <2>1, <2>2 DEF Listens
<1>2. CASE ReceiveRefused
  <2>1. manager \in Managers
    BY DEF IInv, TypeOK, Managers
  <2>2. manager'.state = "EXCEPTION"
    BY <1>2, <2>1, RefusedCallbackMoves DEF ReceiveRefused, Error, Moves
  <2> QED BY <2>2 DEF Listens, DeafStates, ClosedStates
<1>3. CASE \/ ReceiveStart \/ ReceiveTune \/ ReceiveOpenOk \/ ReceiveClose \/ ReceiveCloseOk
           \/ ReceiveHeartbeat \/ ReceiveOther \/ ReceiveTraffic
  <2>1. /\ \E type \in {"Start", "Tune", "OpenOk", "Close", "CloseOk", "Heartbeat", "Other",
                        "Traffic"} : Takes(type)
        /\ UNCHANGED <<blocked, broker>>
    BY <1>3 DEF ReceiveStart, ReceiveTune, ReceiveOpenOk, ReceiveClose, ReceiveCloseOk,
       ReceiveHeartbeat, ReceiveOther, ReceiveTraffic, Accepts
  <2> QED BY <1>1, <2>1, TakesAgrees DEF Blocking
<1>4. CASE \E type \in {"Blocked", "Unblocked"} : ReceiveBlocked(type)
  BY <1>1, <1>4, BlockedAgreesOnTake DEF Blocking
<1>5. CASE \/ Open \/ OpenEnds \/ Close \/ CloseEnds \/ CallbackRaises \/ RunReady \/ Tick
           \/ HeartbeatCheck \/ UNCHANGED vars
  <2>1. UNCHANGED <<inbox, blocked, broker>>
    BY <1>5
    DEF Open, OpenEnds, OpenReturns, OpenRaises, Close, CloseEnds, CloseReturns, CloseRaises,
        CallbackRaises, RunReady, Tick, HeartbeatCheck, vars, client, network
  <2> QED BY <1>1, <2>1 DEF BlockingInv
<1>6. CASE BrokerReads
  <2>1. /\ blocked' = blocked /\ broker'.blocked = broker.blocked
        /\ \/ inbox' = inbox
           \/ \E frame \in InFrame : frame.type \notin Blocking /\ Sends(<<frame>>)
    BY <1>6, BrokerReadsSaysNothing DEF BrokerReads, client
  <2>2. CASE inbox' = inbox
    BY <1>1, <2>1, <2>2 DEF BlockingInv
  <2>3. ASSUME NEW frame \in InFrame, frame.type \notin Blocking, Sends(<<frame>>)
        PROVE  BlockingInv'
    BY <1>1, <2>1, <2>3, SendsAgrees DEF Blocking
  <2> QED BY <2>1, <2>2, <2>3
<1>7. CASE BrokerSpeaks
  BY <1>1, <1>7, BrokerSpeaksAgrees
<1>8. CASE SocketLost
  BY <1>8 DEF SocketLost, Listens
<1> QED BY <1>2, <1>3, <1>4, <1>5, <1>6, <1>7, <1>8 DEF Next, Receive

---------------------------------------------------------------------------
(* The theorems *)

LEMMA InitIInv == Init => IInv
<1> SUFFICES ASSUME Init PROVE IInv
  OBVIOUS
<1> USE DEF Init
<1>1. SM!NewManager \in Managers /\ SM!Pending(SM!NewManager) = {}
  <2>1. "UNINITIALIZED" \in States
    BY StatesAre
  <2> QED BY <2>1 DEF SM!NewManager, SM!Pending, Managers, SM!ManagerWith, States
<1>2. manager = SM!NewManager /\ manager.state = "UNINITIALIZED"
  BY DEF SM!NewManager
<1>3. settings \in Settings
  BY Channel0Assumption DEF Settings
<1>4. TypeOK
  <2>1. \A frame \in {inbox[i] : i \in DOMAIN inbox} :
            frame.type = "Tune" => frame.limit \in Nat /\ frame.heartbeat \in Nat
    OBVIOUS
  <2>2. /\ timer = None /\ silence = None /\ blocked = FALSE /\ reported = {}
        /\ transport = "open"
        /\ task = [open |-> "idle", close |-> "idle", orderly |-> FALSE, stray |-> FALSE]
    OBVIOUS
  <2>3. task \in [open    : {"idle", "waiting", "true", "false", "raised"},
                  close   : {"idle", "waiting", "returned", "raised"},
                  orderly : BOOLEAN, stray : BOOLEAN]
    BY <2>2
  <2>4. manager \in SM!ManagerWith(Error)
    BY <1>1, <1>2 DEF Managers
  <2>5. /\ timer \in Nat \cup {None} /\ silence \in (0..MaxSilence) \cup {None}
        /\ blocked \in BOOLEAN /\ reported \subseteq {"closed by broker", "missed heartbeats"}
        /\ transport \in {"open", "closed", "lost"}
    BY <2>2
  <2> QED BY <1>3, <2>1, <2>3, <2>4, <2>5 DEF TypeOK
<1>5. WireOK
  BY DEF WireOK, Phases
<1>6. NotOpened /\ HeaderIsFirst /\ TuneIsOffered /\ TuneOkIsSettled /\ AgreedIsSettled
  BY <1>2
  DEF NotOpened, HeaderIsFirst, TuneIsOffered, TuneOkIsSettled, AgreedIsSettled, Elements
<1>7. OpenOkIsAcceptance /\ CloseOkSentIsReported
  BY <1>1, <1>2 DEF OpenOkIsAcceptance, CloseOkSentIsReported, Types
<1>8. TimerIsOpens /\ CheckIsInTime
  BY DEF TimerIsOpens, CheckIsInTime, Armed
<1> QED BY <1>2, <1>4, <1>5, <1>6, <1>7, <1>8 DEF IInv

LEMMA NextIInv == IInv /\ [Next]_vars => IInv'
BY NextTypeOK, NextWire, NextProtocol, NextInTime DEF IInv, Protocol

\* The invariant above, for any intervals, limits and number of frames.
THEOREM Channel0Invariance == Spec => []IInv
BY InitIInv, NextIInv, PTL DEF Spec

\* Type correctness of the client's side and of the frames on the socket.
THEOREM Channel0TypeCorrect == Spec => []TypeOK
<1>1. IInv => TypeOK
  BY DEF IInv
<1> QED BY <1>1, Channel0Invariance, PTL

\* A broker that falls silent is reported within three intervals, whatever the
\* interval is: each check comes at most one interval after the silence may have
\* passed two of them.  (_heartbeat_check, update_last_heartbeat)
THEOREM SilenceIsReported == Spec => []PeerLossReported
<1>1. IInv => PeerLossReported
  <2> SUFFICES ASSUME IInv, task.open = "true", task.close = "idle",
                      settings.heartbeat # 0, silence # None,
                      "missed heartbeats" \notin reported
               PROVE  silence <= 3 * settings.heartbeat
    BY DEF PeerLossReported
  <2>1. settings.heartbeat \in Nat
    BY AcceptedHasInterval DEF IInv
  <2>2. /\ timer \in 0..settings.heartbeat
        /\ silence + timer <= 3 * settings.heartbeat
    BY DEF IInv, CheckIsInTime
  <2>3. silence \in Nat
    BY SilenceIsNumber DEF IInv
  <2> QED BY <2>1, <2>2, <2>3, SilenceArithmetic
<1> QED BY <1>1, Channel0Invariance, PTL

\* open() answers True only when the broker sent OpenOk, and then both sides hold
\* the same settings, for any limits either may ask for.  (open, _negotiate)
THEOREM SettingsAreAgreed == Spec => []AcceptedAsAgreed
<1>1. IInv => AcceptedAsAgreed
  BY DEF IInv, AcceptedAsAgreed, OpenOkIsAcceptance, AgreedIsSettled, Settled
<1> QED BY <1>1, Channel0Invariance, PTL

\* open() answers False only when the client was told why.  (open, process)
THEOREM RefusalsAreReported == Spec => []RefusalIsReported
<1>1. IInv => RefusalIsReported
  BY DEF IInv, RefusalIsReported, CloseOkSentIsReported
<1> QED BY <1>1, Channel0Invariance, PTL

\* No timer outlives an orderly close().  (close, _heartbeat_check)
THEOREM TimersStop == Spec => []TimerStops
<1>1. IInv => TimerStops
  BY DEF IInv, TimerStops, TimerIsOpens
<1> QED BY <1>1, Channel0Invariance, PTL

\* A closed connection stays closed, whatever frames still arrive.
\* (_STATE_TRANSITIONS, process)
THEOREM ConnectionsStayClosed == Spec => ClosedStaysClosed
<1>1. IInv /\ [Next]_vars => [IsClosed /\ task'.close = task.close => IsClosed']_vars
  BY StaysClosed
<1> QED BY <1>1, Channel0Invariance, PTL DEF Spec, ClosedStaysClosed

\* With no Blocked or Unblocked under way both sides agree, in whatever order these
\* and all other frames come.  (process)
THEOREM BlockingIsAgreed == Spec => []BlockedAgrees
<1>1. Init => BlockingInv
  BY DEF Init, BlockingInv, LastSays
<1>2. IInv /\ BlockingInv /\ [Next]_vars => BlockingInv'
  BY NextBlocking
<1>3. IInv /\ BlockingInv => BlockedAgrees
  <2> SUFFICES ASSUME IInv, BlockingInv, Listens, Blocking \cap Types(inbox) = {}
               PROVE  blocked = broker.blocked
    BY DEF BlockedAgrees, Listens, DeafStates, Blocking
  <2>1. blocked <=> broker.blocked
    BY DEF BlockingInv
  <2>2. blocked \in BOOLEAN /\ broker.blocked \in BOOLEAN
    BY DEF IInv, TypeOK, WireOK
  <2> QED BY <2>1, <2>2
<1> QED BY <1>1, <1>2, <1>3, Channel0Invariance, PTL DEF Spec
=============================================================================
