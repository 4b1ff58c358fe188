---------------------- MODULE PublisherConfirms_proofs ----------------------
(***************************************************************************)
(* Proofs about PublisherConfirms: what publish returns is what the broker *)
(* said of that message, and one refusal is raised as an error once, for   *)
(* any number of publishers and of messages, for every outcome, and        *)
(* whether or not the socket and the channel last.  For one publisher on a *)
(* socket that holds, also that its errors are its own, that its tags are  *)
(* dropped, that it is told of messages that come back, and that the       *)
(* frames of the broker leave the client usable.                           *)
(***************************************************************************)
EXTENDS PublisherConfirms, FrameSequences, FiniteSetTheorems, TLAPS

---------------------------------------------------------------------------
(* The inductive invariant *)

Managers == SM!ManagerWith(Error)
Messages == Publisher \X Nat
Phases == {"open", "closing", "closed", "gone"}
Judgements == {"ack", "nack", "return", "NotFound"}

InFrame == [type : {"ack", "nack"}, tag : Nat]
           \cup [type : {"Body"}, by : Messages]
           \cup [type : {"Return", "Header", "Channel.Close", "Channel.OpenOk",
                         "Disconnected"}]
OutFrame == [type : {"Publish"}, by : Messages, body : Bodies]
            \cup [type : {"Channel.CloseOk", "Channel.Open"}]

\* What TypeOK leaves out: the socket, the broker and the values in the dicts.
WireOK ==
    /\ inbox \in Seq(InFrame) /\ outbox \in Seq(OutFrame)
    /\ broker \in [phase : Phases, confirm : BOOLEAN, tag : Nat,
                   unsettled : SUBSET [tag : Nat, by : Messages],
                   verdict : SUBSET (Messages \X Judgements)]
    /\ deliveryTag \in Nat
    /\ tags \in [DOMAIN tags -> BOOLEAN] /\ results \in [DOMAIN results -> {"ack", "nack"}]
    /\ returned \subseteq Messages

\* A publisher waits for a confirmation, or is in publish at all.
Awaits(p) == publisher[p].pc \in {"waiting", "tagged"}
Active(p) == publisher[p].pc # "idle"

\* The calls of publish under way have tags of their own.
TagsAreOwn ==
    /\ \A p \in Publisher : Active(p) =>
           publisher[p].tag \in 1..deliveryTag /\ publisher[p].left > 0
    /\ \A p, q \in Publisher :
           Active(p) /\ Active(q) /\ p # q => publisher[p].tag # publisher[q].tag
    /\ \A p \in Publisher : Awaits(p) => publisher[p].tag \in DOMAIN tags
    /\ \A p \in Publisher :
           Active(p) /\ (\A q \in Publisher : q = p) => publisher[p].tag = deliveryTag

Said(p, verdict) == <<Message(p), verdict>> \in broker.verdict

\* What the client has noted for a publisher is what the broker said.
ResultsAreTrue ==
    \A p \in Publisher : Awaits(p) /\ publisher[p].tag \in DOMAIN results =>
        Said(p, results[publisher[p].tag])

\* So is what it is about to hear.
FramesAreTrue ==
    \A frame \in Elements(inbox) : frame.type \in {"ack", "nack"} =>
        /\ frame.type \in Verdicts /\ frame.tag <= deliveryTag
        /\ \A p \in Publisher : Awaits(p) /\ publisher[p].tag <= frame.tag =>
               Said(p, frame.type)

\* The broker still confirms: it has not closed the first channel.
Confirming == broker.phase = "open" /\ broker.confirm

\* The broker counts what the client counts: the tags of the messages on their way
\* follow the last one that arrived.
BrokerCounts ==
    Confirming /\ transport = "open" =>
        /\ \A i \in DOMAIN outbox : outbox[i].type = "Publish"
        /\ deliveryTag = broker.tag + Len(outbox)
        /\ \A p \in Publisher : Awaits(p) /\ publisher[p].tag > broker.tag =>
               outbox[publisher[p].tag - broker.tag].by = Message(p)
        /\ \A u \in broker.unsettled : u.tag <= broker.tag
        /\ \A p \in Publisher : Awaits(p) /\ publisher[p].tag <= broker.tag =>
               /\ \A u \in broker.unsettled : u.tag = publisher[p].tag => u.by = Message(p)
               /\ \/ \E u \in broker.unsettled : u.tag = publisher[p].tag
                  \/ \E verdict \in Verdicts : Said(p, verdict)

\* After the close of the channel nothing is left to confirm.
ClosedIsSettled ==
    /\ transport = "lost" => outbox = <<>>
    /\ ~ Confirming => broker.unsettled = {}
    /\ lastError # None \/ (\E frame \in Elements(inbox) : frame.type = "Channel.Close")
       => ~ Confirming

\* The broker confirms in order, and either all its verdicts are the same or one
\* publisher waits at a time: a later frame does not settle a message anew.
Unambiguous ==
    /\ ~ OutOfOrder
    /\ \/ \A v, w \in Verdicts : v = w
       \/ \A p, q \in Publisher : p = q

IInv ==
    /\ TypeOK /\ WireOK /\ TagsAreOwn
    /\ BrokerCounts /\ ClosedIsSettled
    /\ Unambiguous => ResultsAreTrue /\ FramesAreTrue /\ ConfirmsAreTrue

---------------------------------------------------------------------------
(* The operators of the state manager keep its type *)

Events == SUBSET (ClientState \X Publisher)

LEMMA ManagersAre ==
    Managers = [state : ClientState, exception : Error \cup {None}, waits : Events,
                ready : Seq(Events), fired : Events]
BY DEF Managers, SM!ManagerWith, SM!Event, Events

LEMMA StatesAre ==
    {"EXCEPTION", "MESSAGE_PUBLISHED", "BASIC_ACK_RECEIVED", "BASIC_NACK_RECEIVED",
     "BASIC_REJECT_RECEIVED", "BASIC_RETURN_RECEIVED", "CHANNEL_CLOSE_RECEIVED",
     "CHANNEL_CLOSEOK_SENT", "OPENING_CHANNEL", "CHANNEL_OPEN_SENT",
     "CHANNEL_OPENOK_RECEIVED", "CONTENT_HEADER_RECEIVED", "CONTENT_BODY_RECEIVED",
     "MESSAGE_ASSEMBLED", "CONFIRM_SELECTOK_RECEIVED", "UNINITIALIZED"} \subseteq ClientState
BY DEF ClientState, Steps, Strict, Refusable, IdleWith, IdleAfter

LEMMA SetStateKeepsType ==
    ASSUME NEW m \in Managers, NEW value \in ClientState, NEW exc \in Error \cup {None},
           NEW refusal \in Error
    PROVE  SM!SetState(m, value, exc, refusal) \in Managers
<1>1. SM!Refuse(m, refusal) \in Managers
  BY ManagersAre DEF SM!Refuse
<1>2. SM!Scheduled(m, value) \in Events
  BY ManagersAre DEF SM!Scheduled, Events
<1>3. (IF SM!Scheduled(m, value) = {} THEN m.ready
       ELSE Append(m.ready, SM!Scheduled(m, value))) \in Seq(Events)
  BY <1>2, ManagersAre
<1>4. SM!Enter(m, value, exc) \in Managers
  BY <1>3, ManagersAre DEF SM!Enter
<1> QED BY <1>1, <1>4 DEF SM!SetState

LEMMA EnterKeepsType ==
    ASSUME NEW m \in Managers, NEW value \in ClientState
    PROVE  Enter(m, value) \in Managers /\ SM!Refuse(m, STE) \in Managers
<1>1. STE \in Error
  BY DEF Error
<1>2. SM!Refuse(m, STE) \in Managers
  BY <1>1, ManagersAre DEF SM!Refuse
<1> QED BY <1>1, <1>2, SetStateKeepsType DEF Enter

LEMMA RegisterKeepsType ==
    ASSUME NEW m \in Managers, NEW p \in Publisher, NEW S \in SUBSET ClientState
    PROVE  SM!Register(m, p, S) \in Managers
BY ManagersAre DEF SM!Register, Events

LEMMA RunCallbacksKeepsType ==
    ASSUME NEW m \in Managers, m.ready # <<>>
    PROVE  SM!RunCallbacks(m) \in Managers
<1>1. m.ready \in Seq(Events) /\ m.fired \in Events
  BY ManagersAre
<1>2. Head(m.ready) \in Events /\ Tail(m.ready) \in Seq(Events)
  <2> HIDE DEF Events
  <2> QED BY <1>1
<1>3. m.fired \cup Head(m.ready) \in Events
  BY <1>1, <1>2 DEF Events
<1> QED BY <1>2, <1>3, ManagersAre DEF SM!RunCallbacks

LEMMA AfterPollKeepsType ==
    ASSUME NEW m \in Managers, NEW p \in Publisher
    PROVE  SM!AfterPoll(m, p) \in Managers
<1>1. /\ m.ready \in Seq(Events) /\ m.fired \in Events /\ m.waits \in Events
  BY ManagersAre
<1>2. [i \in DOMAIN m.ready |-> m.ready[i] \ SM!EventsOf(p)] \in Seq(Events)
  <2>1. /\ Len(m.ready) \in Nat /\ DOMAIN m.ready = 1..Len(m.ready)
        /\ \A i \in DOMAIN m.ready : m.ready[i] \in Events
    BY <1>1
  <2>2. \A i \in DOMAIN m.ready : m.ready[i] \ SM!EventsOf(p) \in Events
    BY <2>1 DEF Events
  <2> HIDE DEF Events
  <2> QED BY <2>1, <2>2
<1>3. m.fired \ SM!EventsOf(p) \in Events /\ m.waits \ SM!EventsOf(p) \in Events
  BY <1>1 DEF Events
<1>4. SM!ClearWaits(m, p) \in Managers
  BY <1>2, <1>3, ManagersAre DEF SM!ClearWaits
<1> QED BY <1>4, ManagersAre DEF SM!AfterPoll

---------------------------------------------------------------------------
(* The frames on the socket *)

LEMMA WriteOne ==
    ASSUME WireOK, NEW frame \in OutFrame, Write(<<frame>>)
    PROVE  outbox' = outbox \/ (transport = "open" /\ outbox' \in Seq(OutFrame))
<1>1. outbox \o <<frame>> \in Seq(OutFrame)
  BY OneMore DEF WireOK
<1> QED BY <1>1 DEF Write

\* The next frame is taken off the socket.
LEMMA TakesTail ==
    ASSUME WireOK, NEW type, Takes(type)
    PROVE  /\ Head(inbox) \in InFrame /\ Head(inbox) \in Elements(inbox)
           /\ Head(inbox).type = type
           /\ inbox' \in Seq(InFrame) /\ Elements(inbox') \subseteq Elements(inbox)
BY TailElements DEF WireOK, Takes

---------------------------------------------------------------------------
(* The publishers' records *)

Pcs == {"idle", "waiting", "tagged", "opening", "raising", "reconnecting"}
Results == {"ack", "nack", STE, "NotFound", "UnknownError", None}
Records(last) == [pc : Pcs, tag : 0..last, result : Results, left : 0..MaxMessages]

LEMMA RecordsAre ==
    ASSUME TypeOK
    PROVE  publisher \in [Publisher -> Records(deliveryTag)]
BY DEF TypeOK, Records, Pcs, Results

\* Only the record of p changes, and not its tag.
Alters(p, pc) ==
    /\ publisher' \in [Publisher -> Records(deliveryTag)]
    /\ \A q \in Publisher : q # p => publisher'[q] = publisher[q]
    /\ publisher'[p].pc = pc /\ publisher'[p].tag = publisher[p].tag

LEMMA EndAlters ==
    ASSUME TypeOK, NEW p \in Publisher, publisher[p].left > 0,
           NEW result \in Results, End(p, result)
    PROVE  /\ Alters(p, "idle") /\ publisher'[p].result = result
           /\ publisher'[p].left = publisher[p].left - 1
<1>1. publisher[p] \in Records(deliveryTag)
  BY RecordsAre
<1>2. MaxMessages \in Nat
  BY PublisherConfirmsAssumption
<1> DEFINE r == [publisher[p] EXCEPT !.pc = "idle", !.result = result, !.left = @ - 1]
<1>3. publisher[p].left - 1 \in 0..MaxMessages
  BY <1>1, <1>2 DEF Records
<1>4. /\ r \in Records(deliveryTag)
      /\ r.pc = "idle" /\ r.tag = publisher[p].tag
      /\ r.result = result /\ r.left = publisher[p].left - 1
  BY <1>1, <1>3 DEF Records, Pcs
<1>5. publisher' = [publisher EXCEPT ![p] = r]
  BY DEF End
<1> HIDE DEF r
<1> QED BY <1>4, <1>5, RecordsAre DEF Alters

LEMMA GoesAlters ==
    ASSUME TypeOK, NEW p \in Publisher, NEW pc \in Pcs, Goes(p, pc)
    PROVE  Alters(p, pc) /\ publisher'[p].left = publisher[p].left
<1>1. publisher[p] \in Records(deliveryTag)
  BY RecordsAre
<1> DEFINE r == [publisher[p] EXCEPT !.pc = pc]
<1>2. /\ r \in Records(deliveryTag)
      /\ r.pc = pc /\ r.tag = publisher[p].tag /\ r.left = publisher[p].left
  BY <1>1 DEF Records
<1>3. publisher' = [publisher EXCEPT ![p] = r]
  BY RecordsAre DEF Goes
<1> HIDE DEF r
<1> QED BY <1>2, <1>3, RecordsAre DEF Alters

---------------------------------------------------------------------------
(* Steps that give no publisher more to believe than it had *)

Quiet ==
    /\ deliveryTag' = deliveryTag
    /\ \A p \in Publisher :
          /\ publisher'[p].tag = publisher[p].tag
          /\ Active(p)' => Active(p) /\ publisher'[p].left = publisher[p].left
          /\ Awaits(p)' =>
                /\ Awaits(p)
                /\ publisher[p].tag \in DOMAIN tags'
                /\ publisher[p].tag \in DOMAIN results' =>
                      /\ publisher[p].tag \in DOMAIN results
                      /\ results'[publisher[p].tag] = results[publisher[p].tag]
    /\ \A frame \in Elements(inbox') :
          frame.type \in {"ack", "nack"} => frame \in Elements(inbox)
    /\ broker.verdict \subseteq broker'.verdict

LEMMA AwaitsIsActive ==
    ASSUME NEW p \in Publisher
    PROVE  (Awaits(p) => Active(p)) /\ (Awaits(p)' => Active(p)')
BY DEF Awaits, Active

LEMMA QuietKeepsTags ==
    ASSUME TagsAreOwn, Quiet
    PROVE  TagsAreOwn'
BY DEF TagsAreOwn, Quiet

LEMMA QuietKeepsSaid ==
    ASSUME Quiet, NEW p \in Publisher, Awaits(p)', NEW verdict, Said(p, verdict)
    PROVE  Said(p, verdict)'
BY AwaitsIsActive DEF Quiet, Said, Message

LEMMA QuietKeepsResults ==
    ASSUME ResultsAreTrue, Quiet
    PROVE  ResultsAreTrue'
<1> SUFFICES ASSUME NEW p \in Publisher, Awaits(p)', publisher'[p].tag \in DOMAIN results'
             PROVE  <<Message(p)', results'[publisher'[p].tag]>> \in broker'.verdict
  BY DEF ResultsAreTrue, Said
<1>1. /\ Awaits(p) /\ publisher'[p].tag = publisher[p].tag
      /\ publisher[p].tag \in DOMAIN results
      /\ results'[publisher[p].tag] = results[publisher[p].tag]
  BY DEF Quiet
<1>2. Said(p, results[publisher[p].tag])
  BY <1>1 DEF ResultsAreTrue
<1>3. Message(p)' = Message(p) /\ broker.verdict \subseteq broker'.verdict
  BY AwaitsIsActive DEF Quiet, Message
<1> QED BY <1>1, <1>2, <1>3 DEF Said

LEMMA QuietKeepsFrames ==
    ASSUME FramesAreTrue, Quiet
    PROVE  FramesAreTrue'
<1> SUFFICES ASSUME NEW frame \in Elements(inbox'), frame.type \in {"ack", "nack"}
             PROVE  /\ frame.type \in Verdicts /\ frame.tag <= deliveryTag'
                    /\ \A p \in Publisher :
                          Awaits(p)' /\ publisher'[p].tag <= frame.tag =>
                              Said(p, frame.type)'
  BY DEF FramesAreTrue, Elements
<1>1. frame \in Elements(inbox) /\ deliveryTag' = deliveryTag
  BY DEF Quiet
<1>2. frame.type \in Verdicts /\ frame.tag <= deliveryTag'
  BY <1>1 DEF FramesAreTrue
<1>3. ASSUME NEW p \in Publisher, Awaits(p)', publisher'[p].tag <= frame.tag
      PROVE  Said(p, frame.type)'
  <2>1. Awaits(p) /\ publisher[p].tag <= frame.tag
    BY <1>3 DEF Quiet
  <2>2. Said(p, frame.type)
    BY <1>1, <2>1 DEF FramesAreTrue
  <2> QED BY <1>3, <2>2, QuietKeepsSaid
<1> QED BY <1>2, <1>3

LEMMA QuietKeepsCounts ==
    ASSUME BrokerCounts, Quiet, broker' = broker, transport' = transport,
           outbox' = outbox \/ ~ Confirming
    PROVE  BrokerCounts'
<1> SUFFICES ASSUME Confirming', transport' = "open"
             PROVE  BrokerCounts'
  BY DEF BrokerCounts
<1>1. Confirming /\ transport = "open" /\ outbox' = outbox /\ deliveryTag' = deliveryTag
  BY DEF Confirming, Quiet
<1>2. ASSUME NEW p \in Publisher, Awaits(p)'
      PROVE  /\ Awaits(p) /\ publisher'[p].tag = publisher[p].tag
             /\ Message(p)' = Message(p)
  BY <1>2, AwaitsIsActive DEF Quiet, Message
<1>3. \A p \in Publisher, verdict \in Verdicts :
         Awaits(p)' /\ Said(p, verdict) => Said(p, verdict)'
  BY QuietKeepsSaid
<1> QED BY <1>1, <1>2, <1>3 DEF BrokerCounts

LEMMA QuietKeepsSettled ==
    ASSUME ClosedIsSettled, broker' = broker, transport' = transport,
           Elements(inbox') \subseteq Elements(inbox),
           outbox' = outbox \/ transport # "lost",
           lastError' \in {lastError, None} \/ ~ Confirming
    PROVE  ClosedIsSettled'
BY DEF ClosedIsSettled, Confirming, Elements

\* What the proof of such a step is left with.
LEMMA QuietStep ==
    ASSUME IInv, Quiet, TypeOK', WireOK', Unambiguous => ConfirmsAreTrue',
           broker' = broker, transport' = transport,
           Elements(inbox') \subseteq Elements(inbox),
           outbox' = outbox \/ (~ Confirming /\ transport # "lost"),
           lastError' \in {lastError, None} \/ ~ Confirming
    PROVE  IInv'
BY QuietKeepsTags, QuietKeepsResults, QuietKeepsFrames, QuietKeepsCounts,
   QuietKeepsSettled DEF IInv

\* No call ends with a confirmation, or the one that does was told the truth.
LEMMA ConfirmsKeep ==
    ASSUME ConfirmsAreTrue, broker.verdict \subseteq broker'.verdict,
           \A p \in Publisher :
              \/ publisher'[p] = publisher[p]
              \/ publisher'[p].pc # "idle"
              \/ publisher'[p].result \notin {"ack", "nack"}
              \/ <<LastMessage(p)', publisher'[p].result>> \in broker'.verdict
    PROVE  ConfirmsAreTrue'
BY DEF ConfirmsAreTrue, Answered, LastMessage

---------------------------------------------------------------------------
(* The steps of publish after its first await *)

DictsOK ==
    /\ tags \in [DOMAIN tags -> BOOLEAN] /\ results \in [DOMAIN results -> {"ack", "nack"}]
    /\ DOMAIN tags \subseteq 1..deliveryTag /\ DOMAIN results \subseteq 1..deliveryTag
    /\ \A t \in DOMAIN tags : tags[t] => t \in DOMAIN results

\* A publisher takes its tag out of a dict, or leaves the dict alone.
Forgets(dict, p) == dict' = dict \/ dict' = Without(dict, publisher[p].tag)

LEMMA InvariantDicts ==
    ASSUME IInv
    PROVE  DictsOK
BY DEF IInv, TypeOK, WireOK, DictsOK

LEMMA ForgetsKeepsDicts ==
    ASSUME DictsOK, NEW p \in Publisher, deliveryTag' = deliveryTag,
           Forgets(tags, p), Forgets(results, p),
           results' = results \/ tags' = Without(tags, publisher[p].tag)
    PROVE  DictsOK'
<1>1. /\ tags \in [DOMAIN tags -> BOOLEAN]
      /\ results \in [DOMAIN results -> {"ack", "nack"}]
  BY DEF DictsOK
<1>2. CASE results' = results /\ tags' = tags
  BY <1>2 DEF DictsOK
<1> DEFINE tag == publisher[p].tag
<1>3. /\ DOMAIN Without(tags, tag) = DOMAIN tags \ {tag}
      /\ Without(tags, tag) \in [DOMAIN Without(tags, tag) -> BOOLEAN]
      /\ \A t \in DOMAIN tags \ {tag} : Without(tags, tag)[t] = tags[t]
  BY <1>1 DEF Without
<1>4. /\ DOMAIN Without(results, tag) = DOMAIN results \ {tag}
      /\ Without(results, tag) \in [DOMAIN Without(results, tag) -> {"ack", "nack"}]
  BY <1>1 DEF Without
<1>5. CASE results' = results /\ tags' = Without(tags, tag)
  BY <1>1, <1>3, <1>5 DEF DictsOK
<1>6. CASE results' = Without(results, tag) /\ tags' = Without(tags, tag)
  BY <1>1, <1>3, <1>4, <1>6 DEF DictsOK
<1> QED BY <1>2, <1>5, <1>6 DEF Forgets

LEMMA AltersIsQuiet ==
    ASSUME TagsAreOwn, DictsOK, NEW p \in Publisher, Active(p), NEW pc, Alters(p, pc),
           pc # "idle" => publisher'[p].left = publisher[p].left,
           pc \in {"waiting", "tagged"} => Awaits(p) /\ tags' = tags /\ results' = results,
           Forgets(tags, p), Forgets(results, p),
           deliveryTag' = deliveryTag, inbox' = inbox, broker' = broker
    PROVE  Quiet
<1>1. ASSUME NEW q \in Publisher
      PROVE  /\ publisher'[q].tag = publisher[q].tag
             /\ Active(q)' => Active(q) /\ publisher'[q].left = publisher[q].left
             /\ Awaits(q)' => Awaits(q)
  BY DEF Alters, Active, Awaits
<1>2. ASSUME NEW q \in Publisher, Awaits(q)'
      PROVE  /\ publisher[q].tag \in DOMAIN tags'
             /\ publisher[q].tag \in DOMAIN results' =>
                   /\ publisher[q].tag \in DOMAIN results
                   /\ results'[publisher[q].tag] = results[publisher[q].tag]
  <2>1. Awaits(q) /\ Active(q) /\ publisher[q].tag \in DOMAIN tags
    BY <1>1, <1>2, AwaitsIsActive DEF TagsAreOwn
  <2>2. CASE q = p
    BY <1>2, <2>1, <2>2 DEF Alters, Awaits
  <2>3. CASE q # p
    <3>1. publisher[q].tag # publisher[p].tag
      BY <2>1, <2>3 DEF TagsAreOwn
    <3>2. /\ DOMAIN Without(tags, publisher[p].tag) = DOMAIN tags \ {publisher[p].tag}
          /\ DOMAIN Without(results, publisher[p].tag)
                = DOMAIN results \ {publisher[p].tag}
          /\ \A t \in DOMAIN results \ {publisher[p].tag} :
                Without(results, publisher[p].tag)[t] = results[t]
      BY DEF Without
    <3> QED BY <2>1, <3>1, <3>2 DEF Forgets
  <2> QED BY <2>2, <2>3
<1> QED BY <1>1, <1>2 DEF Quiet

LEMMA TypeStep ==
    ASSUME manager' \in Managers, publisher' \in [Publisher -> Records(deliveryTag')],
           DictsOK', lastError' \in {"NotFound", None}, channelOpen' \in BOOLEAN,
           failed' \in BOOLEAN, transport' \in {"open", "lost"}
    PROVE  TypeOK'
BY DEF TypeOK, Managers, Records, Pcs, Results, DictsOK

LEMMA PublisherStep ==
    ASSUME IInv, NEW p \in Publisher, Active(p), NEW pc, Alters(p, pc),
           pc # "idle" => publisher'[p].left = publisher[p].left,
           pc \in {"waiting", "tagged"} => Awaits(p) /\ tags' = tags /\ results' = results,
           Forgets(tags, p), Forgets(results, p),
           results' = results \/ tags' = Without(tags, publisher[p].tag),
           manager' \in Managers, lastError' \in {lastError, None},
           outbox' = outbox \/ (/\ ~ Confirming /\ transport # "lost"
                                /\ outbox' \in Seq(OutFrame)),
           UNCHANGED <<deliveryTag, channelOpen, failed, returned, transport, inbox, broker>>,
           \/ pc # "idle" \/ publisher'[p].result \notin {"ack", "nack"}
           \/ Unambiguous => <<LastMessage(p)', publisher'[p].result>> \in broker.verdict
    PROVE  IInv'
<1>1. DictsOK /\ DictsOK'
  BY InvariantDicts, ForgetsKeepsDicts
<1>2. Quiet
  BY <1>1, AltersIsQuiet DEF IInv
<1>3. TypeOK'
  <2>1. /\ lastError \in {"NotFound", None} /\ channelOpen \in BOOLEAN
        /\ failed \in BOOLEAN /\ transport \in {"open", "lost"}
    BY DEF IInv, TypeOK
  <2>2. publisher' \in [Publisher -> Records(deliveryTag')]
    BY DEF Alters
  <2> QED BY <1>1, <2>1, <2>2, TypeStep
<1>4. WireOK'
  BY <1>1 DEF IInv, WireOK, DictsOK
<1>5. Unambiguous => ConfirmsAreTrue'
  <2> SUFFICES ASSUME Unambiguous
               PROVE  ConfirmsAreTrue'
    OBVIOUS
  <2>1. \A q \in Publisher :
           \/ publisher'[q] = publisher[q]
           \/ publisher'[q].pc # "idle"
           \/ publisher'[q].result \notin {"ack", "nack"}
           \/ <<LastMessage(q)', publisher'[q].result>> \in broker'.verdict
    BY DEF Alters
  <2> QED BY <2>1, ConfirmsKeep DEF IInv
<1> QED BY <1>2, <1>3, <1>4, <1>5, QuietStep

LEMMA InvariantManager ==
    ASSUME IInv
    PROVE  manager \in Managers
BY DEF IInv, TypeOK, Managers

LEMMA ActiveHasMore ==
    ASSUME IInv, NEW p \in Publisher, Active(p)
    PROVE  publisher[p].left > 0 /\ publisher[p] \in Records(deliveryTag)
BY RecordsAre DEF IInv, TagsAreOwn

\* The publisher whose event is set takes what the broker said of its message.
LEMMA TakeStep ==
    ASSUME IInv, NEW p \in Publisher, Awaits(p), Take(p), manager' \in Managers,
           UNCHANGED <<session, inbox, outbox, broker>>
    PROVE  IInv'
<1> DEFINE tag == publisher[p].tag
<1>1. Active(p)
  BY AwaitsIsActive
<1>2. tag \in DOMAIN tags /\ tags[tag] /\ tag \in DOMAIN results
  BY DEF IInv, TypeOK, TagsAreOwn, Take
<1>3. results[tag] \in {"ack", "nack"} /\ results[tag] \in Results
  BY <1>2 DEF IInv, WireOK, Results
<1>4. /\ Alters(p, "idle") /\ publisher'[p].result = results[tag]
      /\ publisher'[p].left = publisher[p].left - 1
  BY <1>1, <1>3, ActiveHasMore, EndAlters DEF Take, IInv
<1>5. Unambiguous => <<Message(p), results[tag]>> \in broker.verdict
  BY <1>2 DEF IInv, ResultsAreTrue, Said
<1>6. LastMessage(p)' = Message(p)
  <2>1. publisher[p].left \in Nat
    BY <1>1, ActiveHasMore, PublisherConfirmsAssumption DEF Records
  <2> QED BY <1>4, <2>1 DEF LastMessage, Message
<1>7. /\ tags' = Without(tags, tag) /\ results' = Without(results, tag)
      /\ deliveryTag' = deliveryTag
  BY DEF Take
<1> QED BY <1>1, <1>4, <1>5, <1>6, <1>7, PublisherStep DEF Forgets, session

LEMMA PollSettledStep ==
    ASSUME IInv, NEW p \in Publisher, PollSettled(p)
    PROVE  IInv'
<1>1. Awaits(p) /\ Active(p)
  BY DEF PollSettled, Awaits, Active
<1>2. manager' \in Managers
  BY InvariantManager, AfterPollKeepsType DEF PollSettled
<1>3. CASE Take(p)
  BY <1>1, <1>2, <1>3, TakeStep DEF PollSettled
<1>4. CASE Goes(p, "tagged") /\ UNCHANGED confirms
  <2>1. Alters(p, "tagged") /\ publisher'[p].left = publisher[p].left
    BY <1>4, GoesAlters DEF IInv, Pcs
  <2> QED BY <1>1, <1>2, <1>4, <2>1, PublisherStep
          DEF PollSettled, Forgets, confirms, session
<1> QED BY <1>3, <1>4 DEF PollSettled

LEMMA TagIsSetStep ==
    ASSUME IInv, NEW p \in Publisher, TagIsSet(p)
    PROVE  IInv'
BY InvariantManager, TakeStep DEF TagIsSet, Awaits

LEMMA PollRaisesStep ==
    ASSUME IInv, NEW p \in Publisher, PollRaises(p)
    PROVE  IInv'
<1>1. Active(p)
  BY DEF PollRaises, Active
<1>2. manager' \in Managers
  BY InvariantManager, AfterPollKeepsType DEF PollRaises
<1>3. Alters(p, "reconnecting") /\ publisher'[p].left = publisher[p].left
  BY GoesAlters DEF IInv, Pcs, PollRaises
<1> QED BY <1>1, <1>2, <1>3, PublisherStep DEF PollRaises, Forgets, confirms, session

LEMMA PollClosedTakenStep ==
    ASSUME IInv, NEW p \in Publisher, PollClosedTaken(p)
    PROVE  IInv'
<1>1. Active(p)
  BY DEF PollClosedTaken, Active
<1>2. manager' \in Managers
  BY InvariantManager, AfterPollKeepsType DEF PollClosedTaken
<1>3. Alters(p, "idle") /\ publisher'[p].result = "UnknownError"
  BY <1>1, ActiveHasMore, EndAlters DEF IInv, Results, PollClosedTaken
<1> QED BY <1>1, <1>2, <1>3, PublisherStep DEF PollClosedTaken, Forgets, session

LEMMA RaiseClosedStep ==
    ASSUME IInv, NEW p \in Publisher, RaiseClosed(p)
    PROVE  IInv'
<1> DEFINE result == IF lastError = None THEN "UnknownError" ELSE lastError
<1>1. Active(p)
  BY DEF RaiseClosed, Active
<1>2. result \in Results /\ result \notin {"ack", "nack"}
  BY DEF IInv, TypeOK, Results
<1>3. Alters(p, "idle") /\ publisher'[p].result = result
  BY <1>1, <1>2, ActiveHasMore, EndAlters DEF IInv, RaiseClosed
<1> HIDE DEF result
<1> QED BY <1>1, <1>2, <1>3, InvariantManager, PublisherStep DEF RaiseClosed, Forgets

LEMMA PollClosedStep ==
    ASSUME IInv, NEW p \in Publisher, PollClosed(p)
    PROVE  IInv'
<1> DEFINE m == SM!AfterPoll(manager, p)
           opening == IF channelOpen THEN "raising" ELSE "opening"
<1>1. Active(p)
  BY DEF PollClosed, Active
<1>2. m \in Managers
  BY InvariantManager, AfterPollKeepsType
<1>3. ~ Confirming
  BY DEF IInv, ClosedIsSettled, PollClosed
<1>4. CASE SM!Refuses(m, "OPENING_CHANNEL", None)
  <2>1. manager' = SM!Refuse(m, STE) /\ End(p, STE) /\ outbox' = outbox
    BY <1>4 DEF PollClosed
  <2>2. manager' \in Managers
    BY <1>2, <2>1, EnterKeepsType, StatesAre
  <2>3. Alters(p, "idle") /\ publisher'[p].result = STE
    BY <1>1, <2>1, ActiveHasMore, EndAlters DEF IInv, Results
  <2>4. STE \notin {"ack", "nack"}
    BY DEF STE
  <2> QED BY <1>1, <2>1, <2>2, <2>3, <2>4, PublisherStep
          DEF PollClosed, Forgets, confirms, session
<1>5. CASE ~ SM!Refuses(m, "OPENING_CHANNEL", None)
  <2>1. /\ manager' = Enter(Enter(m, "OPENING_CHANNEL"), "CHANNEL_OPEN_SENT")
        /\ Write(<<[type |-> "Channel.Open"]>>)
        /\ Goes(p, opening)
    BY <1>5 DEF PollClosed
  <2>2. manager' \in Managers
    BY <1>2, <2>1, EnterKeepsType, StatesAre
  <2>3. Alters(p, opening) /\ publisher'[p].left = publisher[p].left
    BY <2>1, GoesAlters DEF IInv, Pcs
  <2>4. outbox' = outbox \/ (transport # "lost" /\ outbox' \in Seq(OutFrame))
    <3>1. [type |-> "Channel.Open"] \in OutFrame
      BY DEF OutFrame
    <3> QED BY <2>1, <3>1, WriteOne DEF IInv
  <2> QED BY <1>1, <1>3, <2>2, <2>3, <2>4, PublisherStep
          DEF PollClosed, Forgets, confirms, session
<1> QED BY <1>4, <1>5

---------------------------------------------------------------------------
(* The event loop and the frames that arrive *)

LEMMA RunReadyStep ==
    ASSUME IInv, RunReady
    PROVE  IInv'
<1>1. manager' \in Managers
  BY InvariantManager, RunCallbacksKeepsType DEF RunReady
<1>2. Quiet
  BY AwaitsIsActive DEF RunReady, Quiet, confirms, Active, Awaits, IInv, TagsAreOwn
<1>3. TypeOK'
  BY <1>1 DEF IInv, TypeOK, Managers, RunReady, confirms, session
<1>4. WireOK'
  BY DEF IInv, WireOK, RunReady, confirms, session
<1>5. Unambiguous => ConfirmsAreTrue'
  BY ConfirmsKeep DEF IInv, RunReady
<1> QED BY <1>2, <1>3, <1>4, <1>5, QuietStep DEF RunReady, session

\* A frame that says nothing of a message: the publishers stay, or leave _open_channel.
Stays(p) ==
    \/ publisher'[p] = publisher[p]
    \/ /\ publisher[p].pc = "opening" /\ publisher'[p].pc = "raising"
       /\ publisher'[p].tag = publisher[p].tag /\ publisher'[p].left = publisher[p].left

LEMMA ReceiveStep ==
    ASSUME IInv, NEW type, Takes(type),
           publisher' \in [Publisher -> Records(deliveryTag)],
           \A p \in Publisher : Stays(p),
           manager' \in Managers, failed' \in BOOLEAN, channelOpen' \in BOOLEAN,
           returned' \subseteq Messages,
           \/ lastError' \in {lastError, None}
           \/ ~ Confirming /\ lastError' = "NotFound",
           outbox' = outbox \/ (/\ ~ Confirming /\ transport # "lost"
                                /\ outbox' \in Seq(OutFrame)),
           UNCHANGED <<confirms, transport, broker>>
    PROVE  IInv'
<1>1. inbox' \in Seq(InFrame) /\ Elements(inbox') \subseteq Elements(inbox)
  BY TakesTail DEF IInv
<1>2. Quiet
  <2>1. \A p \in Publisher :
           /\ publisher'[p].tag = publisher[p].tag
           /\ Active(p)' => Active(p) /\ publisher'[p].left = publisher[p].left
           /\ Awaits(p)' => Awaits(p)
    BY DEF Stays, Active, Awaits
  <2>2. \A p \in Publisher : Awaits(p) => publisher[p].tag \in DOMAIN tags
    BY DEF IInv, TagsAreOwn
  <2> QED BY <1>1, <2>1, <2>2 DEF Quiet, confirms
<1>3. DictsOK /\ DictsOK'
  BY InvariantDicts DEF DictsOK, confirms
<1>4. TypeOK'
  <2>1. lastError \in {"NotFound", None} /\ transport \in {"open", "lost"}
    BY DEF IInv, TypeOK
  <2>2. deliveryTag' = deliveryTag
    BY DEF confirms
  <2> QED BY <1>3, <2>1, <2>2, TypeStep
<1>5. WireOK'
  BY <1>1, <1>3 DEF IInv, WireOK, DictsOK, confirms
<1>6. Unambiguous => ConfirmsAreTrue'
  BY ConfirmsKeep DEF IInv, Stays
<1> QED BY <1>1, <1>2, <1>4, <1>5, <1>6, QuietStep

\* The publishers and what they share stay as they are.
LEMMA SameStay ==
    ASSUME IInv, publisher' = publisher
    PROVE  /\ publisher' \in [Publisher -> Records(deliveryTag)]
           /\ \A p \in Publisher : Stays(p)
BY RecordsAre DEF IInv, Stays

LEMMA SessionIs ==
    ASSUME IInv
    PROVE  /\ failed \in BOOLEAN /\ channelOpen \in BOOLEAN /\ returned \subseteq Messages
           /\ lastError \in {lastError, None} /\ manager \in Managers
BY InvariantManager DEF IInv, TypeOK, WireOK

LEMMA ReceiveContentStep ==
    ASSUME IInv, NEW type, NEW state \in ClientState, ReceiveContent(type, state)
    PROVE  IInv'
<1>1. manager' \in Managers /\ failed' \in BOOLEAN
  BY SessionIs, EnterKeepsType DEF ReceiveContent, Receives, SM!Refuses
<1> QED BY <1>1, SessionIs, SameStay, ReceiveStep DEF ReceiveContent

LEMMA ReceiveBodyStep ==
    ASSUME IInv, ReceiveBody
    PROVE  IInv'
<1> DEFINE refused == SM!Refuses(manager, "CONTENT_BODY_RECEIVED", None)
<1>1. Takes("Body")
  BY DEF ReceiveBody
<1>2. Head(inbox).by \in Messages
  BY <1>1, TakesTail DEF IInv, InFrame
<1>3. manager' \in Managers
  BY SessionIs, StatesAre, EnterKeepsType DEF ReceiveBody
<1>4. failed' \in BOOLEAN
  BY SessionIs DEF ReceiveBody
<1>5. returned' \subseteq Messages
  BY <1>2, SessionIs DEF ReceiveBody
<1> QED BY <1>1, <1>3, <1>4, <1>5, SessionIs, SameStay, ReceiveStep DEF ReceiveBody

LEMMA ReceiveChannelCloseStep ==
    ASSUME IInv, ReceiveChannelClose
    PROVE  IInv'
<1>1. Takes("Channel.Close")
  BY DEF ReceiveChannelClose
<1>2. ~ Confirming
  BY <1>1, TakesTail DEF IInv, ClosedIsSettled
<1>3. CASE SM!Refuses(manager, "CHANNEL_CLOSE_RECEIVED", None)
  <2>1. manager' \in Managers /\ failed' \in BOOLEAN
    BY <1>3, SessionIs, StatesAre, EnterKeepsType DEF ReceiveChannelClose, Receives
  <2> QED BY <1>1, <1>3, <2>1, SessionIs, SameStay, ReceiveStep DEF ReceiveChannelClose
<1>4. CASE ~ SM!Refuses(manager, "CHANNEL_CLOSE_RECEIVED", None)
  <2>1. manager' \in Managers
    BY <1>4, SessionIs, StatesAre, EnterKeepsType DEF ReceiveChannelClose
  <2>2. outbox' = outbox \/ (transport # "lost" /\ outbox' \in Seq(OutFrame))
    <3>1. [type |-> "Channel.CloseOk"] \in OutFrame
      BY DEF OutFrame
    <3> QED BY <1>4, <3>1, WriteOne DEF ReceiveChannelClose, IInv
  <2> QED BY <1>1, <1>2, <1>4, <2>1, <2>2, SessionIs, SameStay, ReceiveStep
          DEF ReceiveChannelClose
<1> QED BY <1>3, <1>4

LEMMA ReceiveChannelOpenOkStep ==
    ASSUME IInv, ReceiveChannelOpenOk
    PROVE  IInv'
<1>1. manager' \in Managers /\ failed' \in BOOLEAN
  BY SessionIs, StatesAre, EnterKeepsType DEF ReceiveChannelOpenOk, Receives
<1>2. publisher \in [Publisher -> Records(deliveryTag)]
  BY RecordsAre DEF IInv
<1>3. ASSUME NEW p \in Publisher
      PROVE  publisher'[p] \in Records(deliveryTag) /\ Stays(p)
  <2>1. publisher[p] \in Records(deliveryTag)
    BY <1>2
  <2>2. publisher'[p] = IF publisher[p].pc = "opening"
                        THEN [publisher[p] EXCEPT !.pc = "raising"] ELSE publisher[p]
    BY DEF ReceiveChannelOpenOk
  <2> QED BY <2>1, <2>2 DEF Stays, Records, Pcs
<1>4. publisher' \in [Publisher -> Records(deliveryTag)]
  BY <1>3 DEF ReceiveChannelOpenOk
<1> QED BY <1>1, <1>3, <1>4, SessionIs, ReceiveStep DEF ReceiveChannelOpenOk

LEMMA DisconnectedStep ==
    ASSUME IInv, Disconnected
    PROVE  IInv'
<1>1. "ConnectionClosedException" \in Error /\ STE \in Error
  BY DEF Error
<1>2. manager' \in Managers
  BY <1>1, SessionIs, StatesAre, SetStateKeepsType DEF Disconnected
<1> QED BY <1>2, SessionIs, SameStay, ReceiveStep DEF Disconnected, session

LEMMA SocketLostStep ==
    ASSUME IInv, SocketLost
    PROVE  IInv'
<1> DEFINE lost == [type |-> "Disconnected"]
<1>1. inbox \in Seq(InFrame) /\ lost \in InFrame
  BY DEF IInv, WireOK, InFrame
<1>2. PICK n \in 0..Len(inbox) : inbox' = Append(SubSeq(inbox, 1, n), lost)
  BY DEF SocketLost
<1> DEFINE prefix == SubSeq(inbox, 1, n)
<1>3. prefix \in Seq(InFrame) /\ Elements(prefix) \subseteq Elements(inbox)
  BY <1>1, PrefixElements
<1>4. inbox' = prefix \o <<lost>>
  BY <1>1, <1>2, <1>3
<1>5. /\ inbox' \in Seq(InFrame)
      /\ \A frame \in Elements(inbox') : frame \in Elements(inbox) \/ frame = lost
  <2> HIDE DEF prefix, lost
  <2>1. prefix \o <<lost>> \in Seq(InFrame)
    BY <1>1, <1>3, OneMore
  <2>2. Elements(prefix \o <<lost>>) \subseteq Elements(prefix) \cup {lost}
    BY <1>1, <1>3, OneMore
  <2> QED BY <1>3, <1>4, <2>1, <2>2
<1>6. Quiet
  BY <1>5 DEF SocketLost, Quiet, confirms, Active, Awaits, IInv, TagsAreOwn
<1>7. TypeOK'
  BY DEF IInv, TypeOK, SocketLost, confirms
<1>8. WireOK'
  BY <1>5 DEF IInv, WireOK, SocketLost, confirms
<1>9. BrokerCounts'
  BY DEF BrokerCounts, SocketLost
<1>10. ClosedIsSettled'
  <2>1. \A frame \in Elements(inbox') :
           frame.type = "Channel.Close" => frame \in Elements(inbox)
    BY <1>5
  <2> QED BY <2>1 DEF IInv, ClosedIsSettled, SocketLost, Confirming, Elements
<1>11. Unambiguous => ConfirmsAreTrue'
  BY ConfirmsKeep DEF IInv, SocketLost
<1> QED BY <1>6, <1>7, <1>8, <1>9, <1>10, <1>11,
           QuietKeepsTags, QuietKeepsResults, QuietKeepsFrames DEF IInv

---------------------------------------------------------------------------
(* A frame that confirms *)

LEMMA SetResultIs ==
    ASSUME DictsOK, NEW tag \in Nat, NEW verdict \in {"ack", "nack"},
           SetResult(tag, verdict), deliveryTag' = deliveryTag
    PROVE  /\ DictsOK' /\ DOMAIN tags' = DOMAIN tags
           /\ \A t \in DOMAIN results' :
                 \/ t \in Covered(tag) /\ results'[t] = verdict
                 \/ t \in DOMAIN results /\ results'[t] = results[t]
<1>1. /\ DOMAIN tags' = DOMAIN tags
      /\ DOMAIN results' = DOMAIN results \cup Covered(tag)
      /\ \A t \in DOMAIN tags : tags'[t] = (tags[t] \/ t <= tag)
      /\ \A t \in DOMAIN results' :
            results'[t] = IF t \in Covered(tag) THEN verdict ELSE results[t]
  BY DEF SetResult
<1>2. tags' \in [DOMAIN tags' -> BOOLEAN]
  BY DEF SetResult
<1>3. results' \in [DOMAIN results' -> {"ack", "nack"}]
  <2>1. \A t \in DOMAIN results' : results'[t] \in {"ack", "nack"}
    BY <1>1 DEF DictsOK
  <2>2. results' = [t \in DOMAIN results' |-> results'[t]]
    BY DEF SetResult
  <2> QED BY <2>1, <2>2
<1>4. DOMAIN results' \subseteq 1..deliveryTag' /\ DOMAIN tags' \subseteq 1..deliveryTag'
  BY <1>1 DEF DictsOK, Covered
<1>5. ASSUME NEW t \in DOMAIN tags', tags'[t]
      PROVE  t \in DOMAIN results'
  <2>1. tags[t] \/ t <= tag
    BY <1>1, <1>5
  <2> QED BY <1>1, <1>5, <2>1 DEF DictsOK, Covered
<1> QED BY <1>1, <1>2, <1>3, <1>4, <1>5 DEF DictsOK

LEMMA ReceiveSettledStep ==
    ASSUME IInv, NEW type \in {"ack", "nack"}, NEW state \in ClientState,
           ReceiveSettled(type, state)
    PROVE  IInv'
<1> DEFINE frame == Head(inbox)
<1>1. /\ frame \in Elements(inbox) /\ frame.type = type /\ frame.tag \in Nat
      /\ inbox' \in Seq(InFrame) /\ Elements(inbox') \subseteq Elements(inbox)
  <2>1. /\ frame \in Elements(inbox) /\ frame.type = type /\ frame \in InFrame
        /\ inbox' \in Seq(InFrame) /\ Elements(inbox') \subseteq Elements(inbox)
    BY TakesTail DEF ReceiveSettled, IInv
  <2> QED BY <2>1 DEF InFrame
<1>2. SetResult(frame.tag, type) /\ deliveryTag' = deliveryTag
  BY DEF ReceiveSettled
<1> HIDE DEF frame
<1>3. /\ DictsOK' /\ DOMAIN tags' = DOMAIN tags
      /\ \A t \in DOMAIN results' :
            \/ t \in Covered(frame.tag) /\ results'[t] = type
            \/ t \in DOMAIN results /\ results'[t] = results[t]
  BY <1>1, <1>2, InvariantDicts, SetResultIs
<1>4. publisher' = publisher /\ broker' = broker /\ outbox' = outbox
  BY DEF ReceiveSettled
<1>5. TypeOK'
  <2>1. manager' \in Managers /\ failed' \in BOOLEAN
    BY SessionIs, EnterKeepsType DEF ReceiveSettled, Receives, SM!Refuses
  <2>2. publisher' \in [Publisher -> Records(deliveryTag')]
    BY <1>2, <1>4, SameStay
  <2>3. /\ lastError \in {"NotFound", None} /\ transport \in {"open", "lost"}
        /\ channelOpen \in BOOLEAN
    BY DEF IInv, TypeOK
  <2> QED BY <1>3, <2>1, <2>2, <2>3, TypeStep DEF ReceiveSettled
<1>6. WireOK'
  BY <1>1, <1>2, <1>3, <1>4 DEF IInv, WireOK, DictsOK, ReceiveSettled
<1>7. TagsAreOwn'
  BY <1>2, <1>3, <1>4 DEF IInv, TagsAreOwn, Active, Awaits
<1>8. BrokerCounts'
  BY <1>2, <1>4 DEF IInv, BrokerCounts, Confirming, Awaits, Said, Message, ReceiveSettled
<1>9. ClosedIsSettled'
  BY <1>1, <1>4, QuietKeepsSettled DEF IInv, ReceiveSettled
<1>10. ASSUME Unambiguous
       PROVE  ResultsAreTrue' /\ FramesAreTrue' /\ ConfirmsAreTrue'
  <2>1. ResultsAreTrue /\ FramesAreTrue /\ ConfirmsAreTrue
    BY <1>10 DEF IInv
  <2>2. ASSUME NEW p \in Publisher, Awaits(p), publisher[p].tag \in DOMAIN results'
        PROVE  Said(p, results'[publisher[p].tag])
    <3> DEFINE tag == publisher[p].tag
    <3>1. CASE tag \in Covered(frame.tag) /\ results'[tag] = type
      <4>1. tag <= frame.tag
        BY <3>1 DEF Covered
      <4> QED BY <1>1, <2>1, <2>2, <3>1, <4>1 DEF FramesAreTrue
    <3>2. CASE tag \in DOMAIN results /\ results'[tag] = results[tag]
      BY <2>1, <2>2, <3>2 DEF ResultsAreTrue
    <3> QED BY <1>3, <2>2, <3>1, <3>2
  <2>3. ResultsAreTrue'
    BY <1>4, <2>2 DEF ResultsAreTrue, Awaits, Said, Message
  <2>4. FramesAreTrue'
    BY <1>1, <1>2, <1>4, <2>1 DEF FramesAreTrue, Awaits, Said, Message, Elements
  <2>5. ConfirmsAreTrue'
    BY <1>4, <2>1, ConfirmsKeep
  <2> QED BY <2>3, <2>4, <2>5
<1> QED BY <1>5, <1>6, <1>7, <1>8, <1>9, <1>10 DEF IInv, Unambiguous

---------------------------------------------------------------------------
(* publish up to its first await *)

\* What Publish does, refused or not.
LEMMA PublishIs ==
    ASSUME IInv, NEW p \in Publisher, Publish(p)
    PROVE  /\ deliveryTag' = deliveryTag + 1 /\ deliveryTag \in Nat
           /\ \A q \in Publisher : q # p => publisher'[q] = publisher[q]
           /\ publisher' \in [Publisher -> Records(deliveryTag')]
           /\ manager' \in Managers
           /\ \/ publisher'[p].pc = "idle" /\ publisher'[p].result = STE
              \/ /\ publisher'[p].pc = "waiting" /\ publisher'[p].tag = deliveryTag'
                 /\ publisher'[p].left = publisher[p].left /\ publisher[p].left > 0
<1> DEFINE tag == deliveryTag + 1
           refused == SM!Refuses(manager, "MESSAGE_PUBLISHED", None)
<1>1. deliveryTag \in Nat /\ deliveryTag' = tag
  BY DEF Publish, IInv, WireOK
<1>2. publisher[p] \in Records(deliveryTag) /\ publisher[p].left > 0
  BY RecordsAre DEF IInv, Publish
<1>3. \A q \in Publisher : publisher[q] \in Records(tag)
  <2>1. 0..deliveryTag \subseteq 0..tag
    BY <1>1
  <2> QED BY <2>1, RecordsAre DEF IInv, Records
<1>4. manager \in Managers /\ "MESSAGE_PUBLISHED" \in ClientState
  BY SessionIs, StatesAre
<1>5. CASE refused
  <2>1. manager' = SM!Refuse(manager, STE) /\ End(p, STE)
    BY <1>5 DEF Publish
  <2>2. manager' \in Managers
    BY <1>4, <2>1, EnterKeepsType
  <2>3. /\ Alters(p, "idle") /\ publisher'[p].result = STE
    BY <1>2, <2>1, EndAlters DEF IInv, Results
  <2>4. publisher' \in [Publisher -> Records(tag)]
    <3>1. /\ publisher' \in [Publisher -> Records(deliveryTag)]
          /\ 0..deliveryTag \subseteq 0..tag
      BY <1>1, <2>3 DEF Alters
    <3>2. Records(deliveryTag) \subseteq Records(tag)
      BY <3>1 DEF Records
    <3> QED BY <3>1, <3>2
  <2> QED BY <1>1, <2>2, <2>3, <2>4 DEF Alters
<1>6. CASE ~ refused
  <2>1. /\ manager' = SM!Register(Enter(manager, "MESSAGE_PUBLISHED"), p,
                                  SettledStates \cup {"CHANNEL_CLOSE_RECEIVED"})
        /\ publisher' = [publisher EXCEPT ![p].pc = "waiting", ![p].tag = tag]
    BY <1>6 DEF Publish
  <2>2. manager' \in Managers
    <3>1. SettledStates \cup {"CHANNEL_CLOSE_RECEIVED"} \in SUBSET ClientState
      BY StatesAre DEF SettledStates
    <3> QED BY <1>4, <2>1, <3>1, EnterKeepsType, RegisterKeepsType
  <2> DEFINE r == [publisher[p] EXCEPT !.pc = "waiting", !.tag = tag]
  <2>3. /\ r \in Records(tag) /\ r.pc = "waiting" /\ r.tag = tag
        /\ r.left = publisher[p].left
    <3>1. tag \in 0..tag /\ publisher[p] \in Records(tag)
      BY <1>1, <1>3
    <3> HIDE DEF tag
    <3> QED BY <3>1 DEF Records, Pcs
  <2>4. publisher' = [publisher EXCEPT ![p] = r]
    BY <2>1, RecordsAre DEF IInv
  <2>5. publisher \in [Publisher -> Records(deliveryTag)]
    BY RecordsAre DEF IInv
  <2> HIDE DEF r
  <2>6. /\ publisher'[p] = r
        /\ \A q \in Publisher : q # p => publisher'[q] = publisher[q]
        /\ publisher' \in [Publisher -> Records(tag)]
    BY <1>3, <2>3, <2>4, <2>5
  <2> QED BY <1>1, <1>2, <2>2, <2>3, <2>6
<1> QED BY <1>5, <1>6

\* The message that is written, when the socket holds.
LEMMA PublishWrites ==
    ASSUME IInv, NEW p \in Publisher, Publish(p)
    PROVE  /\ outbox' \in Seq(OutFrame)
           /\ transport = "lost" => outbox' = outbox
           /\ transport = "open" =>
                 /\ Len(outbox') = Len(outbox) + 1 /\ Len(outbox) \in Nat
                 /\ DOMAIN outbox = 1..Len(outbox) /\ DOMAIN outbox' = 1..Len(outbox')
                 /\ \A i \in DOMAIN outbox : outbox'[i] = outbox[i]
                 /\ outbox'[Len(outbox')].type = "Publish"
                 /\ outbox'[Len(outbox')].by = Message(p)
<1>1. PICK body \in Bodies : Write(<<[type |-> "Publish", by |-> Message(p),
                                      body |-> body]>>)
  BY DEF Publish
<1> DEFINE frame == [type |-> "Publish", by |-> Message(p), body |-> body]
<1>2. frame.type = "Publish" /\ frame.by = Message(p)
  OBVIOUS
<1>3. frame \in OutFrame
  <2>1. Message(p) \in Messages
    <3>1. publisher[p].left \in Nat
      BY RecordsAre, PublisherConfirmsAssumption DEF IInv, Records
    <3> QED BY <3>1 DEF Message, Messages
  <2> QED BY <2>1 DEF OutFrame
<1>4. outbox \in Seq(OutFrame)
  BY DEF IInv, WireOK
<1>5. outbox' = IF transport = "open" THEN outbox \o <<frame>> ELSE outbox
  BY <1>1 DEF Write
<1> HIDE DEF frame
<1> QED BY <1>2, <1>3, <1>4, <1>5

LEMMA PublishStep ==
    ASSUME IInv, NEW p \in Publisher, Publish(p)
    PROVE  IInv'
<1> DEFINE tag == deliveryTag + 1
<1>1. /\ deliveryTag' = tag /\ deliveryTag \in Nat
      /\ \A q \in Publisher : q # p => publisher'[q] = publisher[q]
      /\ \/ publisher'[p].pc = "idle" /\ publisher'[p].result = STE
         \/ /\ publisher'[p].pc = "waiting" /\ publisher'[p].tag = tag
            /\ publisher'[p].left = publisher[p].left /\ publisher[p].left > 0
  BY PublishIs
<1>2. /\ tags' = With(tags, tag, FALSE)
      /\ UNCHANGED <<results, session, inbox, broker>>
  BY DEF Publish
<1>3. DictsOK /\ DictsOK' /\ DOMAIN tags' = DOMAIN tags \cup {tag}
  <2>1. DictsOK
    BY InvariantDicts
  <2>2. /\ DOMAIN tags' = DOMAIN tags \cup {tag} /\ tags' \in [DOMAIN tags' -> BOOLEAN]
        /\ \A t \in DOMAIN tags' : tags'[t] = IF t = tag THEN FALSE ELSE tags[t]
    BY <1>2, <2>1 DEF With, DictsOK
  <2>3. DOMAIN tags' \subseteq 1..tag /\ DOMAIN results \subseteq 1..tag
    BY <1>1, <2>1, <2>2 DEF DictsOK
  <2>4. \A t \in DOMAIN tags' : tags'[t] => t \in DOMAIN results
    BY <2>1, <2>2 DEF DictsOK
  <2>5. results' = results /\ results \in [DOMAIN results -> {"ack", "nack"}]
    BY <1>2, <2>1 DEF DictsOK
  <2> QED BY <1>1, <2>1, <2>2, <2>3, <2>4, <2>5 DEF DictsOK
<1>4. TypeOK'
  <2>1. /\ lastError \in {"NotFound", None} /\ transport \in {"open", "lost"}
        /\ channelOpen \in BOOLEAN /\ failed \in BOOLEAN
    BY DEF IInv, TypeOK
  <2> QED BY <1>2, <1>3, <2>1, PublishIs, TypeStep DEF session
<1>5. WireOK'
  <2>1. outbox' \in Seq(OutFrame) /\ tag \in Nat
    BY <1>1, PublishWrites
  <2>2. UNCHANGED <<inbox, broker, returned>>
    BY <1>2 DEF session
  <2>3. WireOK
    BY DEF IInv
  <2> QED BY <1>1, <1>3, <2>1, <2>2, <2>3 DEF WireOK, DictsOK
<1>6. \A q \in Publisher : Active(q) => publisher[q].tag \in 1..deliveryTag
  BY DEF IInv, TagsAreOwn
<1>7. TagsAreOwn'
  BY <1>1, <1>3, <1>6 DEF IInv, TagsAreOwn, Active, Awaits
<1>8. ASSUME NEW q \in Publisher, Awaits(q)', q # p
      PROVE  /\ Awaits(q) /\ publisher'[q] = publisher[q] /\ Message(q)' = Message(q)
             /\ publisher[q].tag \in 1..deliveryTag
  BY <1>1, <1>6, <1>8, AwaitsIsActive DEF Awaits, Message
<1>9. ClosedIsSettled'
  BY <1>2, PublishWrites DEF IInv, ClosedIsSettled, Confirming, Elements, session
<1>10. BrokerCounts'
  <2> SUFFICES ASSUME Confirming', transport' = "open"
               PROVE  BrokerCounts'
    BY DEF BrokerCounts
  <2>1. Confirming /\ transport = "open" /\ broker' = broker
    BY <1>2 DEF Confirming, session
  <2>2. /\ \A i \in DOMAIN outbox : outbox[i].type = "Publish"
        /\ deliveryTag = broker.tag + Len(outbox)
        /\ \A u \in broker.unsettled : u.tag <= broker.tag
        /\ broker.tag \in Nat
    BY <2>1 DEF IInv, BrokerCounts, WireOK
  <2>3. /\ Len(outbox') = Len(outbox) + 1 /\ Len(outbox) \in Nat
        /\ DOMAIN outbox = 1..Len(outbox) /\ DOMAIN outbox' = 1..Len(outbox')
        /\ \A i \in DOMAIN outbox : outbox'[i] = outbox[i]
        /\ outbox'[Len(outbox')].type = "Publish"
        /\ outbox'[Len(outbox')].by = Message(p)
    BY <2>1, PublishWrites
  <2>4. \A i \in DOMAIN outbox' : outbox'[i].type = "Publish"
    BY <2>2, <2>3
  <2>5. ASSUME NEW q \in Publisher, Awaits(q)', publisher'[q].tag > broker.tag
        PROVE  outbox'[publisher'[q].tag - broker.tag].by = Message(q)'
    <3>1. CASE q = p
      <4>1. publisher'[q].tag = tag /\ Message(q)' = Message(p)
        BY <1>1, <2>5, <3>1 DEF Awaits, Message
      <4>2. tag - broker.tag = Len(outbox')
        BY <1>1, <2>2, <2>3
      <4> QED BY <2>3, <4>1, <4>2
    <3>2. CASE q # p
      <4>1. /\ Awaits(q) /\ publisher'[q] = publisher[q] /\ Message(q)' = Message(q)
            /\ publisher[q].tag \in 1..deliveryTag
        BY <1>8, <2>5, <3>2
      <4>2. outbox[publisher[q].tag - broker.tag].by = Message(q)
        BY <2>1, <2>5, <4>1 DEF IInv, BrokerCounts
      <4>3. publisher[q].tag - broker.tag \in DOMAIN outbox
        BY <1>1, <2>2, <2>3, <2>5, <4>1
      <4> QED BY <2>3, <4>1, <4>2, <4>3
    <3> QED BY <3>1, <3>2
  <2>6. ASSUME NEW q \in Publisher, Awaits(q)', publisher'[q].tag <= broker.tag
        PROVE  /\ \A u \in broker.unsettled :
                     u.tag = publisher'[q].tag => u.by = Message(q)'
               /\ \/ \E u \in broker.unsettled : u.tag = publisher'[q].tag
                  \/ \E verdict \in Verdicts : Said(q, verdict)'
    <3>1. q # p
      BY <1>1, <2>2, <2>3, <2>6 DEF Awaits
    <3>2. /\ Awaits(q) /\ publisher'[q] = publisher[q] /\ Message(q)' = Message(q)
      BY <1>8, <2>6, <3>1
    <3>3. \A verdict : Said(q, verdict) => Said(q, verdict)'
      BY <2>1, <3>2 DEF Said
    <3> QED BY <2>1, <2>6, <3>2, <3>3 DEF IInv, BrokerCounts
  <2>7. deliveryTag' = broker.tag + Len(outbox')
    BY <1>1, <2>2, <2>3
  <2> QED BY <2>1, <2>2, <2>4, <2>5, <2>6, <2>7 DEF BrokerCounts
<1>11. ASSUME Unambiguous
       PROVE  ResultsAreTrue' /\ FramesAreTrue' /\ ConfirmsAreTrue'
  <2>1. ResultsAreTrue /\ FramesAreTrue /\ ConfirmsAreTrue
    BY <1>11 DEF IInv
  <2>2. ResultsAreTrue'
    <3> SUFFICES ASSUME NEW q \in Publisher, Awaits(q)',
                        publisher'[q].tag \in DOMAIN results
                 PROVE  <<Message(q)', results[publisher'[q].tag]>> \in broker.verdict
      BY <1>2 DEF ResultsAreTrue, Said
    <3>1. q # p
      BY <1>1, <1>3 DEF Awaits, DictsOK
    <3> QED BY <1>8, <2>1, <3>1 DEF ResultsAreTrue, Said
  <2>3. FramesAreTrue'
    <3> SUFFICES ASSUME NEW frame \in Elements(inbox), frame.type \in {"ack", "nack"}
                 PROVE  /\ frame.type \in Verdicts /\ frame.tag <= deliveryTag'
                        /\ \A q \in Publisher :
                              Awaits(q)' /\ publisher'[q].tag <= frame.tag =>
                                  Said(q, frame.type)'
      BY <1>2 DEF FramesAreTrue, Elements
    <3>1. frame.type \in Verdicts /\ frame.tag <= deliveryTag
      BY <2>1 DEF FramesAreTrue
    <3>2. frame.tag \in Nat
      <4>1. frame \in InFrame
        BY DEF IInv, WireOK, Elements
      <4> QED BY <4>1 DEF InFrame
    <3>3. ASSUME NEW q \in Publisher, Awaits(q)', publisher'[q].tag <= frame.tag
          PROVE  Said(q, frame.type)'
      <4>1. q # p
        BY <1>1, <3>1, <3>2, <3>3 DEF Awaits
      <4>2. /\ Awaits(q) /\ publisher'[q] = publisher[q] /\ Message(q)' = Message(q)
        BY <1>8, <3>3, <4>1
      <4> QED BY <1>2, <2>1, <3>3, <4>2 DEF FramesAreTrue, Said
    <3> QED BY <1>1, <3>1, <3>2, <3>3
  <2>4. ConfirmsAreTrue'
    <3>1. STE \notin {"ack", "nack"}
      BY DEF STE
    <3> QED BY <1>1, <1>2, <2>1, <3>1, ConfirmsKeep
  <2> QED BY <2>2, <2>3, <2>4
<1> QED BY <1>4, <1>5, <1>7, <1>9, <1>10, <1>11 DEF IInv, Unambiguous

---------------------------------------------------------------------------
(* The broker *)

BrokerType == [phase : Phases, confirm : BOOLEAN, tag : Nat,
               unsettled : SUBSET [tag : Nat, by : Messages],
               verdict : SUBSET (Messages \X Judgements)]

LEMMA BrokerIs ==
    ASSUME IInv
    PROVE  /\ broker \in BrokerType /\ broker.tag \in Nat
           /\ broker.unsettled \subseteq [tag : Nat, by : Messages]
           /\ broker.verdict \subseteq Messages \X Judgements
BY DEF IInv, WireOK, BrokerType

\* The client's side stands still.
LEMMA BrokerKeeps ==
    ASSUME IInv, UNCHANGED <<manager, publisher, confirms, session>>,
           inbox' \in Seq(InFrame), outbox' \in Seq(OutFrame), broker' \in BrokerType,
           broker.verdict \subseteq broker'.verdict,
           BrokerCounts', ClosedIsSettled',
           Unambiguous => FramesAreTrue'
    PROVE  IInv'
<1>1. TypeOK'
  BY DEF IInv, TypeOK, confirms, session
<1>2. WireOK'
  BY DEF IInv, WireOK, BrokerType, confirms, session
<1>3. TagsAreOwn'
  BY DEF IInv, TagsAreOwn, Active, Awaits, confirms
<1>4. Unambiguous => ResultsAreTrue'
  <2> SUFFICES ASSUME Unambiguous, NEW p \in Publisher, Awaits(p),
                      publisher[p].tag \in DOMAIN results
               PROVE  <<Message(p), results[publisher[p].tag]>> \in broker'.verdict
    BY DEF ResultsAreTrue, Said, Awaits, Message, confirms
  <2> QED BY DEF IInv, ResultsAreTrue, Said
<1>5. Unambiguous => ConfirmsAreTrue'
  BY ConfirmsKeep DEF IInv
<1> QED BY <1>1, <1>2, <1>3, <1>4, <1>5 DEF IInv, Unambiguous

\* What is sent besides confirmations leaves what the publishers will hear.
LEMMA SaysNothing ==
    ASSUME FramesAreTrue, UNCHANGED <<publisher, confirms>>,
           broker.verdict \subseteq broker'.verdict,
           \A frame \in Elements(inbox') :
              frame.type \in {"ack", "nack"} => frame \in Elements(inbox)
    PROVE  FramesAreTrue'
<1> SUFFICES ASSUME NEW frame \in Elements(inbox'), frame.type \in {"ack", "nack"}
             PROVE  /\ frame.type \in Verdicts /\ frame.tag <= deliveryTag
                    /\ \A p \in Publisher : Awaits(p) /\ publisher[p].tag <= frame.tag =>
                           <<Message(p), frame.type>> \in broker'.verdict
  BY DEF FramesAreTrue, Elements, Awaits, Said, Message, confirms
<1> QED BY DEF FramesAreTrue, Said

\* The next frame to the broker, on a socket that holds.
LEMMA BrokerTakes ==
    ASSUME IInv, outbox # <<>>
    PROVE  /\ transport = "open"
           /\ Head(outbox) \in OutFrame /\ Head(outbox) = outbox[1]
           /\ Tail(outbox) \in Seq(OutFrame)
           /\ Len(outbox) \in Nat /\ Len(outbox) > 0 /\ DOMAIN outbox = 1..Len(outbox)
           /\ Len(Tail(outbox)) = Len(outbox) - 1
           /\ DOMAIN Tail(outbox) = 1..(Len(outbox) - 1)
           /\ \A i \in 1..(Len(outbox) - 1) : Tail(outbox)[i] = outbox[i + 1]
<1>1. outbox \in Seq(OutFrame) /\ transport = "open"
  BY DEF IInv, WireOK, TypeOK, ClosedIsSettled
<1> QED BY <1>1

LEMMA SendsIs ==
    ASSUME IInv, transport = "open", NEW frames \in Seq(InFrame), Sends(frames)
    PROVE  /\ inbox' \in Seq(InFrame)
           /\ Elements(inbox') \subseteq Elements(inbox) \cup Elements(frames)
<1>1. inbox \in Seq(InFrame) /\ inbox' = inbox \o frames
  BY DEF IInv, WireOK, Sends
<1> HIDE DEF InFrame
<1> QED BY <1>1, ConcatElements

LEMMA SendsOne ==
    ASSUME IInv, transport = "open", NEW frame \in InFrame, Sends(<<frame>>)
    PROVE  /\ inbox' \in Seq(InFrame)
           /\ Elements(inbox') \subseteq Elements(inbox) \cup {frame}
<1>1. inbox \in Seq(InFrame) /\ inbox' = inbox \o <<frame>>
  BY DEF IInv, WireOK, Sends
<1> HIDE DEF InFrame
<1> QED BY <1>1, OneMore

LEMMA ContentIs ==
    ASSUME NEW frame, frame.by \in Messages
    PROVE  /\ Content(frame) \in Seq(InFrame)
           /\ \A f \in Elements(Content(frame)) : f.type \in {"Return", "Header", "Body"}
<1> DEFINE r == [type |-> "Return"]
           h == [type |-> "Header"]
           b == [type |-> "Body", by |-> frame.by]
<1>1. r \in InFrame /\ h \in InFrame /\ b \in InFrame
  BY DEF InFrame
<1>2. r.type = "Return" /\ h.type = "Header" /\ b.type = "Body"
  OBVIOUS
<1> DEFINE body == IF frame.body = "empty" THEN <<>> ELSE <<b>>
<1>3. Content(frame) = <<r, h>> \o body
  BY DEF Content
<1>4. body = <<>> \/ body = <<b>>
  OBVIOUS
<1> HIDE DEF r, h, b, body
<1>5. <<r, h>> \in Seq(InFrame) /\ Elements(<<r, h>>) = {r, h}
  BY <1>1 DEF Elements
<1>6. body \in Seq(InFrame) /\ Elements(body) \subseteq {b}
  <2>1. CASE body = <<>>
    BY <2>1 DEF Elements
  <2>2. CASE body = <<b>>
    BY <1>1, <2>2 DEF Elements
  <2> QED BY <1>4, <2>1, <2>2
<1>7. /\ <<r, h>> \o body \in Seq(InFrame)
      /\ Elements(<<r, h>> \o body) \subseteq Elements(<<r, h>>) \cup Elements(body)
  BY <1>5, <1>6, ConcatElements
<1> QED BY <1>2, <1>3, <1>5, <1>6, <1>7

LEMMA RoutesCounts ==
    ASSUME IInv, outbox # <<>>, outbox' = Tail(outbox), BrokerRoutes(Head(outbox)),
           UNCHANGED <<publisher, confirms, session>>, Confirming
    PROVE  BrokerCounts'
<1> DEFINE new == [tag |-> broker.tag + 1, by |-> Head(outbox).by]
           m == Len(outbox)
<1>1. /\ transport = "open" /\ Head(outbox) = outbox[1]
      /\ m \in Nat /\ m > 0 /\ DOMAIN outbox = 1..m
      /\ Len(Tail(outbox)) = m - 1 /\ DOMAIN Tail(outbox) = 1..(m - 1)
      /\ \A i \in 1..(m - 1) : Tail(outbox)[i] = outbox[i + 1]
  BY BrokerTakes
<1>2. /\ \A i \in DOMAIN outbox : outbox[i].type = "Publish"
      /\ deliveryTag = broker.tag + m
      /\ \A p \in Publisher : Awaits(p) /\ publisher[p].tag > broker.tag =>
             outbox[publisher[p].tag - broker.tag].by = Message(p)
      /\ \A u \in broker.unsettled : u.tag <= broker.tag
      /\ \A p \in Publisher : Awaits(p) /\ publisher[p].tag <= broker.tag =>
             /\ \A u \in broker.unsettled : u.tag = publisher[p].tag => u.by = Message(p)
             /\ \/ \E u \in broker.unsettled : u.tag = publisher[p].tag
                \/ \E verdict \in Verdicts : Said(p, verdict)
  BY <1>1 DEF IInv, BrokerCounts
<1>3. /\ broker'.tag = broker.tag + 1 /\ broker'.unsettled = broker.unsettled \cup {new}
      /\ broker.verdict \subseteq broker'.verdict /\ broker.tag \in Nat
      /\ broker.unsettled \subseteq [tag : Nat, by : Messages]
  <2>1. broker \in BrokerType /\ broker.confirm
    BY BrokerIs DEF Confirming
  <2> QED BY <2>1, BrokerIs DEF BrokerRoutes, BrokerType
<1>4. new.tag = broker.tag + 1 /\ new.by = Head(outbox).by
  OBVIOUS
<1> HIDE DEF new, m
<1>5. \A i \in DOMAIN outbox' : outbox'[i].type = "Publish"
  BY <1>1, <1>2
<1>6. deliveryTag' = broker'.tag + Len(outbox')
  BY <1>1, <1>2, <1>3 DEF confirms
<1>7. \A p \in Publisher : Awaits(p) => publisher[p].tag \in 1..deliveryTag
  BY AwaitsIsActive DEF IInv, TagsAreOwn
<1>8. ASSUME NEW p \in Publisher, Awaits(p), publisher[p].tag > broker'.tag
      PROVE  outbox'[publisher[p].tag - broker'.tag].by = Message(p)
  <2> DEFINE i == publisher[p].tag - broker'.tag
  <2>1. i \in 1..(m - 1) /\ i + 1 = publisher[p].tag - broker.tag
    BY <1>1, <1>2, <1>3, <1>7, <1>8
  <2>2. outbox[publisher[p].tag - broker.tag].by = Message(p)
    BY <1>2, <1>3, <1>7, <1>8
  <2> QED BY <1>1, <2>1, <2>2
<1>9. \A u \in broker'.unsettled : u.tag <= broker'.tag
  BY <1>2, <1>3, <1>4
<1>10. ASSUME NEW p \in Publisher, Awaits(p), publisher[p].tag <= broker'.tag
       PROVE  /\ \A u \in broker'.unsettled : u.tag = publisher[p].tag => u.by = Message(p)
              /\ \/ \E u \in broker'.unsettled : u.tag = publisher[p].tag
                 \/ \E verdict \in Verdicts : <<Message(p), verdict>> \in broker'.verdict
  <2>1. CASE publisher[p].tag = broker.tag + 1
    <3>1. Head(outbox).by = Message(p)
      <4>1. publisher[p].tag > broker.tag /\ publisher[p].tag - broker.tag = 1
        BY <1>3, <2>1
      <4> QED BY <1>1, <1>2, <1>10, <4>1
    <3>2. \A u \in broker.unsettled : u.tag # publisher[p].tag
      BY <1>2, <1>3, <2>1
    <3> QED BY <1>3, <1>4, <2>1, <3>1, <3>2
  <2>2. CASE publisher[p].tag <= broker.tag
    <3>1. new.tag # publisher[p].tag
      BY <1>3, <1>4, <2>2
    <3> QED BY <1>2, <1>3, <1>10, <2>2, <3>1 DEF Said
  <2> QED BY <1>3, <1>7, <1>10, <2>1, <2>2
<1> QED BY <1>5, <1>6, <1>8, <1>9, <1>10 DEF BrokerCounts, Awaits, Said, Message

LEMMA BrokerRoutesStep ==
    ASSUME IInv, outbox # <<>>, outbox' = Tail(outbox), Head(outbox).type = "Publish",
           broker.phase = "open", BrokerRoutes(Head(outbox)),
           UNCHANGED <<manager, publisher, confirms, session>>
    PROVE  IInv'
<1>1. transport = "open" /\ outbox' \in Seq(OutFrame) /\ Head(outbox) \in OutFrame
  BY BrokerTakes
<1>2. Head(outbox).by \in Messages
  BY <1>1 DEF OutFrame
<1>3. broker \in BrokerType /\ broker.tag \in Nat
  BY BrokerIs
<1>4. PICK outcome \in Outcomes \cap {"route", "return"} :
         /\ Sends(IF outcome = "return" THEN Content(Head(outbox)) ELSE <<>>)
         /\ broker' = [broker EXCEPT
               !.verdict = IF outcome = "return"
                           THEN @ \cup {<<Head(outbox).by, "return">>} ELSE @,
               !.tag = @ + 1,
               !.unsettled = IF broker.confirm
                             THEN @ \cup {[tag |-> broker.tag + 1, by |-> Head(outbox).by]}
                             ELSE @]
  BY DEF BrokerRoutes
<1> DEFINE frames == IF outcome = "return" THEN Content(Head(outbox)) ELSE <<>>
<1>5. /\ frames \in Seq(InFrame)
      /\ \A f \in Elements(frames) : f.type \in {"Return", "Header", "Body"}
  BY <1>2, ContentIs DEF Elements
<1>6. /\ inbox' \in Seq(InFrame)
      /\ Elements(inbox') \subseteq Elements(inbox) \cup Elements(frames)
  <2> HIDE DEF frames
  <2> QED BY <1>1, <1>4, <1>5, SendsIs DEF frames
<1> HIDE DEF frames
<1>7. /\ broker' \in BrokerType /\ broker.verdict \subseteq broker'.verdict
      /\ broker'.phase = broker.phase /\ broker'.confirm = broker.confirm
      /\ ~ broker.confirm => broker'.unsettled = broker.unsettled
  <2>1. [tag |-> broker.tag + 1, by |-> Head(outbox).by] \in [tag : Nat, by : Messages]
    BY <1>2, <1>3
  <2>2. <<Head(outbox).by, "return">> \in Messages \X Judgements
    BY <1>2 DEF Judgements
  <2> QED BY <1>3, <1>4, <2>1, <2>2 DEF BrokerType
<1>8. BrokerCounts'
  <2>1. CASE Confirming
    BY <2>1, RoutesCounts
  <2>2. CASE ~ Confirming
    BY <1>7, <2>2 DEF BrokerCounts, Confirming
  <2> QED BY <2>1, <2>2
<1>9. ClosedIsSettled'
  <2>1. \A f \in Elements(inbox') : f.type = "Channel.Close" => f \in Elements(inbox)
    BY <1>5, <1>6
  <2> QED BY <1>1, <1>7, <2>1 DEF IInv, ClosedIsSettled, Confirming, Elements, session
<1>10. Unambiguous => FramesAreTrue'
  BY <1>5, <1>6, <1>7, SaysNothing DEF IInv
<1> QED BY <1>1, <1>6, <1>7, <1>8, <1>9, <1>10, BrokerKeeps

\* The steps after which the broker does not confirm, or did not before.
LEMMA BrokerClosesStep ==
    ASSUME IInv, outbox # <<>>, outbox' = Tail(outbox),
           UNCHANGED <<manager, publisher, confirms, session>>,
           inbox' = inbox \/ \E frame \in InFrame : /\ frame.type \notin {"ack", "nack"}
                                                    /\ Sends(<<frame>>),
           broker' \in BrokerType, broker.verdict \subseteq broker'.verdict,
           ~ Confirming', broker'.unsettled = {}
    PROVE  IInv'
<1>1. transport = "open" /\ outbox' \in Seq(OutFrame)
  BY BrokerTakes
<1>2. /\ inbox' \in Seq(InFrame)
      /\ \A f \in Elements(inbox') : f.type \in {"ack", "nack"} => f \in Elements(inbox)
  <2>1. CASE inbox' = inbox
    BY <2>1 DEF IInv, WireOK
  <2>2. ASSUME NEW frame \in InFrame, frame.type \notin {"ack", "nack"}, Sends(<<frame>>)
        PROVE  /\ inbox' \in Seq(InFrame)
               /\ \A f \in Elements(inbox') :
                     f.type \in {"ack", "nack"} => f \in Elements(inbox)
    BY <1>1, <2>2, SendsOne
  <2> QED BY <2>1, <2>2
<1>3. BrokerCounts'
  BY DEF BrokerCounts
<1>4. ClosedIsSettled'
  BY <1>1 DEF ClosedIsSettled, session
<1>5. Unambiguous => FramesAreTrue'
  BY <1>2, SaysNothing DEF IInv
<1> QED BY <1>1, <1>2, <1>3, <1>4, <1>5, BrokerKeeps

LEMMA BrokerReadsStep ==
    ASSUME IInv, BrokerReads
    PROVE  IInv'
<1> DEFINE frame == Head(outbox)
<1>1. /\ outbox # <<>> /\ outbox' = Tail(outbox)
      /\ UNCHANGED <<manager, publisher, confirms, session>>
  BY DEF BrokerReads
<1>2. /\ transport = "open" /\ frame = outbox[1] /\ 1 \in DOMAIN outbox
  BY <1>1, BrokerTakes
<1>3. Confirming => frame.type = "Publish" /\ broker.phase = "open"
  BY <1>2 DEF IInv, BrokerCounts, Confirming
<1>4. ~ Confirming => broker.unsettled = {}
  BY DEF IInv, ClosedIsSettled
<1>5. broker \in BrokerType
  BY BrokerIs
<1>6. CASE frame.type = "Publish" /\ broker.phase = "open"
  <2>1. CASE BrokerRoutes(frame)
    BY <1>1, <1>6, <2>1, BrokerRoutesStep
  <2>2. CASE BrokerMissesExchange(frame)
    <3>1. <<frame.by, "NotFound">> \in Messages \X Judgements
      <4>1. frame \in OutFrame
        BY <1>1, BrokerTakes
      <4> QED BY <1>6, <4>1 DEF OutFrame, Judgements
    <3>2. /\ broker' \in BrokerType /\ broker.verdict \subseteq broker'.verdict
          /\ ~ Confirming' /\ broker'.unsettled = {}
      BY <1>5, <2>2, <3>1 DEF BrokerMissesExchange, BrokerType, Phases, Confirming
    <3>3. [type |-> "Channel.Close"] \in InFrame /\ Sends(<<[type |-> "Channel.Close"]>>)
      BY <2>2 DEF BrokerMissesExchange, InFrame
    <3> QED BY <1>1, <3>2, <3>3, BrokerClosesStep
  <2> QED BY <1>6, <2>1, <2>2 DEF BrokerReads
<1>7. CASE ~ (frame.type = "Publish" /\ broker.phase = "open")
  <2>1. broker.unsettled = {} /\ ~ Confirming
    BY <1>3, <1>4, <1>7
  <2>2. CASE frame.type = "Channel.CloseOk"
    <3>1. broker' = [broker EXCEPT !.phase = "closed"] /\ inbox' = inbox
      BY <2>2 DEF BrokerReads
    <3>2. /\ broker' \in BrokerType /\ broker.verdict \subseteq broker'.verdict
          /\ ~ Confirming' /\ broker'.unsettled = {}
      BY <1>5, <2>1, <3>1 DEF BrokerType, Phases, Confirming
    <3> QED BY <1>1, <3>1, <3>2, BrokerClosesStep
  <2>3. CASE frame.type = "Channel.Open" /\ broker.phase = "closed"
    <3>1. /\ broker' = [broker EXCEPT !.phase = "open", !.confirm = FALSE, !.tag = 0]
          /\ Sends(<<[type |-> "Channel.OpenOk"]>>)
      BY <2>3 DEF BrokerReads
    <3>2. /\ broker' \in BrokerType /\ broker.verdict \subseteq broker'.verdict
          /\ ~ Confirming' /\ broker'.unsettled = {}
      BY <1>5, <2>1, <3>1 DEF BrokerType, Phases, Confirming
    <3>3. [type |-> "Channel.OpenOk"] \in InFrame
      BY DEF InFrame
    <3> QED BY <1>1, <3>1, <3>2, <3>3, BrokerClosesStep
  <2>4. CASE frame.type = "Publish" /\ broker.phase = "closed"
    <3>1. /\ broker' = [broker EXCEPT !.phase = "gone"]
          /\ Sends(<<[type |-> "Disconnected"]>>)
      BY <2>4 DEF BrokerReads
    <3>2. /\ broker' \in BrokerType /\ broker.verdict \subseteq broker'.verdict
          /\ ~ Confirming' /\ broker'.unsettled = {}
      BY <1>5, <2>1, <3>1 DEF BrokerType, Phases, Confirming
    <3>3. [type |-> "Disconnected"] \in InFrame
      BY DEF InFrame
    <3> QED BY <1>1, <3>1, <3>2, <3>3, BrokerClosesStep
  <2>5. CASE /\ frame.type # "Channel.CloseOk"
             /\ ~ (frame.type = "Channel.Open" /\ broker.phase = "closed")
             /\ ~ (frame.type = "Publish" /\ broker.phase = "closed")
    <3>1. broker' = broker /\ inbox' = inbox
      BY <1>7, <2>5 DEF BrokerReads
    <3> QED BY <1>1, <1>5, <2>1, <3>1, BrokerClosesStep DEF Confirming
  <2> QED BY <2>2, <2>3, <2>4, <2>5
<1> QED BY <1>6, <1>7

\* What a frame of the broker says to a publisher that its tag covers.
LEMMA SettlesOwn ==
    ASSUME IInv, Unambiguous, Confirming, transport = "open",
           NEW last \in broker.unsettled, NEW verdict \in Verdicts,
           NEW p \in Publisher, Awaits(p), publisher[p].tag <= last.tag
    PROVE  \/ \E u \in broker.unsettled : u.tag <= last.tag /\ u.by = Message(p)
           \/ Said(p, verdict)
<1>1. /\ \A u \in broker.unsettled : u.tag <= broker.tag
      /\ deliveryTag = broker.tag + Len(outbox)
      /\ publisher[p].tag <= broker.tag =>
            /\ \A u \in broker.unsettled : u.tag = publisher[p].tag => u.by = Message(p)
            /\ \/ \E u \in broker.unsettled : u.tag = publisher[p].tag
               \/ \E v \in Verdicts : Said(p, v)
  BY DEF IInv, BrokerCounts
<1>2. broker.tag \in Nat /\ last.tag \in Nat
  BY BrokerIs
<1>3. publisher[p].tag \in 1..deliveryTag /\ deliveryTag \in Nat
  BY AwaitsIsActive DEF IInv, TagsAreOwn, WireOK
<1>4. Len(outbox) \in Nat
  BY DEF IInv, WireOK
<1>5. publisher[p].tag <= broker.tag
  BY <1>1, <1>2, <1>3
<1>6. CASE \E u \in broker.unsettled : u.tag = publisher[p].tag
  BY <1>1, <1>5, <1>6
<1>7. CASE ~ \E u \in broker.unsettled : u.tag = publisher[p].tag
  <2>1. PICK v \in Verdicts : Said(p, v)
    BY <1>1, <1>5, <1>7
  <2>2. CASE \A v1, v2 \in Verdicts : v1 = v2
    BY <2>1, <2>2
  <2>3. CASE \A q1, q2 \in Publisher : q1 = q2
    <3>1. publisher[p].tag = deliveryTag
      BY <2>3, AwaitsIsActive DEF IInv, TagsAreOwn
    <3>2. last.tag = publisher[p].tag
      BY <1>1, <1>2, <1>3, <1>4, <3>1
    <3> QED BY <1>7, <3>2
  <2> QED BY <2>2, <2>3 DEF Unambiguous
<1> QED BY <1>6, <1>7

LEMMA BrokerSettlesStep ==
    ASSUME IInv, BrokerSettles
    PROVE  IInv'
<1>1. PICK last \in broker.unsettled, verdict \in Verdicts, alone \in BOOLEAN :
         LET settled == IF alone THEN {last}
                        ELSE {u \in broker.unsettled : u.tag <= last.tag}
         IN  /\ alone => OutOfOrder
             /\ Sends(<<[type |-> verdict, tag |-> last.tag]>>)
             /\ broker' = [broker EXCEPT
                    !.unsettled = @ \ settled,
                    !.verdict = @ \cup {<<u.by, verdict>> : u \in settled}]
  BY DEF BrokerSettles
<1> DEFINE settled == IF alone THEN {last}
                      ELSE {u \in broker.unsettled : u.tag <= last.tag}
           frame == [type |-> verdict, tag |-> last.tag]
<1>2. /\ alone => OutOfOrder /\ Sends(<<frame>>)
      /\ broker' = [broker EXCEPT
                !.unsettled = @ \ settled,
                !.verdict = @ \cup {<<u.by, verdict>> : u \in settled}]
  BY <1>1
<1>3. /\ broker.phase = "open" /\ transport = "open"
      /\ UNCHANGED <<manager, publisher, confirms, session, outbox>>
  BY DEF BrokerSettles
<1>4. Confirming
  BY DEF IInv, ClosedIsSettled
<1>5. /\ broker \in BrokerType /\ settled \subseteq broker.unsettled
      /\ broker.unsettled \subseteq [tag : Nat, by : Messages]
      /\ verdict \in {"ack", "nack"}
  BY BrokerIs, PublisherConfirmsAssumption
<1>6. /\ frame \in InFrame /\ frame.type = verdict /\ frame.tag = last.tag
      /\ last.tag \in Nat
  BY <1>5 DEF InFrame
<1> HIDE DEF frame, settled
<1>7. /\ broker'.phase = broker.phase /\ broker'.confirm = broker.confirm
      /\ broker'.tag = broker.tag
      /\ broker'.unsettled = broker.unsettled \ settled
      /\ broker'.verdict = broker.verdict \cup {<<u.by, verdict>> : u \in settled}
      /\ broker' \in BrokerType
  <2>1. \A u \in settled : <<u.by, verdict>> \in Messages \X Judgements
    BY <1>5 DEF Judgements
  <2>2. broker.verdict \cup {<<u.by, verdict>> : u \in settled}
            \in SUBSET (Messages \X Judgements)
    BY <2>1, BrokerIs
  <2>3. broker.unsettled \ settled \in SUBSET [tag : Nat, by : Messages]
    BY <1>5
  <2> QED BY <1>2, <1>5, <2>2, <2>3 DEF BrokerType
<1>8. /\ inbox' \in Seq(InFrame)
      /\ Elements(inbox') \subseteq Elements(inbox) \cup {frame}
  BY <1>1, <1>3, <1>6, SendsOne DEF frame
<1>9. broker.verdict \subseteq broker'.verdict
  BY <1>7
<1>10. BrokerCounts'
  <2>1. /\ \A i \in DOMAIN outbox : outbox[i].type = "Publish"
        /\ deliveryTag = broker.tag + Len(outbox)
        /\ \A p \in Publisher : Awaits(p) /\ publisher[p].tag > broker.tag =>
               outbox[publisher[p].tag - broker.tag].by = Message(p)
        /\ \A u \in broker.unsettled : u.tag <= broker.tag
        /\ \A p \in Publisher : Awaits(p) /\ publisher[p].tag <= broker.tag =>
               /\ \A u \in broker.unsettled : u.tag = publisher[p].tag => u.by = Message(p)
               /\ \/ \E u \in broker.unsettled : u.tag = publisher[p].tag
                  \/ \E v \in Verdicts : Said(p, v)
    BY <1>3, <1>4 DEF IInv, BrokerCounts
  <2>2. ASSUME NEW p \in Publisher, Awaits(p), publisher[p].tag <= broker.tag
        PROVE  \/ \E u \in broker'.unsettled : u.tag = publisher[p].tag
               \/ \E v \in Verdicts : <<Message(p), v>> \in broker'.verdict
    <3>1. CASE \E u \in broker.unsettled : u.tag = publisher[p].tag
      <4>1. PICK u \in broker.unsettled : u.tag = publisher[p].tag
        BY <3>1
      <4>2. u.by = Message(p)
        BY <2>1, <2>2, <4>1
      <4>3. u \in settled => <<Message(p), verdict>> \in broker'.verdict
        BY <1>7, <4>2
      <4> QED BY <1>7, <4>1, <4>3
    <3>2. CASE \E v \in Verdicts : Said(p, v)
      BY <1>9, <3>2 DEF Said
    <3> QED BY <2>1, <2>2, <3>1, <3>2
  <2> QED BY <1>3, <1>7, <2>1, <2>2 DEF BrokerCounts, Awaits, Said, Message, confirms
<1>11. ClosedIsSettled'
  <2>1. \A f \in Elements(inbox') : f.type = "Channel.Close" => f \in Elements(inbox)
    BY <1>5, <1>6, <1>8
  <2> QED BY <1>3, <1>4, <1>7, <2>1
          DEF IInv, ClosedIsSettled, Confirming, Elements, session
<1>12. ASSUME Unambiguous
       PROVE  FramesAreTrue'
  <2>1. FramesAreTrue /\ ~ alone
    BY <1>1, <1>12 DEF IInv, Unambiguous
  <2>2. settled = {u \in broker.unsettled : u.tag <= last.tag}
    BY <2>1 DEF settled
  <2>3. ASSUME NEW p \in Publisher, Awaits(p), publisher[p].tag <= last.tag
        PROVE  <<Message(p), verdict>> \in broker'.verdict
    BY <1>3, <1>4, <1>7, <1>9, <1>12, <2>2, <2>3, SettlesOwn DEF Said
  <2>4. last.tag <= deliveryTag
    <3>1. last.tag <= broker.tag /\ deliveryTag = broker.tag + Len(outbox)
      BY <1>3, <1>4 DEF IInv, BrokerCounts
    <3>2. Len(outbox) \in Nat /\ broker.tag \in Nat
      BY BrokerIs DEF IInv, WireOK
    <3> QED BY <1>6, <3>1, <3>2
  <2> SUFFICES ASSUME NEW f \in Elements(inbox'), f.type \in {"ack", "nack"}
               PROVE  /\ f.type \in Verdicts /\ f.tag <= deliveryTag
                      /\ \A p \in Publisher : Awaits(p) /\ publisher[p].tag <= f.tag =>
                             <<Message(p), f.type>> \in broker'.verdict
    BY <1>3 DEF FramesAreTrue, Elements, Awaits, Said, Message, confirms
  <2>5. CASE f = frame
    BY <1>6, <2>3, <2>4, <2>5
  <2>6. CASE f \in Elements(inbox)
    BY <1>9, <2>1, <2>6 DEF FramesAreTrue, Said
  <2> QED BY <1>8, <2>5, <2>6
<1>13. outbox' \in Seq(OutFrame)
  BY <1>3 DEF IInv, WireOK
<1> QED BY <1>3, <1>7, <1>8, <1>9, <1>10, <1>11, <1>12, <1>13, BrokerKeeps

---------------------------------------------------------------------------
(* The theorems *)

LEMMA InitInvariant ==
    ASSUME Init
    PROVE  IInv
<1>1. manager \in Managers
  <2>1. SM!NewManager \in Managers
    BY StatesAre, ManagersAre DEF SM!NewManager, Events
  <2> QED BY <2>1, StatesAre, ManagersAre DEF Init
<1>2. publisher \in [Publisher -> Records(deliveryTag)]
  BY PublisherConfirmsAssumption DEF Init, Records, Pcs, Results
<1>3. DictsOK
  BY DEF Init, DictsOK
<1>4. TypeOK
  BY <1>1, <1>2, <1>3 DEF Init, TypeOK, Managers, Records, Pcs, Results, DictsOK
<1>5. WireOK
  BY <1>3 DEF Init, WireOK, DictsOK, Phases
<1>6. \A p \in Publisher : ~ Active(p) /\ ~ Awaits(p)
  BY DEF Init, Active, Awaits
<1>7. inbox = <<>> /\ outbox = <<>> /\ Elements(inbox) = {}
  BY DEF Init, Elements
<1>8. TagsAreOwn /\ ResultsAreTrue
  BY <1>6 DEF TagsAreOwn, ResultsAreTrue
<1>9. FramesAreTrue
  BY <1>7 DEF FramesAreTrue
<1>10. BrokerCounts
  BY <1>6, <1>7 DEF Init, BrokerCounts
<1>11. ClosedIsSettled
  BY <1>7 DEF Init, ClosedIsSettled, Confirming
<1>12. ConfirmsAreTrue
  BY PublisherConfirmsAssumption DEF Init, ConfirmsAreTrue, Answered
<1> QED BY <1>4, <1>5, <1>8, <1>9, <1>10, <1>11, <1>12 DEF IInv

LEMMA StutterInvariant ==
    ASSUME IInv, UNCHANGED vars
    PROVE  IInv'
<1>1. Quiet
  BY DEF vars, confirms, Quiet, Active, Awaits, IInv, TagsAreOwn
<1>2. TypeOK'
  BY DEF IInv, TypeOK, vars, confirms, session
<1>3. WireOK'
  BY DEF IInv, WireOK, vars, confirms, session
<1>4. Unambiguous => ConfirmsAreTrue'
  BY ConfirmsKeep DEF IInv, vars
<1> QED BY <1>1, <1>2, <1>3, <1>4, QuietStep DEF vars, session

LEMMA NextInvariant ==
    ASSUME IInv, Next
    PROVE  IInv'
<1>1. ASSUME NEW p \in Publisher, Publish(p)
      PROVE  IInv'
  BY <1>1, PublishStep
<1>2. ASSUME NEW p \in Publisher, Proceeds(p)
      PROVE  IInv'
  BY <1>2, PollSettledStep, TagIsSetStep, PollRaisesStep, PollClosedStep,
     PollClosedTakenStep, RaiseClosedStep DEF Proceeds
<1>3. CASE RunReady
  BY <1>3, RunReadyStep
<1>4. CASE Receive
  <2>1. /\ "BASIC_ACK_RECEIVED" \in ClientState /\ "BASIC_NACK_RECEIVED" \in ClientState
        /\ "BASIC_RETURN_RECEIVED" \in ClientState
        /\ "CONTENT_HEADER_RECEIVED" \in ClientState
    BY StatesAre
  <2>2. CASE \/ ReceiveSettled("ack", "BASIC_ACK_RECEIVED")
             \/ ReceiveSettled("nack", "BASIC_NACK_RECEIVED")
    BY <2>1, <2>2, ReceiveSettledStep
  <2>3. CASE \/ ReceiveContent("Return", "BASIC_RETURN_RECEIVED")
             \/ ReceiveContent("Header", "CONTENT_HEADER_RECEIVED")
    BY <2>1, <2>3, ReceiveContentStep
  <2>4. CASE ReceiveBody \/ ReceiveChannelClose \/ ReceiveChannelOpenOk \/ Disconnected
    BY <2>4, ReceiveBodyStep, ReceiveChannelCloseStep, ReceiveChannelOpenOkStep,
       DisconnectedStep
  <2> QED BY <1>4, <2>2, <2>3, <2>4 DEF Receive
<1>5. CASE BrokerReads \/ BrokerSettles \/ SocketLost
  BY <1>5, BrokerReadsStep, BrokerSettlesStep, SocketLostStep
<1> QED BY <1>1, <1>2, <1>3, <1>4, <1>5 DEF Next

\* The conjunction above is an invariant of publish, its broker and its socket.
THEOREM ConfirmsInvariance == Spec => []IInv
<1>1. Init => IInv
  BY InitInvariant
<1>2. IInv /\ [Next]_vars => IInv'
  BY NextInvariant, StutterInvariant
<1> QED BY <1>1, <1>2, PTL DEF Spec

\* Every variable of the client has its type, and an event of _delivery_tags is set
\* only when the result that publish looks up next is there.
THEOREM ConfirmsTypeCorrect == Spec => []TypeOK
<1>1. IInv => TypeOK
  BY DEF IInv
<1> QED BY <1>1, ConfirmsInvariance, PTL

\* publish returns True only for a message the broker acked, and False only for one
\* it nacked, when a later confirmation cannot settle the message anew.
THEOREM PublishTellsTheTruth == Unambiguous => (Spec => []ConfirmsAreTrue)
<1> SUFFICES ASSUME Unambiguous
             PROVE  Spec => []ConfirmsAreTrue
  OBVIOUS
<1>1. IInv => ConfirmsAreTrue
  BY DEF IInv
<1> QED BY <1>1, ConfirmsInvariance, PTL

---------------------------------------------------------------------------
(* Any number of publishers: one refusal is raised to one of them *)

CloseFrame == [type |-> "Channel.Close"]
CloseOkFrame == [type |-> "Channel.CloseOk"]
OpenFrame == [type |-> "Channel.Open"]

\* While the broker closes the channel either its Channel.Close or the answer is under
\* way, if any; at other times neither is.
ClosingOK ==
    /\ Once(inbox, CloseFrame) /\ Once(outbox, CloseOkFrame)
    /\ Includes(inbox, CloseFrame) =>
           broker.phase = "closing" /\ ~ Includes(outbox, CloseOkFrame)
    /\ Includes(outbox, CloseOkFrame) => broker.phase = "closing"

IsRefused(message) == <<message, "NotFound">> \in broker.verdict

\* A message that the publisher p has yet to publish.
Ahead(p, n) == n < publisher[p].left \/ (n = publisher[p].left /\ ~ Active(p))

\* No message is published twice, and none is refused before it has arrived.
MessagesAreNew ==
    /\ \A i \in DOMAIN outbox : outbox[i].type = "Publish" =>
           /\ ~ IsRefused(outbox[i].by)
           /\ \A j \in DOMAIN outbox :
                 outbox[j].type = "Publish" /\ outbox[j].by = outbox[i].by => i = j
           /\ \A p \in Publisher, n \in Nat : Ahead(p, n) => outbox[i].by # <<p, n>>
    /\ \A p \in Publisher, n \in Nat : Ahead(p, n) => ~ IsRefused(<<p, n>>)

Refusals == {v \in broker.verdict : v[2] = "NotFound"}
Raised == {p \in Publisher : Answered(p, {"NotFound"})}
Kept == IF lastError = None THEN 0 ELSE 1
Coming == IF Includes(inbox, CloseFrame) THEN 1 ELSE 0

\* The refusals account for the errors raised, the one in _last_error, and the one on
\* its way.
Counted ==
    /\ IsFiniteSet(Refusals) /\ IsFiniteSet(Raised)
    /\ Cardinality(Raised) + Kept + Coming <= Cardinality(Refusals)

EInv == ClosingOK /\ MessagesAreNew /\ Counted

LEMMA FramesApart ==
    /\ CloseFrame \in InFrame /\ CloseFrame.type = "Channel.Close"
    /\ CloseOkFrame \in OutFrame /\ CloseOkFrame.type = "Channel.CloseOk"
    /\ OpenFrame \in OutFrame /\ OpenFrame.type = "Channel.Open"
    /\ OpenFrame # CloseOkFrame
    /\ \A frame \in InFrame : frame.type = "Channel.Close" <=> frame = CloseFrame
    /\ \A frame \in OutFrame : frame.type = "Channel.CloseOk" <=> frame = CloseOkFrame
BY DEF CloseFrame, CloseOkFrame, OpenFrame, InFrame, OutFrame

LEMMA OneMoreIncludes ==
    ASSUME NEW S, NEW frames \in Seq(S), NEW frame \in S
    PROVE  /\ \A f : Includes(frames \o <<frame>>, f) <=> Includes(frames, f) \/ frame = f
           /\ \A f : Once(frames, f) /\ (frame # f \/ ~ Includes(frames, f))
                         => Once(frames \o <<frame>>, f)
<1>1. PICK all : all = frames \o <<frame>>
  OBVIOUS
<1>2. all = Append(frames, frame)
  BY <1>1
<1>3. /\ \A f : Includes(all, f) <=> Includes(frames, f) \/ frame = f
      /\ \A f : Once(frames, f) /\ (frame # f \/ ~ Includes(frames, f)) => Once(all, f)
  BY <1>2, AppendIncludes
<1> QED BY <1>1, <1>3

LEMMA NumbersAre ==
    /\ Kept \in Nat /\ Coming \in Nat /\ Kept <= 1 /\ Coming <= 1
    /\ Kept' \in Nat /\ Coming' \in Nat /\ Kept' <= 1 /\ Coming' <= 1
BY DEF Kept, Coming

LEMMA SumShrinks ==
    ASSUME NEW a \in Nat, NEW b \in Nat, NEW c \in Nat, NEW d \in Nat,
           NEW x \in Nat, NEW y \in Nat, NEW bound \in Nat,
           b <= a, x + y <= c + d, a + c + d <= bound
    PROVE  b + x + y <= bound
OBVIOUS

LEMMA SumKeeps ==
    ASSUME NEW a \in Nat, NEW b \in Nat, NEW c \in Nat, NEW d \in Nat, a <= c, b <= d
    PROVE  a + b <= c + d
OBVIOUS

LEMMA SumPasses ==
    ASSUME NEW a \in Nat, NEW b \in Nat, NEW c \in Nat, NEW d \in Nat,
           a <= 1, b = 0, d = 1
    PROVE  a + b <= c + d
OBVIOUS

\* No error is raised, and none is kept or comes that did not before.
LEMMA CountStays ==
    ASSUME Counted, Raised' \subseteq Raised, Refusals' = Refusals,
           Kept' + Coming' <= Kept + Coming
    PROVE  Counted'
<1>1. IsFiniteSet(Raised) /\ IsFiniteSet(Refusals)
  BY DEF Counted
<1>2. PICK R : R = Raised'
  OBVIOUS
<1>3. IsFiniteSet(R) /\ Cardinality(R) <= Cardinality(Raised)
  BY <1>1, <1>2, FS_Subset
<1>4. /\ Cardinality(R) \in Nat /\ Cardinality(Raised) \in Nat
      /\ Cardinality(Refusals) \in Nat
  BY <1>1, <1>3, FS_CardinalityType
<1>5. Cardinality(Raised) + Kept + Coming <= Cardinality(Refusals)
  BY DEF Counted
<1>6. Cardinality(R) + Kept' + Coming' <= Cardinality(Refusals)
  <2>1. /\ Kept \in Nat /\ Coming \in Nat /\ Kept' \in Nat /\ Coming' \in Nat
        /\ Kept' + Coming' <= Kept + Coming
    BY NumbersAre
  <2> QED BY <1>3, <1>4, <1>5, <2>1, SumShrinks
<1> QED BY <1>1, <1>2, <1>3, <1>6 DEF Counted

\* The error that was kept is raised.
LEMMA CountRaises ==
    ASSUME Counted, NEW p, Raised' \subseteq Raised \cup {p}, Refusals' = Refusals,
           Kept = 1, Kept' = 0, Coming' = Coming
    PROVE  Counted'
<1>1. IsFiniteSet(Raised) /\ IsFiniteSet(Refusals)
  BY DEF Counted
<1>2. PICK R : R = Raised'
  OBVIOUS
<1>3. /\ IsFiniteSet(Raised \cup {p}) /\ Cardinality(Raised) \in Nat
      /\ Cardinality(Raised \cup {p}) <= Cardinality(Raised) + 1
  <2>1. Cardinality(Raised) \in Nat
    BY <1>1, FS_CardinalityType
  <2> QED BY <1>1, <2>1, FS_AddElement
<1>4. IsFiniteSet(R) /\ Cardinality(R) <= Cardinality(Raised \cup {p})
  BY <1>2, <1>3, FS_Subset
<1>5. /\ Cardinality(R) \in Nat /\ Cardinality(Raised \cup {p}) \in Nat
      /\ Cardinality(Refusals) \in Nat
  BY <1>1, <1>3, <1>4, FS_CardinalityType
<1> QED BY <1>1, <1>2, <1>3, <1>4, <1>5, NumbersAre DEF Counted

\* A message is refused, and the error may be on its way.
LEMMA CountRefuses ==
    ASSUME Counted, Raised' = Raised, NEW v, v \notin Refusals,
           Refusals' = Refusals \cup {v}, Kept' = Kept, Coming = 0
    PROVE  Counted'
<1>1. IsFiniteSet(Raised) /\ IsFiniteSet(Refusals)
  BY DEF Counted
<1>2. /\ IsFiniteSet(Refusals \cup {v}) /\ Cardinality(Raised) \in Nat
      /\ Cardinality(Refusals) \in Nat
      /\ Cardinality(Refusals \cup {v}) = Cardinality(Refusals) + 1
  BY <1>1, FS_CardinalityType, FS_AddElement
<1>3. PICK R : R = Refusals'
  OBVIOUS
<1> QED BY <1>1, <1>2, <1>3, NumbersAre DEF Counted

---------------------------------------------------------------------------
(* The steps keep the count *)

\* A publisher that is in publish goes on, or comes to its end.
LEMMA AheadStays ==
    ASSUME IInv, NEW p \in Publisher, Active(p), NEW pc, Alters(p, pc),
           publisher'[p].left =
               IF pc = "idle" THEN publisher[p].left - 1 ELSE publisher[p].left,
           NEW q \in Publisher, NEW n \in Nat, Ahead(q, n)'
    PROVE  Ahead(q, n)
<1>1. publisher[p].left \in Nat /\ publisher[p].left > 0
  BY ActiveHasMore, PublisherConfirmsAssumption DEF Records
<1>2. CASE q # p
  BY <1>2 DEF Alters, Ahead, Active
<1>3. CASE q = p /\ pc = "idle"
  <2>1. n < publisher[p].left - 1 \/ n = publisher[p].left - 1
    BY <1>3 DEF Ahead
  <2> QED BY <1>1, <1>3, <2>1 DEF Ahead
<1>4. CASE q = p /\ pc # "idle"
  BY <1>4 DEF Alters, Ahead, Active
<1> QED BY <1>2, <1>3, <1>4

LEMMA RaisedStays ==
    ASSUME NEW p \in Publisher, NEW pc, Alters(p, pc)
    PROVE  /\ Raised' \subseteq Raised \cup {p}
           /\ pc # "idle" \/ publisher'[p].result # "NotFound" => Raised' \subseteq Raised
<1>1. \A q \in Publisher : q # p => (Answered(q, {"NotFound"})' <=> Answered(q, {"NotFound"}))
  BY DEF Alters, Answered
<1>2. pc # "idle" \/ publisher'[p].result # "NotFound" => ~ Answered(p, {"NotFound"})'
  BY DEF Alters, Answered
<1> QED BY <1>1, <1>2 DEF Raised

\* The messages stay new when none arrives and none is written.
LEMMA NewStays ==
    ASSUME IInv, MessagesAreNew, broker' = broker,
           NEW frame \in OutFrame, frame.type # "Publish",
           outbox' = outbox \/ outbox' = outbox \o <<frame>>,
           \A q \in Publisher, n \in Nat : Ahead(q, n)' => Ahead(q, n)
    PROVE  MessagesAreNew'
<1>1. outbox \in Seq(OutFrame)
  BY DEF IInv, WireOK
<1>2. \A i \in DOMAIN outbox' : outbox'[i].type = "Publish" =>
          i \in DOMAIN outbox /\ outbox'[i] = outbox[i]
  <2>1. CASE outbox' = outbox
    BY <2>1
  <2>2. CASE outbox' = outbox \o <<frame>>
    BY <1>1, <2>2, OneMoreIs
  <2> QED BY <2>1, <2>2
<1> QED BY <1>2 DEF MessagesAreNew, IsRefused

\* Nothing arrives; at most a Channel.Open is written.
LEMMA WiresKeep ==
    ASSUME IInv, ClosingOK, MessagesAreNew, inbox' = inbox, broker' = broker,
           outbox' = outbox \/ outbox' = outbox \o <<OpenFrame>>,
           \A q \in Publisher, n \in Nat : Ahead(q, n)' => Ahead(q, n)
    PROVE  ClosingOK' /\ MessagesAreNew' /\ Coming' = Coming /\ Refusals' = Refusals
<1>1. Coming' = Coming /\ Refusals' = Refusals
  BY DEF Coming, Refusals
<1>2. outbox \in Seq(OutFrame) /\ OpenFrame \in OutFrame /\ OpenFrame.type # "Publish"
  BY FramesApart DEF IInv, WireOK
<1>3. ClosingOK'
  <2>1. CASE outbox' = outbox
    BY <2>1 DEF ClosingOK
  <2>2. CASE outbox' = outbox \o <<OpenFrame>>
    <3>1. /\ Includes(outbox', CloseOkFrame) <=> Includes(outbox, CloseOkFrame)
          /\ Once(outbox, CloseOkFrame) => Once(outbox', CloseOkFrame)
      BY <1>2, <2>2, FramesApart, OneMoreIncludes
    <3> QED BY <3>1 DEF ClosingOK
  <2> QED BY <2>1, <2>2
<1>4. MessagesAreNew'
  BY <1>2, NewStays
<1> QED BY <1>1, <1>3, <1>4

LEMMA ProceedCounts ==
    ASSUME IInv, EInv, NEW p \in Publisher, Active(p), NEW pc, Alters(p, pc),
           publisher'[p].left =
               IF pc = "idle" THEN publisher[p].left - 1 ELSE publisher[p].left,
           UNCHANGED <<inbox, broker>>,
           outbox' = outbox \/ outbox' = outbox \o <<OpenFrame>>,
           \/ /\ lastError' \in {lastError, None}
              /\ pc # "idle" \/ publisher'[p].result # "NotFound"
           \/ lastError # None /\ lastError' = None
    PROVE  EInv'
<1>1. \A q \in Publisher, n \in Nat : Ahead(q, n)' => Ahead(q, n)
  BY AheadStays
<1>2. ClosingOK' /\ MessagesAreNew' /\ Coming' = Coming /\ Refusals' = Refusals
  BY <1>1, WiresKeep DEF EInv
<1>3. CASE /\ lastError' \in {lastError, None}
           /\ pc # "idle" \/ publisher'[p].result # "NotFound"
  <2>1. Raised' \subseteq Raised
    BY <1>3, RaisedStays
  <2>2. Kept' <= Kept
    BY <1>3 DEF Kept
  <2>3. Kept' + Coming' <= Kept + Coming
    <3>1. Coming' <= Coming
      BY <1>2, NumbersAre
    <3> QED BY <2>2, <3>1, NumbersAre, SumKeeps
  <2> QED BY <1>2, <2>1, <2>3, CountStays DEF EInv
<1>4. CASE lastError # None /\ lastError' = None
  <2>1. Raised' \subseteq Raised \cup {p}
    BY RaisedStays
  <2>2. Kept = 1 /\ Kept' = 0
    BY <1>4 DEF Kept
  <2> QED BY <1>2, <2>1, <2>2, CountRaises DEF EInv
<1> QED BY <1>3, <1>4

LEMMA TakeCounts ==
    ASSUME IInv, EInv, NEW p \in Publisher, Awaits(p), Take(p),
           UNCHANGED <<session, inbox, outbox, broker>>
    PROVE  EInv'
<1> DEFINE tag == publisher[p].tag
<1>1. Active(p)
  BY AwaitsIsActive
<1>2. tag \in DOMAIN results
  BY DEF IInv, TypeOK, TagsAreOwn, Take
<1>3. results[tag] \in {"ack", "nack"} /\ results[tag] \in Results
  BY <1>2 DEF IInv, WireOK, Results
<1>4. /\ Alters(p, "idle") /\ publisher'[p].result = results[tag]
      /\ publisher'[p].left = publisher[p].left - 1
  BY <1>1, <1>3, ActiveHasMore, EndAlters DEF Take, IInv
<1>5. publisher'[p].result # "NotFound"
  BY <1>3, <1>4
<1> QED BY <1>1, <1>4, <1>5, ProceedCounts DEF session

LEMMA PollSettledCounts ==
    ASSUME IInv, EInv, NEW p \in Publisher, PollSettled(p)
    PROVE  EInv'
<1>1. Awaits(p) /\ Active(p)
  BY DEF PollSettled, Awaits, Active
<1>2. CASE Take(p)
  BY <1>1, <1>2, TakeCounts DEF PollSettled
<1>3. CASE Goes(p, "tagged")
  <2>1. Alters(p, "tagged") /\ publisher'[p].left = publisher[p].left
    BY <1>3, GoesAlters DEF IInv, Pcs
  <2> QED BY <1>1, <2>1, ProceedCounts DEF PollSettled, session
<1> QED BY <1>2, <1>3 DEF PollSettled

LEMMA PollRaisesCounts ==
    ASSUME IInv, EInv, NEW p \in Publisher, PollRaises(p)
    PROVE  EInv'
<1>1. Active(p)
  BY DEF PollRaises, Active
<1>2. Alters(p, "reconnecting") /\ publisher'[p].left = publisher[p].left
  BY GoesAlters DEF IInv, Pcs, PollRaises
<1> QED BY <1>1, <1>2, ProceedCounts DEF PollRaises, session

LEMMA PollClosedTakenCounts ==
    ASSUME IInv, EInv, NEW p \in Publisher, PollClosedTaken(p)
    PROVE  EInv'
<1>1. Active(p)
  BY DEF PollClosedTaken, Active
<1>2. /\ Alters(p, "idle") /\ publisher'[p].result = "UnknownError"
      /\ publisher'[p].left = publisher[p].left - 1
  BY <1>1, ActiveHasMore, EndAlters DEF IInv, Results, PollClosedTaken
<1>3. publisher'[p].result # "NotFound"
  BY <1>2
<1> QED BY <1>1, <1>2, <1>3, ProceedCounts DEF PollClosedTaken, session

\* The error that is raised is the one that was kept, and it is kept no longer.
LEMMA RaiseClosedCounts ==
    ASSUME IInv, EInv, NEW p \in Publisher, RaiseClosed(p)
    PROVE  EInv'
<1> DEFINE result == IF lastError = None THEN "UnknownError" ELSE lastError
<1>1. Active(p)
  BY DEF RaiseClosed, Active
<1>2. result \in Results /\ (lastError = None => result # "NotFound")
  BY DEF IInv, TypeOK, Results
<1>3. /\ Alters(p, "idle") /\ publisher'[p].result = result
      /\ publisher'[p].left = publisher[p].left - 1
  BY <1>1, <1>2, ActiveHasMore, EndAlters DEF IInv, RaiseClosed
<1> HIDE DEF result
<1>4. /\ lastError' = None /\ inbox' = inbox /\ broker' = broker /\ outbox' = outbox
  BY DEF RaiseClosed
<1> QED BY <1>1, <1>2, <1>3, <1>4, ProceedCounts

LEMMA PollClosedCounts ==
    ASSUME IInv, EInv, NEW p \in Publisher, PollClosed(p)
    PROVE  EInv'
<1> DEFINE m == SM!AfterPoll(manager, p)
           opening == IF channelOpen THEN "raising" ELSE "opening"
<1>1. Active(p)
  BY DEF PollClosed, Active
<1>2. lastError' = lastError /\ inbox' = inbox /\ broker' = broker
  BY DEF PollClosed, session
<1>3. CASE SM!Refuses(m, "OPENING_CHANNEL", None)
  <2>1. End(p, STE) /\ outbox' = outbox
    BY <1>3 DEF PollClosed
  <2>2. STE \in Results /\ STE # "NotFound"
    BY DEF Results, STE
  <2>3. /\ Alters(p, "idle") /\ publisher'[p].result = STE
        /\ publisher'[p].left = publisher[p].left - 1
    BY <1>1, <2>1, <2>2, ActiveHasMore, EndAlters DEF IInv
  <2> QED BY <1>1, <1>2, <2>1, <2>2, <2>3, ProceedCounts
<1>4. CASE ~ SM!Refuses(m, "OPENING_CHANNEL", None)
  <2>1. Write(<<OpenFrame>>) /\ Goes(p, opening)
    BY <1>4 DEF PollClosed, OpenFrame
  <2>2. opening \in Pcs /\ opening # "idle"
    BY DEF Pcs
  <2>3. outbox' = outbox \/ outbox' = outbox \o <<OpenFrame>>
    BY <2>1 DEF Write
  <2> HIDE DEF opening
  <2>4. Alters(p, opening) /\ publisher'[p].left = publisher[p].left
    BY <2>1, <2>2, GoesAlters DEF IInv
  <2> QED BY <1>1, <1>2, <2>2, <2>3, <2>4, ProceedCounts
<1> QED BY <1>3, <1>4

---------------------------------------------------------------------------
(* The frames that arrive keep the count *)

\* The publishers are where they were, or leave _open_channel.
LEMMA StaysCounts ==
    ASSUME \A p \in Publisher : Stays(p)
    PROVE  /\ \A q \in Publisher, n \in Nat : Ahead(q, n)' => Ahead(q, n)
           /\ Raised' = Raised
<1>1. ASSUME NEW q \in Publisher
      PROVE  /\ publisher'[q].left = publisher[q].left
             /\ Active(q)' <=> Active(q)
             /\ Answered(q, {"NotFound"})' <=> Answered(q, {"NotFound"})
  BY DEF Stays, Active, Answered
<1> QED BY <1>1 DEF Ahead, Raised

LEMMA ReceiveCounts ==
    ASSUME IInv, EInv, NEW type, Takes(type), \A p \in Publisher : Stays(p),
           broker' = broker,
           \/ outbox' = outbox /\ lastError' \in {lastError, None}
           \/ /\ type = "Channel.Close"
              /\ outbox' = outbox \/ outbox' = outbox \o <<CloseOkFrame>>
    PROVE  EInv'
<1>1. /\ \A q \in Publisher, n \in Nat : Ahead(q, n)' => Ahead(q, n)
      /\ Raised' = Raised /\ Refusals' = Refusals
  BY StaysCounts DEF Refusals
<1>2. /\ inbox \in Seq(InFrame) /\ outbox \in Seq(OutFrame) /\ inbox # <<>>
      /\ inbox' = Tail(inbox) /\ Head(inbox).type = type
  BY DEF IInv, WireOK, Takes
<1>3. /\ Head(inbox) \in InFrame /\ Includes(inbox, Head(inbox))
      /\ Includes(inbox', CloseFrame) => Includes(inbox, CloseFrame)
      /\ Once(inbox, CloseFrame) => Once(inbox', CloseFrame)
      /\ Once(inbox, Head(inbox)) => ~ Includes(inbox', Head(inbox))
  <2> HIDE DEF InFrame
  <2> QED BY <1>2, TailIncludes
<1>4. ClosingOK
  BY DEF EInv
<1>5. Coming' <= Coming
  BY <1>3 DEF Coming
<1>6. MessagesAreNew'
  <2>1. CloseOkFrame \in OutFrame /\ CloseOkFrame.type # "Publish"
    BY FramesApart
  <2> QED BY <1>1, <2>1, NewStays DEF EInv
<1>7. CASE outbox' = outbox /\ lastError' \in {lastError, None}
  <2>1. ClosingOK'
    BY <1>3, <1>4, <1>7 DEF ClosingOK
  <2>2. Kept' <= Kept
    BY <1>7 DEF Kept
  <2>3. Kept' + Coming' <= Kept + Coming
    BY <1>5, <2>2, NumbersAre, SumKeeps
  <2> QED BY <1>1, <1>6, <2>1, <2>3, CountStays DEF EInv
<1>8. CASE /\ type = "Channel.Close"
           /\ outbox' = outbox \/ outbox' = outbox \o <<CloseOkFrame>>
  <2>1. Head(inbox) = CloseFrame
    BY <1>2, <1>3, <1>8, FramesApart
  <2>2. /\ Includes(inbox, CloseFrame) /\ ~ Includes(inbox', CloseFrame)
        /\ broker.phase = "closing" /\ ~ Includes(outbox, CloseOkFrame)
    BY <1>3, <1>4, <2>1 DEF ClosingOK
  <2>3. Once(outbox', CloseOkFrame)
    <3>1. Once(outbox, CloseOkFrame) /\ CloseOkFrame \in OutFrame
      BY <1>4, FramesApart DEF ClosingOK
    <3>2. Once(outbox \o <<CloseOkFrame>>, CloseOkFrame)
      BY <1>2, <2>2, <3>1, OneMoreIncludes
    <3> QED BY <1>8, <3>1, <3>2
  <2>4. ClosingOK'
    BY <1>3, <1>4, <2>2, <2>3 DEF ClosingOK
  <2>5. Coming = 1 /\ Coming' = 0
    BY <2>2 DEF Coming
  <2>6. Kept' + Coming' <= Kept + Coming
    BY <2>5, NumbersAre, SumPasses
  <2> QED BY <1>1, <1>6, <2>4, <2>6, CountStays DEF EInv
<1> QED BY <1>7, <1>8

LEMMA ReceivesCount ==
    ASSUME IInv, EInv, Receive
    PROVE  EInv'
<1>1. CASE \/ ReceiveSettled("ack", "BASIC_ACK_RECEIVED")
           \/ ReceiveSettled("nack", "BASIC_NACK_RECEIVED")
  BY <1>1, ReceiveCounts DEF ReceiveSettled, Stays
<1>2. CASE \/ ReceiveContent("Return", "BASIC_RETURN_RECEIVED")
           \/ ReceiveContent("Header", "CONTENT_HEADER_RECEIVED")
  BY <1>2, ReceiveCounts DEF ReceiveContent, Stays
<1>3. CASE ReceiveBody
  BY <1>3, ReceiveCounts DEF ReceiveBody, Stays
<1>4. CASE Disconnected
  BY <1>4, ReceiveCounts DEF Disconnected, Stays, session
<1>5. CASE ReceiveChannelClose
  <2>1. Takes("Channel.Close") /\ publisher' = publisher /\ broker' = broker
    BY <1>5 DEF ReceiveChannelClose
  <2>2. outbox' = outbox \/ outbox' = outbox \o <<CloseOkFrame>>
    BY <1>5 DEF ReceiveChannelClose, Write, CloseOkFrame
  <2> QED BY <2>1, <2>2, ReceiveCounts DEF Stays
<1>6. CASE ReceiveChannelOpenOk
  <2>1. ASSUME NEW p \in Publisher
        PROVE  Stays(p)
    <3>1. publisher[p] \in Records(deliveryTag)
      BY RecordsAre DEF IInv
    <3>2. publisher'[p] = IF publisher[p].pc = "opening"
                          THEN [publisher[p] EXCEPT !.pc = "raising"] ELSE publisher[p]
      BY <1>6 DEF ReceiveChannelOpenOk
    <3> QED BY <3>1, <3>2 DEF Stays, Records
  <2> QED BY <1>6, <2>1, ReceiveCounts DEF ReceiveChannelOpenOk
<1> QED BY <1>1, <1>2, <1>3, <1>4, <1>5, <1>6 DEF Receive

---------------------------------------------------------------------------
(* A message that is published is a new one *)

LEMMA PublishCounts ==
    ASSUME IInv, EInv, NEW p \in Publisher, Publish(p)
    PROVE  EInv'
<1>1. /\ publisher[p].pc = "idle" /\ publisher[p].left > 0 /\ publisher[p].left \in Nat
      /\ UNCHANGED <<lastError, inbox, broker>>
  <2>1. publisher[p].left \in Nat
    BY RecordsAre, PublisherConfirmsAssumption DEF IInv, Records
  <2> QED BY <2>1 DEF Publish, session
<1>2. /\ \A q \in Publisher : q # p => publisher'[q] = publisher[q]
      /\ \/ publisher'[p].pc = "idle" /\ publisher'[p].result = STE
         \/ publisher'[p].pc = "waiting" /\ publisher'[p].left = publisher[p].left
  BY PublishIs
<1>3. publisher'[p].pc = "idle" => publisher'[p].left = publisher[p].left - 1
  <2>1. CASE SM!Refuses(manager, "MESSAGE_PUBLISHED", None)
    <3>1. STE \in Results
      BY DEF Results
    <3> QED BY <1>1, <2>1, <3>1, EndAlters DEF Publish, IInv
  <2>2. CASE ~ SM!Refuses(manager, "MESSAGE_PUBLISHED", None)
    <3>1. publisher' = [publisher EXCEPT ![p].pc = "waiting", ![p].tag = deliveryTag + 1]
      BY <2>2 DEF Publish
    <3> QED BY <3>1, RecordsAre DEF IInv, Records
  <2> QED BY <2>1, <2>2
<1> DEFINE message == Message(p)
<1>4. Ahead(p, publisher[p].left) /\ message = <<p, publisher[p].left>>
  BY <1>1 DEF Ahead, Active, Message
<1>5. ASSUME NEW q \in Publisher, NEW n \in Nat, Ahead(q, n)'
      PROVE  Ahead(q, n) /\ message # <<q, n>>
  <2>1. CASE q # p
    BY <1>2, <1>4, <1>5, <2>1 DEF Ahead, Active
  <2>2. CASE q = p
    <3>1. n < publisher[p].left
      BY <1>1, <1>2, <1>3, <1>5, <2>2 DEF Ahead, Active
    <3> QED BY <1>1, <1>4, <2>2, <3>1 DEF Ahead
  <2> QED BY <2>1, <2>2
<1>6. ~ IsRefused(message)
  BY <1>1, <1>4 DEF EInv, MessagesAreNew
<1>7. \A i \in DOMAIN outbox : outbox[i].type = "Publish" => outbox[i].by # message
  BY <1>1, <1>4 DEF EInv, MessagesAreNew
<1> HIDE DEF message
<1>8. outbox' = outbox \/ \E frame \in OutFrame :
         /\ outbox' = outbox \o <<frame>> /\ frame.type = "Publish" /\ frame.by = message
  <2>1. PICK body \in Bodies : Write(<<[type |-> "Publish", by |-> Message(p),
                                        body |-> body]>>)
    BY DEF Publish
  <2>2. [type |-> "Publish", by |-> Message(p), body |-> body] \in OutFrame
    BY <1>1 DEF OutFrame, Messages, Message
  <2> QED BY <2>1, <2>2 DEF Write, message
<1>9. outbox \in Seq(OutFrame)
  BY DEF IInv, WireOK
<1>10. ClosingOK'
  <2>1. CASE outbox' = outbox
    BY <1>1, <2>1 DEF EInv, ClosingOK
  <2>2. ASSUME NEW frame \in OutFrame, outbox' = outbox \o <<frame>>, frame.type = "Publish"
        PROVE  ClosingOK'
    <3>1. /\ Includes(outbox', CloseOkFrame) <=> Includes(outbox, CloseOkFrame)
          /\ Once(outbox, CloseOkFrame) => Once(outbox', CloseOkFrame)
      BY <1>9, <2>2, FramesApart, OneMoreIncludes
    <3> QED BY <1>1, <3>1 DEF EInv, ClosingOK
  <2> QED BY <1>8, <2>1, <2>2
<1>11. MessagesAreNew'
  <2>1. CASE outbox' = outbox
    BY <1>1, <1>5, <2>1 DEF EInv, MessagesAreNew, IsRefused
  <2>2. ASSUME NEW frame \in OutFrame, outbox' = outbox \o <<frame>>, frame.by = message
        PROVE  MessagesAreNew'
    <3>1. PICK last : last = Len(outbox) + 1
      OBVIOUS
    <3>2. /\ last \in DOMAIN outbox' /\ outbox'[last] = frame
          /\ \A i \in DOMAIN outbox' : i = last \/ i \in DOMAIN outbox
          /\ \A i \in DOMAIN outbox : i \in DOMAIN outbox' /\ outbox'[i] = outbox[i]
      BY <1>9, <2>2, <3>1, OneMoreIs
    <3>3. \A i \in DOMAIN outbox' : outbox'[i].type = "Publish" =>
             /\ <<outbox'[i].by, "NotFound">> \notin broker.verdict
             /\ \A q \in Publisher, n \in Nat : Ahead(q, n)' => outbox'[i].by # <<q, n>>
      BY <1>5, <1>6, <2>2, <3>2 DEF EInv, MessagesAreNew, IsRefused
    <3>4. \A i, j \in DOMAIN outbox' :
             outbox'[i].type = "Publish" /\ outbox'[j].type = "Publish"
                 /\ outbox'[j].by = outbox'[i].by => i = j
      BY <1>7, <2>2, <3>2 DEF EInv, MessagesAreNew
    <3>5. \A q \in Publisher, n \in Nat : Ahead(q, n)' =>
             <<<<q, n>>, "NotFound">> \notin broker.verdict
      BY <1>5 DEF EInv, MessagesAreNew, IsRefused
    <3> QED BY <1>1, <3>3, <3>4, <3>5 DEF MessagesAreNew, IsRefused
  <2> QED BY <1>8, <2>1, <2>2
<1>12. Counted'
  <2>1. STE # "NotFound"
    BY DEF STE
  <2>2. Raised' \subseteq Raised
    BY <1>2, <2>1 DEF Raised, Answered
  <2>3. Kept' = Kept /\ Coming' = Coming /\ Refusals' = Refusals
    BY <1>1 DEF Kept, Coming, Refusals
  <2>4. Kept' + Coming' <= Kept + Coming
    BY <2>3, NumbersAre
  <2> QED BY <2>2, <2>3, <2>4, CountStays DEF EInv
<1> QED BY <1>10, <1>11, <1>12 DEF EInv

---------------------------------------------------------------------------
(* The broker and the network keep the count *)

\* The broker takes a frame: the messages stay new, unless it is one that is refused.
LEMMA ReadsNew ==
    ASSUME IInv, MessagesAreNew, outbox # <<>>, outbox' = Tail(outbox),
           publisher' = publisher,
           \A message : <<message, "NotFound">> \in broker'.verdict =>
               \/ IsRefused(message)
               \/ Head(outbox).type = "Publish" /\ message = Head(outbox).by
    PROVE  MessagesAreNew'
<1>1. /\ 1 \in DOMAIN outbox /\ Head(outbox) = outbox[1]
      /\ \A i \in DOMAIN outbox' : i + 1 \in DOMAIN outbox /\ outbox'[i] = outbox[i + 1]
      /\ \A i \in DOMAIN outbox' : i \in Nat /\ i > 0
  <2>1. /\ 1 \in DOMAIN outbox /\ Head(outbox) = outbox[1]
        /\ \A i \in DOMAIN outbox' : i + 1 \in DOMAIN outbox /\ outbox'[i] = outbox[i + 1]
    BY TailIs DEF IInv, WireOK
  <2>2. DOMAIN outbox' = 1..(Len(outbox) - 1)
    BY BrokerTakes
  <2> QED BY <2>1, <2>2
<1>2. \A i, j \in DOMAIN outbox' : i + 1 # 1 /\ (i + 1 = j + 1 => i = j)
  BY <1>1
<1>3. \A i \in DOMAIN outbox' : outbox'[i].type = "Publish" =>
         /\ <<outbox'[i].by, "NotFound">> \notin broker'.verdict
         /\ \A p \in Publisher, n \in Nat : Ahead(p, n) => outbox'[i].by # <<p, n>>
  BY <1>1, <1>2 DEF MessagesAreNew, IsRefused
<1>4. \A i, j \in DOMAIN outbox' :
         outbox'[i].type = "Publish" /\ outbox'[j].type = "Publish"
             /\ outbox'[j].by = outbox'[i].by => i = j
  BY <1>1, <1>2 DEF MessagesAreNew
<1>5. \A p \in Publisher, n \in Nat : Ahead(p, n) =>
         <<<<p, n>>, "NotFound">> \notin broker'.verdict
  <2> SUFFICES ASSUME NEW p \in Publisher, NEW n \in Nat, Ahead(p, n),
                      <<<<p, n>>, "NotFound">> \in broker'.verdict
               PROVE  FALSE
    OBVIOUS
  <2>1. IsRefused(<<p, n>>) \/ (Head(outbox).type = "Publish" /\ <<p, n>> = Head(outbox).by)
    OBVIOUS
  <2>2. CASE IsRefused(<<p, n>>)
    BY <2>2 DEF MessagesAreNew
  <2>3. CASE outbox[1].type = "Publish" /\ <<p, n>> = outbox[1].by
    BY <1>1, <2>3 DEF MessagesAreNew
  <2> QED BY <1>1, <2>1, <2>2, <2>3
<1> QED BY <1>3, <1>4, <1>5 DEF MessagesAreNew, IsRefused, Ahead, Active

\* No message is refused, and no Channel.Close is sent.
LEMMA BrokerCountStays ==
    ASSUME IInv, EInv, publisher' = publisher, lastError' = lastError,
           Includes(inbox', CloseFrame) => Includes(inbox, CloseFrame),
           Refusals' = Refusals, ClosingOK', MessagesAreNew'
    PROVE  EInv'
<1>1. Raised' \subseteq Raised
  BY DEF Raised, Answered
<1>2. Kept' <= Kept /\ Coming' <= Coming
  BY DEF Kept, Coming
<1>3. Kept' + Coming' <= Kept + Coming
  BY <1>2, NumbersAre, SumKeeps
<1> QED BY <1>1, <1>3, CountStays DEF EInv

\* A frame other than a Channel.Close is sent.
LEMMA SendsOther ==
    ASSUME IInv, transport = "open", NEW frame \in InFrame, frame.type # "Channel.Close",
           Sends(<<frame>>)
    PROVE  /\ Includes(inbox', CloseFrame) <=> Includes(inbox, CloseFrame)
           /\ Once(inbox, CloseFrame) => Once(inbox', CloseFrame)
<1>1. inbox \in Seq(InFrame) /\ inbox' = inbox \o <<frame>> /\ frame # CloseFrame
  BY FramesApart DEF IInv, WireOK, Sends
<1> HIDE DEF InFrame
<1> QED BY <1>1, OneMoreIncludes

LEMMA RoutesCount ==
    ASSUME IInv, EInv, outbox # <<>>, outbox' = Tail(outbox),
           Head(outbox).type = "Publish", BrokerRoutes(Head(outbox)),
           UNCHANGED <<publisher, lastError>>,
           Includes(outbox', CloseOkFrame) => Includes(outbox, CloseOkFrame),
           Once(outbox, CloseOkFrame) => Once(outbox', CloseOkFrame)
    PROVE  EInv'
<1>1. transport = "open" /\ Head(outbox) \in OutFrame
  BY BrokerTakes
<1>2. Head(outbox).by \in Messages
  BY <1>1 DEF OutFrame
<1>3. PICK outcome \in Outcomes \cap {"route", "return"} :
         /\ Sends(IF outcome = "return" THEN Content(Head(outbox)) ELSE <<>>)
         /\ broker'.verdict = IF outcome = "return"
                              THEN broker.verdict \cup {<<Head(outbox).by, "return">>}
                              ELSE broker.verdict
         /\ broker'.phase = broker.phase
  <2>1. broker \in BrokerType
    BY BrokerIs
  <2> QED BY <2>1 DEF BrokerRoutes, BrokerType
<1> DEFINE frames == IF outcome = "return" THEN Content(Head(outbox)) ELSE <<>>
<1>4. frames \in Seq(InFrame) /\ ~ Includes(frames, CloseFrame)
  <2>1. /\ frames \in Seq(InFrame)
        /\ \A f \in Elements(frames) : f.type \in {"Return", "Header", "Body"}
    BY <1>2, ContentIs DEF Elements
  <2> HIDE DEF frames
  <2> QED BY <2>1, FramesApart DEF Includes, Elements
<1>5. inbox \in Seq(InFrame) /\ inbox' = inbox \o frames
  BY <1>1, <1>3 DEF IInv, WireOK, Sends
<1> HIDE DEF frames
<1>6. /\ Includes(inbox', CloseFrame) <=> Includes(inbox, CloseFrame)
      /\ Once(inbox, CloseFrame) => Once(inbox', CloseFrame)
  <2> HIDE DEF InFrame
  <2> QED BY <1>4, <1>5, ConcatIncludes
<1>7. ClosingOK'
  BY <1>3, <1>6 DEF EInv, ClosingOK
<1>8. \A v : v[2] = "NotFound" => (v \in broker'.verdict <=> v \in broker.verdict)
  BY <1>3
<1>9. Refusals' = Refusals
  BY <1>8 DEF Refusals
<1>10. MessagesAreNew'
  <2>1. \A message : <<message, "NotFound">> \in broker'.verdict => IsRefused(message)
    BY <1>8 DEF IsRefused
  <2> QED BY <2>1, ReadsNew DEF EInv
<1> QED BY <1>6, <1>7, <1>9, <1>10, BrokerCountStays

\* A message is refused: a new one, for a Channel.Close that is the only one.
LEMMA MissesCount ==
    ASSUME IInv, EInv, outbox # <<>>, outbox' = Tail(outbox), broker.phase = "open",
           Head(outbox).type = "Publish", BrokerMissesExchange(Head(outbox)),
           UNCHANGED <<publisher, lastError>>,
           Includes(outbox', CloseOkFrame) => Includes(outbox, CloseOkFrame)
    PROVE  EInv'
<1> DEFINE v == <<Head(outbox).by, "NotFound">>
<1>1. transport = "open" /\ Head(outbox) = outbox[1] /\ 1 \in DOMAIN outbox
  BY BrokerTakes
<1>2. broker'.phase = "closing" /\ broker'.verdict = broker.verdict \cup {v}
  <2>1. broker \in BrokerType
    BY BrokerIs
  <2> QED BY <2>1 DEF BrokerMissesExchange, BrokerType
<1>3. inbox' = inbox \o <<CloseFrame>> /\ inbox \in Seq(InFrame) /\ CloseFrame \in InFrame
  BY <1>1, FramesApart DEF BrokerMissesExchange, Sends, CloseFrame, IInv, WireOK
<1>4. ~ Includes(inbox, CloseFrame) /\ ~ Includes(outbox, CloseOkFrame)
  BY DEF EInv, ClosingOK
<1>5. Once(inbox', CloseFrame)
  <2>1. Once(inbox, CloseFrame)
    BY DEF EInv, ClosingOK
  <2> HIDE DEF InFrame
  <2> QED BY <1>3, <1>4, <2>1, OneMoreIncludes
<1>6. ClosingOK'
  BY <1>2, <1>4, <1>5 DEF ClosingOK, Once, Includes
<1>7. v \notin broker.verdict
  BY <1>1 DEF EInv, MessagesAreNew, IsRefused
<1>8. v[1] = Head(outbox).by /\ v[2] = "NotFound"
  OBVIOUS
<1>9. MessagesAreNew'
  <2>1. \A message : <<message, "NotFound">> = v => message = Head(outbox).by
    OBVIOUS
  <2>2. \A message : <<message, "NotFound">> \in broker'.verdict =>
            IsRefused(message) \/ message = Head(outbox).by
    BY <1>2, <2>1 DEF IsRefused
  <2> QED BY <2>2, ReadsNew DEF EInv
<1> HIDE DEF v
<1>10. v \notin Refusals /\ Refusals' = Refusals \cup {v}
  BY <1>2, <1>7, <1>8 DEF Refusals
<1>11. Raised' = Raised /\ Kept' = Kept /\ Coming = 0
  BY <1>4 DEF Raised, Answered, Kept, Coming
<1> QED BY <1>6, <1>9, <1>10, <1>11, CountRefuses DEF EInv

LEMMA BrokerReadsCounts ==
    ASSUME IInv, EInv, BrokerReads
    PROVE  EInv'
<1> DEFINE frame == Head(outbox)
<1>1. /\ outbox # <<>> /\ outbox' = Tail(outbox) /\ outbox \in Seq(OutFrame)
      /\ UNCHANGED <<publisher, lastError>>
  BY DEF BrokerReads, IInv, WireOK, session
<1>2. transport = "open"
  BY <1>1, BrokerTakes
<1>3. /\ frame \in OutFrame /\ Includes(outbox, frame)
      /\ Includes(outbox', CloseOkFrame) => Includes(outbox, CloseOkFrame)
      /\ Once(outbox, CloseOkFrame) => Once(outbox', CloseOkFrame)
      /\ Once(outbox, frame) => ~ Includes(outbox', frame)
  <2> HIDE DEF OutFrame
  <2> QED BY <1>1, TailIncludes
<1>4. ClosingOK /\ MessagesAreNew /\ broker \in BrokerType
  BY BrokerIs DEF EInv
<1>5. broker'.verdict = broker.verdict => MessagesAreNew' /\ Refusals' = Refusals
  <2> SUFFICES ASSUME broker'.verdict = broker.verdict
               PROVE  MessagesAreNew' /\ Refusals' = Refusals
    OBVIOUS
  <2>1. \A message : <<message, "NotFound">> \in broker'.verdict => IsRefused(message)
    BY DEF IsRefused
  <2> QED BY <1>1, <1>4, <2>1, ReadsNew DEF Refusals
<1>6. CASE frame.type = "Channel.CloseOk"
  <2>1. broker' = [broker EXCEPT !.phase = "closed"] /\ inbox' = inbox
    BY <1>6 DEF BrokerReads
  <2>2. broker'.verdict = broker.verdict
    BY <1>4, <2>1 DEF BrokerType
  <2>3. frame = CloseOkFrame
    BY <1>3, <1>6, FramesApart
  <2>4. ~ Includes(outbox', CloseOkFrame) /\ ~ Includes(inbox, CloseFrame)
    BY <1>3, <1>4, <2>3 DEF ClosingOK
  <2>5. ClosingOK'
    BY <1>3, <1>4, <2>1, <2>4 DEF ClosingOK
  <2> QED BY <1>1, <1>5, <2>1, <2>2, <2>5, BrokerCountStays
<1>7. CASE frame.type = "Channel.Open" /\ broker.phase = "closed"
  <2>1. /\ Sends(<<[type |-> "Channel.OpenOk"]>>)
        /\ broker' = [broker EXCEPT !.phase = "open", !.confirm = FALSE, !.tag = 0]
    BY <1>7 DEF BrokerReads
  <2>2. broker'.verdict = broker.verdict
    BY <1>4, <2>1 DEF BrokerType
  <2>3. /\ Includes(inbox', CloseFrame) <=> Includes(inbox, CloseFrame)
        /\ Once(inbox, CloseFrame) => Once(inbox', CloseFrame)
    BY <1>2, <2>1, SendsOther DEF InFrame
  <2>4. ~ Includes(inbox, CloseFrame) /\ ~ Includes(outbox, CloseOkFrame)
    BY <1>4, <1>7 DEF ClosingOK
  <2>5. ClosingOK'
    BY <1>3, <1>4, <2>3, <2>4 DEF ClosingOK
  <2> QED BY <1>1, <1>5, <2>2, <2>3, <2>5, BrokerCountStays
<1>8. CASE frame.type = "Publish" /\ broker.phase = "open"
  <2>1. BrokerRoutes(frame) \/ BrokerMissesExchange(frame)
    BY <1>8 DEF BrokerReads
  <2> QED BY <1>1, <1>3, <1>8, <2>1, RoutesCount, MissesCount
<1>9. CASE frame.type = "Publish" /\ broker.phase = "closed"
  <2>1. /\ Sends(<<[type |-> "Disconnected"]>>)
        /\ broker' = [broker EXCEPT !.phase = "gone"]
    BY <1>9 DEF BrokerReads
  <2>2. broker'.verdict = broker.verdict
    BY <1>4, <2>1 DEF BrokerType
  <2>3. /\ Includes(inbox', CloseFrame) <=> Includes(inbox, CloseFrame)
        /\ Once(inbox, CloseFrame) => Once(inbox', CloseFrame)
    BY <1>2, <2>1, SendsOther DEF InFrame
  <2>4. ~ Includes(inbox, CloseFrame) /\ ~ Includes(outbox, CloseOkFrame)
    BY <1>4, <1>9 DEF ClosingOK
  <2>5. ClosingOK'
    BY <1>3, <1>4, <2>3, <2>4 DEF ClosingOK
  <2> QED BY <1>1, <1>5, <2>2, <2>3, <2>5, BrokerCountStays
<1>10. CASE broker' = broker /\ inbox' = inbox
  <2>1. ClosingOK'
    BY <1>3, <1>4, <1>10 DEF ClosingOK
  <2> QED BY <1>1, <1>5, <1>10, <2>1, BrokerCountStays
<1> QED BY <1>6, <1>7, <1>8, <1>9, <1>10 DEF BrokerReads

LEMMA BrokerSettlesCounts ==
    ASSUME IInv, EInv, BrokerSettles
    PROVE  EInv'
<1>1. /\ transport = "open" /\ outbox' = outbox /\ publisher' = publisher
      /\ lastError' = lastError
  BY DEF BrokerSettles, session
<1>2. PICK last \in broker.unsettled, verdict \in Verdicts, alone \in BOOLEAN :
         LET settled == IF alone THEN {last}
                        ELSE {u \in broker.unsettled : u.tag <= last.tag}
         IN  /\ Sends(<<[type |-> verdict, tag |-> last.tag]>>)
             /\ broker' = [broker EXCEPT
                    !.unsettled = @ \ settled,
                    !.verdict = @ \cup {<<u.by, verdict>> : u \in settled}]
  BY DEF BrokerSettles
<1> DEFINE settled == IF alone THEN {last}
                      ELSE {u \in broker.unsettled : u.tag <= last.tag}
           frame == [type |-> verdict, tag |-> last.tag]
<1>3. verdict \in {"ack", "nack"}
  BY PublisherConfirmsAssumption
<1>4. frame \in InFrame /\ frame.type # "Channel.Close"
  <2>1. last.tag \in Nat
    BY BrokerIs
  <2> QED BY <1>3, <2>1 DEF InFrame
<1>5. /\ broker'.phase = broker.phase
      /\ broker'.verdict = broker.verdict \cup {<<u.by, verdict>> : u \in settled}
  <2>1. broker \in BrokerType
    BY BrokerIs
  <2> QED BY <1>2, <2>1 DEF BrokerType
<1>6. Sends(<<frame>>)
  BY <1>2
<1> HIDE DEF frame
<1>7. /\ Includes(inbox', CloseFrame) <=> Includes(inbox, CloseFrame)
      /\ Once(inbox, CloseFrame) => Once(inbox', CloseFrame)
  BY <1>1, <1>4, <1>6, SendsOther
<1>8. ClosingOK'
  BY <1>1, <1>5, <1>7 DEF EInv, ClosingOK
<1>9. \A v \in {<<u.by, verdict>> : u \in settled} : v[2] # "NotFound"
  BY <1>3
<1>10. Refusals' = Refusals
  BY <1>5, <1>9 DEF Refusals
<1>11. MessagesAreNew'
  <2>1. \A message : <<message, "NotFound">> \in broker'.verdict <=> IsRefused(message)
    BY <1>5, <1>9 DEF IsRefused
  <2> QED BY <1>1, <2>1 DEF EInv, MessagesAreNew, IsRefused, Ahead, Active
<1> QED BY <1>1, <1>7, <1>8, <1>10, <1>11, BrokerCountStays

LEMMA SocketLostCounts ==
    ASSUME IInv, EInv, SocketLost
    PROVE  EInv'
<1> DEFINE lost == [type |-> "Disconnected"]
<1>1. inbox \in Seq(InFrame) /\ lost \in InFrame /\ lost # CloseFrame
  BY DEF IInv, WireOK, InFrame, CloseFrame
<1>2. PICK n \in 0..Len(inbox) : inbox' = Append(SubSeq(inbox, 1, n), lost)
  BY DEF SocketLost
<1>3. /\ outbox' = <<>> /\ broker' = broker /\ publisher' = publisher
      /\ lastError' = lastError
  BY DEF SocketLost
<1> HIDE DEF InFrame, lost
<1>4. PICK prefix : prefix = SubSeq(inbox, 1, n)
  OBVIOUS
<1>5. /\ Includes(inbox', CloseFrame) => Includes(inbox, CloseFrame)
      /\ Once(inbox, CloseFrame) => Once(inbox', CloseFrame)
  <2>1. /\ prefix \in Seq(InFrame)
        /\ Includes(prefix, CloseFrame) => Includes(inbox, CloseFrame)
        /\ Once(inbox, CloseFrame) => Once(prefix, CloseFrame)
    BY <1>1, <1>4, PrefixIncludes
  <2>2. /\ Includes(Append(prefix, lost), CloseFrame) => Includes(prefix, CloseFrame)
        /\ Once(prefix, CloseFrame) => Once(Append(prefix, lost), CloseFrame)
    BY <1>1, <2>1, AppendIncludes
  <2> QED BY <1>2, <1>4, <2>1, <2>2
<1>6. Once(outbox', CloseOkFrame) /\ ~ Includes(outbox', CloseOkFrame)
  BY <1>3 DEF Once, Includes
<1>7. ClosingOK'
  BY <1>3, <1>5, <1>6 DEF EInv, ClosingOK
<1>8. MessagesAreNew'
  BY <1>3 DEF EInv, MessagesAreNew, IsRefused, Ahead, Active
<1>9. Refusals' = Refusals
  BY <1>3 DEF Refusals
<1> QED BY <1>3, <1>5, <1>7, <1>8, <1>9, BrokerCountStays

---------------------------------------------------------------------------
(* The theorem *)

LEMMA CountInit ==
    ASSUME Init
    PROVE  EInv
<1>1. /\ inbox = <<>> /\ outbox = <<>> /\ broker.verdict = {} /\ lastError = None
      /\ \A p \in Publisher : publisher[p].result = None
      /\ None # "NotFound"
  BY PublisherConfirmsAssumption DEF Init
<1>2. ClosingOK /\ MessagesAreNew
  BY <1>1 DEF ClosingOK, MessagesAreNew, IsRefused, Once, Includes
<1>3. Refusals = {} /\ Raised = {} /\ Kept = 0 /\ Coming = 0
  BY <1>1 DEF Refusals, Raised, Answered, Kept, Coming, Includes
<1>4. IsFiniteSet({}) /\ Cardinality({}) = 0
  BY FS_EmptySet
<1>5. Counted
  BY <1>3, <1>4 DEF Counted
<1> QED BY <1>2, <1>5 DEF EInv

LEMMA CountNext ==
    ASSUME IInv, EInv, [Next]_vars
    PROVE  EInv'
<1>1. CASE \E p \in Publisher : Publish(p) \/ Proceeds(p)
  <2>1. ASSUME NEW p \in Publisher, TagIsSet(p)
        PROVE  EInv'
    BY <2>1, TakeCounts DEF TagIsSet, Awaits
  <2> QED BY <1>1, <2>1, PublishCounts, PollSettledCounts, PollRaisesCounts,
             PollClosedCounts, PollClosedTakenCounts, RaiseClosedCounts DEF Proceeds
<1>2. CASE Receive
  BY <1>2, ReceivesCount
<1>3. CASE RunReady \/ UNCHANGED vars
  <2>1. UNCHANGED <<publisher, session, inbox, outbox, broker>>
    BY <1>3 DEF RunReady, vars
  <2>2. ClosingOK' /\ MessagesAreNew' /\ Refusals' = Refusals
    BY <2>1 DEF EInv, ClosingOK, MessagesAreNew, IsRefused, Ahead, Active, Refusals
  <2> QED BY <2>1, <2>2, BrokerCountStays DEF session
<1>4. CASE BrokerReads \/ BrokerSettles \/ SocketLost
  BY <1>4, BrokerReadsCounts, BrokerSettlesCounts, SocketLostCounts
<1> QED BY <1>1, <1>2, <1>3, <1>4 DEF Next

\* However many publishers a Channel.Close wakes, one of them is raised its error: the
\* publishers that are raised NotFound are no more than the messages sent to a missing
\* exchange.  For every outcome, and whether or not the socket and the channel last.
THEOREM OneRefusalOneError == Spec => []ErrorIsRaisedOnce
<1>1. EInv => ErrorIsRaisedOnce
  <2> SUFFICES ASSUME EInv
               PROVE  Cardinality(Raised) <= Cardinality(Refusals)
    BY DEF ErrorIsRaisedOnce, Raised, Refusals
  <2>1. /\ Cardinality(Raised) \in Nat /\ Cardinality(Refusals) \in Nat
        /\ Cardinality(Raised) + Kept + Coming <= Cardinality(Refusals)
    BY FS_CardinalityType DEF EInv, Counted
  <2> QED BY <2>1, NumbersAre
<1>2. Init => EInv
  BY CountInit
<1>3. IInv /\ EInv /\ [Next]_vars => EInv'
  BY CountNext
<1> QED BY <1>1, <1>2, <1>3, ConfirmsInvariance, PTL DEF Spec

---------------------------------------------------------------------------
(* One publisher on a socket that holds: where its message is *)

\* One publisher, and a network that does not fail.
Alone == (\E p \in Publisher : Publisher = {p}) /\ ~ SocketMayDrop

RestStates == {"CONFIRM_SELECTOK_RECEIVED", "CHANNEL_OPENOK_RECEIVED",
               "BASIC_ACK_RECEIVED", "BASIC_NACK_RECEIVED"}

NoEvents == manager.waits = {} /\ SM!Pending(manager) = {}
NothingMoves == inbox = <<>> /\ outbox = <<>> /\ broker.phase = "open"

\* What was said of the last message is what publish ended with.
EndedRight(p) ==
    /\ publisher[p].result = "NotFound"
           <=> <<LastMessage(p), "NotFound">> \in broker.verdict
    /\ (/\ OnReturn /\ publisher[p].result \in {"ack", "nack"}
        /\ <<LastMessage(p), "return">> \in broker.verdict)
           => LastMessage(p) \in returned

Resting(p) ==
    /\ publisher[p].pc = "idle" /\ EndedRight(p)
    /\ manager.state \in RestStates /\ NoEvents
    /\ NothingMoves /\ broker.unsettled = {}
    /\ channelOpen /\ lastError = None

\* The message is on its way to the broker.
Published(p) ==
    /\ manager.state = "MESSAGE_PUBLISHED" /\ SM!Pending(manager) = {}
    /\ \E body \in Bodies : outbox = <<[type |-> "Publish", by |-> Message(p), body |-> body]>>
    /\ inbox = <<>> /\ broker.phase = "open" /\ broker.unsettled = {}
    /\ \A verdict \in Judgements : ~ Said(p, verdict)
    /\ ~ tags[deliveryTag]

\* What is still to come of a message returned, with or without body, before the rest.
BodyThen(p, body, rest) ==
    IF body = "empty" THEN rest ELSE <<[type |-> "Body", by |-> Message(p)]>> \o rest
HeaderThen(p, body, rest) == <<[type |-> "Header"]>> \o BodyThen(p, body, rest)
ReturnThen(p, body, rest) == <<[type |-> "Return"]>> \o HeaderThen(p, body, rest)

Reported(p) == OnReturn /\ Said(p, "return") => Message(p) \in returned

\* The message was routed; it may come back first, and then comes the rest.
Returning(p, rest) ==
    \/ /\ manager.state \in {"MESSAGE_PUBLISHED", "MESSAGE_ASSEMBLED"}
       /\ inbox = rest /\ Reported(p)
    \/ \E body \in Bodies :
          \/ manager.state = "MESSAGE_PUBLISHED" /\ inbox = ReturnThen(p, body, rest)
          \/ manager.state = "BASIC_RETURN_RECEIVED" /\ inbox = HeaderThen(p, body, rest)
          \/ manager.state = "CONTENT_HEADER_RECEIVED" /\ inbox = BodyThen(p, body, rest)

\* The confirmation of the message, if it was sent already.
Rests == {<<>>} \cup {<<[type |-> verdict, tag |-> deliveryTag]>> : verdict \in {"ack", "nack"}}

Routed(p) ==
    /\ SM!Pending(manager) = {} /\ ~ tags[deliveryTag]
    /\ outbox = <<>> /\ broker.phase = "open" /\ ~ Said(p, "NotFound")
    /\ \E rest \in Rests :
          Returning(p, rest) /\ (rest # <<>> => broker.unsettled = {})
    /\ broker.unsettled \subseteq {[tag |-> deliveryTag, by |-> Message(p)]}

\* The confirmation has come, and the loop has not resumed publish yet.
Confirmed(p) ==
    /\ manager.state \in {"BASIC_ACK_RECEIVED", "BASIC_NACK_RECEIVED"}
    /\ SM!Pending(manager) = {<<manager.state, p>>}
    /\ tags[deliveryTag]
    /\ NothingMoves /\ broker.unsettled = {}
    /\ ~ Said(p, "NotFound") /\ Reported(p)

\* The exchange is missing: the close of the channel is under way.
Missing(p) ==
    /\ manager.state = "MESSAGE_PUBLISHED" /\ SM!Pending(manager) = {}
    /\ inbox = <<[type |-> "Channel.Close"]>> /\ outbox = <<>>
    /\ broker.phase = "closing" /\ broker.unsettled = {} /\ Said(p, "NotFound")

Failing(p) == ~ channelOpen /\ lastError = "NotFound" /\ Said(p, "NotFound")

\* The channel was closed, and publish does not know yet.
Refused(p) ==
    /\ Failing(p)
    /\ manager.state = "CHANNEL_CLOSEOK_SENT"
    /\ SM!Pending(manager) = {<<"CHANNEL_CLOSE_RECEIVED", p>>}
    /\ inbox = <<>> /\ broker.unsettled = {}
    /\ \/ outbox = <<CloseOkFrame>> /\ broker.phase = "closing"
       \/ outbox = <<>> /\ broker.phase = "closed"

Waiting(p) ==
    /\ publisher[p].pc = "waiting"
    /\ manager.waits = (SettledStates \cup {"CHANNEL_CLOSE_RECEIVED"}) \X {p}
    /\ \/ /\ channelOpen /\ lastError = None
          /\ Published(p) \/ Routed(p) \/ Confirmed(p) \/ Missing(p)
       \/ Refused(p)

\* publish opens another channel.
Reopening(p) ==
    /\ publisher[p].pc = "opening" /\ Failing(p)
    /\ manager.state = "CHANNEL_OPEN_SENT" /\ NoEvents /\ broker.unsettled = {}
    /\ \/ inbox = <<>> /\ outbox = <<CloseOkFrame, OpenFrame>> /\ broker.phase = "closing"
       \/ inbox = <<>> /\ outbox = <<OpenFrame>> /\ broker.phase = "closed"
       \/ inbox = <<[type |-> "Channel.OpenOk"]>> /\ outbox = <<>> /\ broker.phase = "open"

\* The channel is open, and publish is about to raise the error.
Raising(p) ==
    /\ publisher[p].pc = "raising" /\ lastError = "NotFound" /\ Said(p, "NotFound")
    /\ channelOpen
    /\ manager.state = "CHANNEL_OPENOK_RECEIVED" /\ NoEvents
    /\ NothingMoves /\ broker.unsettled = {}

\* The state refused a confirmation: publish will go on to reconnect.
Stuck(p) ==
    /\ \/ publisher[p].pc = "waiting" /\ manager.exception # None
       \/ publisher[p].pc = "reconnecting"
    /\ NothingMoves /\ broker.unsettled = {}

\* The broker has spoken of messages published so far.
Later(p) ==
    \A said \in broker.verdict :
        /\ said[1][2] >= publisher[p].left
        /\ said[1][2] = publisher[p].left => Active(p)

\* Where publish and the broker are.
Where(p) ==
    \/ /\ manager.exception = None
       /\ Resting(p) \/ Waiting(p) \/ Reopening(p) \/ Raising(p)
    \/ Stuck(p)

AInv(p) ==
    /\ Where(p) /\ Later(p) /\ transport = "open"
    /\ DOMAIN tags = IF publisher[p].pc = "idle" THEN {} ELSE {deliveryTag}
    /\ failed => ~ OnReturn \/ "empty" \in Bodies

---------------------------------------------------------------------------
(* The table *)

LEMMA TransitionsAre ==
    /\ \A s \in DOMAIN Steps : ClientTransitions[s] = Steps[s]
    /\ \A s \in DOMAIN Strict : ClientTransitions[s] = Strict[s]
    /\ \A s \in DOMAIN Refusable :
          ClientTransitions[s] = Refusable[s] \cup {"CHANNEL_CLOSE_RECEIVED"}
    /\ \A s \in DOMAIN IdleWith : ClientTransitions[s] = IdleWith[s] \cup Idle
    /\ \A s \in IdleAfter : ClientTransitions[s] = Idle
<1> DEFINE D1 == DOMAIN Steps
           D2 == DOMAIN Strict
           D3 == DOMAIN Refusable
           D4 == DOMAIN IdleWith
<1>1. /\ D1 \cap D2 = {} /\ D1 \cap D3 = {} /\ D1 \cap D4 = {} /\ D1 \cap IdleAfter = {}
      /\ D2 \cap D3 = {} /\ D2 \cap D4 = {} /\ D2 \cap IdleAfter = {}
      /\ D3 \cap D4 = {} /\ D3 \cap IdleAfter = {} /\ D4 \cap IdleAfter = {}
  BY DEF Steps, Strict, Refusable, IdleWith, IdleAfter
<1>2. ClientTransitions = [s \in D1 \cup D2 \cup D3 \cup D4 \cup IdleAfter |->
                              CASE s \in D1 -> Steps[s]
                                [] s \in D2 -> Strict[s]
                                [] s \in D3 -> Refusable[s] \cup {"CHANNEL_CLOSE_RECEIVED"}
                                [] s \in D4 -> IdleWith[s] \cup Idle
                                [] s \in IdleAfter -> Idle]
  BY DEF ClientTransitions, ClientState
<1> HIDE DEF D1, D2, D3, D4
<1>3. /\ \A s \in D1 : ClientTransitions[s] = Steps[s]
      /\ \A s \in D2 : ClientTransitions[s] = Strict[s]
      /\ \A s \in D3 : ClientTransitions[s] = Refusable[s] \cup {"CHANNEL_CLOSE_RECEIVED"}
      /\ \A s \in D4 : ClientTransitions[s] = IdleWith[s] \cup Idle
      /\ \A s \in IdleAfter : ClientTransitions[s] = Idle
  BY <1>1, <1>2
<1> QED BY <1>3 DEF D1, D2, D3, D4

LEMMA Allowed ==
    /\ \A s \in RestStates : "MESSAGE_PUBLISHED" \in ClientTransitions[s]
    /\ {"BASIC_RETURN_RECEIVED", "BASIC_ACK_RECEIVED", "BASIC_NACK_RECEIVED",
        "CHANNEL_CLOSE_RECEIVED"} \subseteq ClientTransitions["MESSAGE_PUBLISHED"]
    /\ {"BASIC_ACK_RECEIVED", "BASIC_NACK_RECEIVED"}
           \subseteq ClientTransitions["MESSAGE_ASSEMBLED"]
    /\ "CONTENT_HEADER_RECEIVED" \in ClientTransitions["BASIC_RETURN_RECEIVED"]
    /\ ClientTransitions["CONTENT_HEADER_RECEIVED"] = {"CONTENT_BODY_RECEIVED"}
    /\ "MESSAGE_ASSEMBLED" \in ClientTransitions["CONTENT_BODY_RECEIVED"]
    /\ "CHANNEL_CLOSEOK_SENT" \in ClientTransitions["CHANNEL_CLOSE_RECEIVED"]
    /\ "OPENING_CHANNEL" \in ClientTransitions["CHANNEL_CLOSEOK_SENT"]
    /\ "CHANNEL_OPEN_SENT" \in ClientTransitions["OPENING_CHANNEL"]
    /\ "CHANNEL_OPENOK_RECEIVED" \in ClientTransitions["CHANNEL_OPEN_SENT"]
<1>1. /\ RestStates \subseteq IdleAfter
      /\ {"MESSAGE_PUBLISHED", "CHANNEL_CLOSE_RECEIVED"} \subseteq Idle
  BY DEF RestStates, IdleAfter, Idle
<1>2. /\ {"MESSAGE_PUBLISHED", "MESSAGE_ASSEMBLED"} \subseteq DOMAIN IdleWith
      /\ {"BASIC_RETURN_RECEIVED", "BASIC_ACK_RECEIVED", "BASIC_NACK_RECEIVED"}
            \subseteq IdleWith["MESSAGE_PUBLISHED"]
      /\ {"BASIC_ACK_RECEIVED", "BASIC_NACK_RECEIVED"}
            \subseteq IdleWith["MESSAGE_ASSEMBLED"]
  BY DEF IdleWith
<1>3. /\ {"BASIC_RETURN_RECEIVED", "CONTENT_HEADER_RECEIVED", "CONTENT_BODY_RECEIVED",
          "CHANNEL_CLOSE_RECEIVED", "CHANNEL_CLOSEOK_SENT", "OPENING_CHANNEL"}
            \subseteq DOMAIN Steps
      /\ Steps["BASIC_RETURN_RECEIVED"] = {"CONTENT_HEADER_RECEIVED"}
      /\ Steps["CONTENT_HEADER_RECEIVED"] = {"CONTENT_BODY_RECEIVED"}
      /\ Steps["CONTENT_BODY_RECEIVED"] = {"MESSAGE_ASSEMBLED"}
      /\ Steps["CHANNEL_CLOSE_RECEIVED"] = {"CHANNEL_CLOSEOK_SENT"}
      /\ Steps["CHANNEL_CLOSEOK_SENT"] = {"OPENING_CHANNEL"}
      /\ Steps["OPENING_CHANNEL"] = {"CHANNEL_OPEN_SENT"}
  BY DEF Steps
<1>4. /\ "CHANNEL_OPEN_SENT" \in DOMAIN Strict
      /\ Strict["CHANNEL_OPEN_SENT"] = {"CHANNEL_OPENOK_RECEIVED"}
  BY DEF Strict
<1> QED BY <1>1, <1>2, <1>3, <1>4, TransitionsAre

---------------------------------------------------------------------------
(* The events of the state manager *)

LEMMA ManagerIs ==
    ASSUME NEW m \in Managers
    PROVE  /\ m.state \in ClientState /\ m.waits \in Events /\ m.fired \in Events
           /\ m.ready \in Seq(Events)
           /\ SM!Pending(m) = m.fired \cup UNION {m.ready[i] : i \in DOMAIN m.ready}
<1>1. /\ m.state \in ClientState /\ m.waits \in Events /\ m.fired \in Events
      /\ m.ready \in Seq(Events)
  BY ManagersAre
<1>2. \A i \in DOMAIN m.ready : m.ready[i] \in Events
  <2> HIDE DEF Events
  <2> QED BY <1>1
<1> QED BY <1>1, <1>2 DEF SM!Pending, SM!Event, Events

LEMMA PendingEntered ==
    ASSUME NEW m \in Managers, NEW value \in ClientState, NEW exc \in Error \cup {None}
    PROVE  LET n == SM!Enter(m, value, exc) IN
           /\ n.state = value /\ n.exception = exc /\ n.waits = m.waits
           /\ SM!Pending(n) = SM!Pending(m) \cup {e \in m.waits : e[1] = value}
<1> DEFINE n == SM!Enter(m, value, exc)
           more == SM!Scheduled(m, value)
<1>1. /\ m.waits \in Events /\ m.fired \in Events /\ m.ready \in Seq(Events)
      /\ SM!Pending(m) = m.fired \cup UNION {m.ready[i] : i \in DOMAIN m.ready}
  BY ManagerIs
<1>2. more = {e \in m.waits : e[1] = value} /\ more \in Events
  BY <1>1 DEF SM!Scheduled, Events
<1> HIDE DEF more
<1>3. /\ n.state = value /\ n.exception = exc /\ n.waits = m.waits /\ n.fired = m.fired
      /\ n.ready = IF more = {} THEN m.ready ELSE Append(m.ready, more)
  BY ManagersAre DEF SM!Enter, more
<1>4. n \in Managers
  <2>1. n.ready \in Seq(Events)
    <3> HIDE DEF Events, n
    <3> QED BY <1>1, <1>2, <1>3
  <2>2. n = [m EXCEPT !.exception = exc, !.state = value, !.ready = n.ready]
    BY ManagersAre DEF SM!Enter
  <2> HIDE DEF n
  <2> QED BY <2>1, <2>2, ManagersAre
<1> HIDE DEF n
<1>5. SM!Pending(n) = n.fired \cup UNION {n.ready[i] : i \in DOMAIN n.ready}
  BY <1>4, ManagerIs
<1>6. CASE more = {}
  BY <1>1, <1>2, <1>3, <1>5, <1>6 DEF n
<1>7. CASE more # {}
  <2> DEFINE before == m.ready
             after == n.ready
  <2>1. /\ before \in Seq(Events) /\ after = Append(before, more)
    BY <1>1, <1>3, <1>7
  <2> HIDE DEF before, after, Events
  <2>2. /\ DOMAIN after = DOMAIN before \cup {Len(before) + 1}
        /\ \A i \in DOMAIN before : after[i] = before[i]
        /\ after[Len(before) + 1] = more
    BY <1>2, <2>1
  <2>3. UNION {after[i] : i \in DOMAIN after}
            = (UNION {before[i] : i \in DOMAIN before}) \cup more
    BY <2>2
  <2> QED BY <1>1, <1>2, <1>3, <1>5, <2>3 DEF before, after, n
<1> QED BY <1>6, <1>7

LEMMA PendingSame ==
    ASSUME NEW m \in Managers, NEW n, n.fired = m.fired, n.ready = m.ready
    PROVE  SM!Pending(n) = SM!Pending(m)
BY DEF SM!Pending

\* The client goes where its table lets it go.
LEMMA EnterIs ==
    ASSUME NEW m \in Managers, NEW value \in ClientState, m.exception = None,
           value # m.state, value \in ClientTransitions[m.state]
    PROVE  LET n == Enter(m, value) IN
           /\ ~ SM!Refuses(m, value, None)
           /\ n \in Managers
           /\ n.state = value /\ n.exception = None /\ n.waits = m.waits
           /\ SM!Pending(n) = SM!Pending(m) \cup {e \in m.waits : e[1] = value}
<1>1. ~ SM!Refuses(m, value, None) /\ ~ SM!Unchanged(m, value, None)
  BY DEF SM!Refuses, SM!Unchanged
<1>2. Enter(m, value) = SM!Enter(m, value, None)
  BY <1>1 DEF Enter, SM!SetState
<1>3. Enter(m, value) \in Managers
  BY EnterKeepsType
<1> QED BY <1>1, <1>2, <1>3, PendingEntered

LEMMA RegisterIs ==
    ASSUME NEW m \in Managers, NEW p, NEW S
    PROVE  LET n == SM!Register(m, p, S) IN
           /\ n.state = m.state /\ n.exception = m.exception
           /\ n.waits = m.waits \cup (S \X {p})
           /\ SM!Pending(n) = SM!Pending(m)
<1> DEFINE n == SM!Register(m, p, S)
<1>1. /\ n.state = m.state /\ n.exception = m.exception /\ n.waits = m.waits \cup (S \X {p})
      /\ n.fired = m.fired /\ n.ready = m.ready
  BY ManagersAre DEF SM!Register
<1> HIDE DEF n
<1>2. SM!Pending(n) = SM!Pending(m)
  BY <1>1, PendingSame
<1> QED BY <1>1, <1>2 DEF n

LEMMA RunCallbacksIs ==
    ASSUME NEW m \in Managers, m.ready # <<>>
    PROVE  LET n == SM!RunCallbacks(m) IN
           /\ n.state = m.state /\ n.exception = m.exception /\ n.waits = m.waits
           /\ SM!Pending(n) = SM!Pending(m)
<1> DEFINE n == SM!RunCallbacks(m)
           before == m.ready
           after == n.ready
<1>1. /\ n.state = m.state /\ n.exception = m.exception /\ n.waits = m.waits
      /\ n.fired = m.fired \cup Head(before) /\ after = Tail(before)
  BY ManagersAre DEF SM!RunCallbacks
<1>2. n \in Managers
  BY RunCallbacksKeepsType
<1> HIDE DEF n
<1>3. /\ SM!Pending(m) = m.fired \cup UNION {before[i] : i \in DOMAIN before}
      /\ SM!Pending(n) = n.fired \cup UNION {after[i] : i \in DOMAIN after}
      /\ before \in Seq(Events)
  BY <1>2, ManagerIs
<1>4. UNION {before[i] : i \in DOMAIN before}
          = Head(before) \cup UNION {after[i] : i \in DOMAIN after}
  <2>0. before \in Seq(Events) /\ before # <<>> /\ after = Tail(before)
    BY <1>1, <1>3
  <2> HIDE DEF before, after
  <2>1. /\ 1 \in DOMAIN before /\ Head(before) = before[1]
        /\ \A i \in DOMAIN after : i + 1 \in DOMAIN before /\ after[i] = before[i + 1]
        /\ \A i \in DOMAIN before : i = 1 \/ i - 1 \in DOMAIN after
        /\ DOMAIN before \subseteq Nat
    BY <2>0, TailIs
  <2>2. \A i \in DOMAIN before : i = 1 \/ before[i] = after[i - 1]
    BY <2>1
  <2>3. \A e : (\E i \in DOMAIN before : e \in before[i])
                   <=> e \in Head(before) \/ (\E i \in DOMAIN after : e \in after[i])
    BY <2>1, <2>2
  <2> QED BY <2>3
<1>5. SM!Pending(n) = SM!Pending(m)
  BY <1>1, <1>3, <1>4
<1> QED BY <1>1, <1>5 DEF n

LEMMA AfterPollIs ==
    ASSUME NEW m \in Managers, NEW p \in Publisher
    PROVE  LET n == SM!AfterPoll(m, p) IN
           /\ n \in Managers /\ n.state = m.state /\ n.exception = None
           /\ n.waits = m.waits \ SM!EventsOf(p)
           /\ SM!Pending(n) = SM!Pending(m) \ SM!EventsOf(p)
<1> DEFINE n == SM!AfterPoll(m, p)
           mine == SM!EventsOf(p)
           before == m.ready
           after == n.ready
<1>1. /\ n.state = m.state /\ n.exception = None /\ n.waits = m.waits \ mine
      /\ n.fired = m.fired \ mine /\ after = [i \in DOMAIN before |-> before[i] \ mine]
  <2> HIDE DEF mine
  <2> QED BY ManagersAre DEF SM!AfterPoll, SM!ClearWaits, mine
<1>2. n \in Managers
  BY AfterPollKeepsType
<1> HIDE DEF n, mine
<1>3. /\ SM!Pending(m) = m.fired \cup UNION {before[i] : i \in DOMAIN before}
      /\ SM!Pending(n) = n.fired \cup UNION {after[i] : i \in DOMAIN after}
  BY <1>2, ManagerIs
<1>4. /\ DOMAIN after = DOMAIN before
      /\ \A i \in DOMAIN before : after[i] = before[i] \ mine
  BY <1>1
<1>5. UNION {after[i] : i \in DOMAIN after}
          = (UNION {before[i] : i \in DOMAIN before}) \ mine
  BY <1>4
<1>6. SM!Pending(n) = SM!Pending(m) \ mine
  BY <1>1, <1>3, <1>5
<1> QED BY <1>1, <1>2, <1>6 DEF n, mine


---------------------------------------------------------------------------
(* What comes over the socket *)

\* The first frame, and what comes after it.
LEMMA FirstIs ==
    ASSUME NEW S, NEW f \in S, NEW s \in Seq(S)
    PROVE  /\ <<f>> \o s \in Seq(S) /\ <<f>> \o s # <<>>
           /\ Head(<<f>> \o s) = f /\ Tail(<<f>> \o s) = s
<1> DEFINE all == <<f>> \o s
<1>1. /\ <<f>> \in Seq(S) /\ Len(<<f>>) = 1
      /\ Len(s) \in Nat /\ DOMAIN s = 1..Len(s)
  OBVIOUS
<1>2. /\ all \in Seq(S) /\ Len(all) = Len(s) + 1 /\ all[1] = f
      /\ \A i \in 1..Len(s) : all[i + 1] = s[i]
  BY <1>1
<1> HIDE DEF all
<1>3. all # <<>> /\ Head(all) = f
  BY <1>1, <1>2
<1>4. /\ Tail(all) \in Seq(S) /\ Len(Tail(all)) = Len(s)
      /\ \A i \in 1..Len(s) : Tail(all)[i] = s[i]
  BY <1>1, <1>2, <1>3
<1>5. Tail(all) = s
  BY <1>4, SameSequence
<1> QED BY <1>2, <1>3, <1>5 DEF all

\* A frame behind the others.
LEMMA AfterFirst ==
    ASSUME NEW S, NEW f \in S, NEW s \in Seq(S), NEW r \in Seq(S)
    PROVE  (<<f>> \o s) \o r = <<f>> \o (s \o r)
<1> DEFINE a == (<<f>> \o s) \o r
           b == <<f>> \o (s \o r)
<1>1. /\ Len(s) \in Nat /\ DOMAIN s = 1..Len(s)
      /\ Len(r) \in Nat /\ DOMAIN r = 1..Len(r)
      /\ <<f>> \in Seq(S) /\ Len(<<f>>) = 1
  OBVIOUS
<1>2. /\ s \o r \in Seq(S) /\ Len(s \o r) = Len(s) + Len(r)
      /\ \A i \in 1..(Len(s) + Len(r)) :
            (s \o r)[i] = IF i <= Len(s) THEN s[i] ELSE r[i - Len(s)]
  BY <1>1
<1>3. /\ b \in Seq(S) /\ Len(b) = 1 + Len(s) + Len(r) /\ b[1] = f
      /\ \A i \in 2..(1 + Len(s) + Len(r)) : b[i] = (s \o r)[i - 1]
  BY <1>1, <1>2
<1>4. /\ <<f>> \o s \in Seq(S) /\ Len(<<f>> \o s) = 1 + Len(s)
      /\ (<<f>> \o s)[1] = f
      /\ \A i \in 2..(1 + Len(s)) : (<<f>> \o s)[i] = s[i - 1]
  BY <1>1
<1>5. /\ a \in Seq(S) /\ Len(a) = 1 + Len(s) + Len(r)
      /\ \A i \in 1..(1 + Len(s)) : a[i] = (<<f>> \o s)[i]
      /\ \A i \in (2 + Len(s))..(1 + Len(s) + Len(r)) : a[i] = r[i - (1 + Len(s))]
  BY <1>1, <1>4
<1>6. \A i \in 1..Len(a) : a[i] = b[i]
  <2> HIDE DEF a, b
  <2> SUFFICES ASSUME NEW i \in 1..(1 + Len(s) + Len(r))
               PROVE  a[i] = b[i]
    BY <1>5
  <2>1. CASE i = 1
    <3>1. 1 \in 1..(1 + Len(s))
      BY <1>1
    <3>2. a[1] = (<<f>> \o s)[1]
      BY <1>5, <3>1
    <3>3. a[1] = b[1]
      BY <1>3, <1>4, <3>2, Zenon
    <3> QED BY <2>1, <3>3
  <2>2. CASE i \in 2..(1 + Len(s))
    <3>1. a[i] = s[i - 1]
      BY <1>1, <1>4, <1>5, <2>2
    <3>2. b[i] = (s \o r)[i - 1] /\ i - 1 \in 1..(Len(s) + Len(r)) /\ i - 1 <= Len(s)
      BY <1>1, <1>3, <2>2
    <3> QED BY <1>2, <3>1, <3>2
  <2>3. CASE i \in (2 + Len(s))..(1 + Len(s) + Len(r))
    <3>1. a[i] = r[i - (1 + Len(s))]
      BY <1>5, <2>3
    <3>2. /\ b[i] = (s \o r)[i - 1] /\ i - 1 \in 1..(Len(s) + Len(r))
          /\ ~ (i - 1 <= Len(s)) /\ (i - 1) - Len(s) = i - (1 + Len(s))
      BY <1>1, <1>3, <2>3
    <3> QED BY <1>2, <3>1, <3>2
  <2> QED BY <1>1, <2>1, <2>2, <2>3
<1> HIDE DEF a, b
<1>7. a = b
  BY <1>3, <1>5, <1>6, SameSequence
<1> QED BY <1>7 DEF a, b

---------------------------------------------------------------------------
(* The one publisher *)

Context(p) == IInv /\ Publisher = {p} /\ ~ SocketMayDrop /\ AInv(p)

LEMMA FactsAre ==
    ASSUME NEW p \in Publisher, Context(p)
    PROVE  /\ manager \in Managers /\ transport = "open"
           /\ publisher[p] \in Records(deliveryTag) /\ publisher[p].left \in Nat
           /\ Message(p) \in Messages
           /\ Active(p) => publisher[p].tag = deliveryTag /\ publisher[p].left > 0
           /\ None # "NotFound" /\ None # STE
           /\ deliveryTag \in Nat
<1>1. IInv /\ AInv(p) /\ \A q \in Publisher : q = p
  BY DEF Context
<1>2. publisher[p] \in Records(deliveryTag)
  BY <1>1, RecordsAre DEF IInv
<1>3. publisher[p].left \in Nat
  BY <1>2, PublisherConfirmsAssumption DEF Records
<1>4. Active(p) => publisher[p].tag = deliveryTag /\ publisher[p].left > 0
  BY <1>1 DEF IInv, TagsAreOwn
<1>5. deliveryTag \in Nat
  BY <1>1 DEF IInv, WireOK
<1>6. None # "NotFound" /\ None # STE
  BY PublisherConfirmsAssumption DEF STE
<1>7. transport = "open" /\ manager \in Managers
  BY <1>1, InvariantManager DEF AInv
<1>8. Message(p) \in Messages
  BY <1>3 DEF Message, Messages
<1> QED BY <1>2, <1>3, <1>4, <1>5, <1>6, <1>7, <1>8

\* What the actions of publish find.
LEMMA PcIs ==
    ASSUME NEW p \in Publisher, Where(p)
    PROVE  /\ publisher[p].pc = "idle" => Resting(p) /\ manager.exception = None
           /\ publisher[p].pc = "waiting" =>
                 (Waiting(p) /\ manager.exception = None) \/ Stuck(p)
           /\ publisher[p].pc = "opening" => Reopening(p) /\ manager.exception = None
           /\ publisher[p].pc = "raising" => Raising(p) /\ manager.exception = None
           /\ publisher[p].pc # "tagged"
BY DEF Where, Resting, Waiting, Reopening, Raising, Stuck

---------------------------------------------------------------------------
(* The steps of publish *)

\* A step that leaves the message where it is: its publisher, the wires and the
\* broker stay, and of the manager only the callbacks go on.
LEMMA WhereStays ==
    ASSUME NEW p \in Publisher, Where(p),
           UNCHANGED <<publisher, confirms, session, inbox, outbox, broker>>,
           manager'.state = manager.state, manager'.exception = manager.exception,
           manager'.waits = manager.waits, SM!Pending(manager') = SM!Pending(manager)
    PROVE  Where(p)'
<1>1. UNCHANGED <<publisher, deliveryTag, tags, lastError, channelOpen, returned, inbox,
                  outbox, broker>>
  BY DEF confirms, session
<1>2. /\ Message(p)' = Message(p) /\ LastMessage(p)' = LastMessage(p)
      /\ \A verdict : Said(p, verdict)' <=> Said(p, verdict)
      /\ Reported(p)' <=> Reported(p)
      /\ Failing(p)' <=> Failing(p)
      /\ NothingMoves' <=> NothingMoves
      /\ NoEvents' <=> NoEvents
  BY <1>1 DEF Message, LastMessage, Said, Reported, Failing, NothingMoves, NoEvents
<1>3. Resting(p) => Resting(p)'
  BY <1>1, <1>2 DEF Resting, EndedRight
<1>4. Published(p) => Published(p)'
  BY <1>1, <1>2 DEF Published
<1>5. Routed(p) => Routed(p)'
  BY <1>1, <1>2 DEF Routed, Rests, Returning, ReturnThen, HeaderThen, BodyThen
<1>6. (Confirmed(p) => Confirmed(p)') /\ (Missing(p) => Missing(p)')
  BY <1>1, <1>2 DEF Confirmed, Missing
<1>7. (Refused(p) => Refused(p)') /\ (Raising(p) => Raising(p)')
  BY <1>1, <1>2 DEF Refused, Raising
<1>8. Waiting(p) => Waiting(p)'
  BY <1>1, <1>4, <1>5, <1>6, <1>7 DEF Waiting
<1>9. (Reopening(p) => Reopening(p)') /\ (Stuck(p) => Stuck(p)')
  BY <1>1, <1>2 DEF Reopening, Stuck
<1> QED BY <1>3, <1>7, <1>8, <1>9 DEF Where

LEMMA AloneRunReady ==
    ASSUME NEW p \in Publisher, Context(p), RunReady
    PROVE  AInv(p)'
<1>1. manager \in Managers
  BY FactsAre
<1>2. /\ manager' = SM!RunCallbacks(manager) /\ manager.ready # <<>>
      /\ UNCHANGED <<publisher, confirms, session, inbox, outbox, broker>>
  BY DEF RunReady
<1>3. /\ manager'.state = manager.state /\ manager'.exception = manager.exception
      /\ manager'.waits = manager.waits /\ SM!Pending(manager') = SM!Pending(manager)
  BY <1>1, <1>2, RunCallbacksIs
<1>4. Where(p)'
  BY <1>2, <1>3, WhereStays DEF Context, AInv
<1> QED BY <1>2, <1>4 DEF Context, AInv, Later, Active, confirms, session

LEMMA AlonePublish ==
    ASSUME NEW p \in Publisher, Context(p), Publish(p)
    PROVE  AInv(p)'
<1> DEFINE tag == deliveryTag + 1
           states == SettledStates \cup {"CHANNEL_CLOSE_RECEIVED"}
           entered == Enter(manager, "MESSAGE_PUBLISHED")
           registered == SM!Register(entered, p, states)
<1>1. /\ publisher[p].pc = "idle" /\ publisher[p].left > 0
      /\ deliveryTag' = tag /\ tags' = With(tags, tag, FALSE)
      /\ UNCHANGED <<results, session, inbox, broker>>
  BY DEF Publish
<1>2. /\ Resting(p) /\ manager.exception = None /\ manager \in Managers
      /\ transport = "open" /\ publisher[p] \in Records(deliveryTag)
      /\ publisher[p].left \in Nat /\ deliveryTag \in Nat
  BY <1>1, FactsAre, PcIs DEF Context, AInv
<1>3. /\ ~ SM!Refuses(manager, "MESSAGE_PUBLISHED", None)
      /\ entered \in Managers
      /\ entered.state = "MESSAGE_PUBLISHED" /\ entered.exception = None
      /\ entered.waits = {} /\ SM!Pending(entered) = {}
  <2>1. /\ "MESSAGE_PUBLISHED" \in ClientState
        /\ "MESSAGE_PUBLISHED" \in ClientTransitions[manager.state]
        /\ "MESSAGE_PUBLISHED" # manager.state
    BY <1>2, StatesAre, Allowed DEF Resting, RestStates
  <2>2. manager.waits = {} /\ SM!Pending(manager) = {}
    BY <1>2 DEF Resting, NoEvents
  <2> HIDE DEF entered
  <2>3. /\ ~ SM!Refuses(manager, "MESSAGE_PUBLISHED", None) /\ entered \in Managers
        /\ entered.state = "MESSAGE_PUBLISHED" /\ entered.exception = None
        /\ entered.waits = manager.waits
        /\ SM!Pending(entered)
              = SM!Pending(manager) \cup {e \in manager.waits : e[1] = "MESSAGE_PUBLISHED"}
    BY <1>2, <2>1, EnterIs DEF entered
  <2> QED BY <2>2, <2>3
<1>4. /\ manager' = registered
      /\ publisher' = [publisher EXCEPT ![p].pc = "waiting", ![p].tag = tag]
  BY <1>3 DEF Publish
<1>5. /\ manager'.state = "MESSAGE_PUBLISHED" /\ manager'.exception = None
      /\ manager'.waits = states \X {p} /\ SM!Pending(manager') = {}
  <2> HIDE DEF entered, states
  <2>1. /\ registered.state = entered.state /\ registered.exception = entered.exception
        /\ registered.waits = entered.waits \cup (states \X {p})
        /\ SM!Pending(registered) = SM!Pending(entered)
    BY <1>3, RegisterIs
  <2> HIDE DEF registered
  <2> QED BY <1>3, <1>4, <2>1
<1>6. /\ publisher'[p].pc = "waiting" /\ publisher'[p].left = publisher[p].left
  <2>1. publisher \in [Publisher -> Records(deliveryTag)]
    BY RecordsAre DEF Context, IInv
  <2>2. p \in DOMAIN publisher
    BY <2>1
  <2>3. publisher'[p] = [publisher[p] EXCEPT !.pc = "waiting", !.tag = tag]
    BY <1>4, <2>2
  <2> QED BY <1>2, <2>3 DEF Records
<1>7. DOMAIN tags' = {tag} /\ ~ tags'[tag]
  <2>1. DOMAIN tags = {}
    BY <1>1 DEF Context, AInv
  <2> QED BY <1>1, <2>1 DEF With
<1>8. \E body \in Bodies :
         outbox' = <<[type |-> "Publish", by |-> Message(p), body |-> body]>>
  <2>1. PICK body \in Bodies :
           Write(<<[type |-> "Publish", by |-> Message(p), body |-> body]>>)
    BY DEF Publish
  <2>2. outbox = <<>>
    BY <1>2 DEF Resting, NothingMoves
  <2>3. outbox' = outbox \o <<[type |-> "Publish", by |-> Message(p), body |-> body]>>
    BY <1>2, <2>1 DEF Write
  <2> QED BY <2>2, <2>3, ShortSequences
<1>9. Message(p)' = Message(p) /\ broker' = broker
  BY <1>1, <1>6 DEF Message
<1>10. \A verdict \in Judgements : ~ Said(p, verdict)
  BY <1>1, <1>2 DEF Context, AInv, Later, Said, Message, Active
<1>11. Published(p)'
  <2>1. \A verdict \in Judgements : ~ Said(p, verdict)'
    BY <1>9, <1>10 DEF Said
  <2> QED BY <1>1, <1>2, <1>5, <1>7, <1>8, <1>9, <2>1
          DEF Published, Resting, NothingMoves, session
<1>12. Waiting(p)'
  BY <1>1, <1>2, <1>5, <1>6, <1>11 DEF Waiting, Resting, session
<1>13. Later(p)'
  BY <1>6, <1>9 DEF Context, AInv, Later, Active
<1> QED BY <1>1, <1>5, <1>6, <1>7, <1>12, <1>13 DEF Context, AInv, Where, session

\* An event that is set was pending.
LEMMA SetIsPending ==
    ASSUME NEW m \in Managers, NEW p \in Publisher, NEW args, NEW state,
           SM!PollReturns(m, p, args, state)
    PROVE  <<state, p>> \in SM!Pending(m) /\ m.exception = None
BY ManagerIs DEF SM!PollReturns, SM!IsSet

\* The publish that ends rests, when the broker said what it ends with.
LEMMA EndRests ==
    ASSUME NEW p \in Publisher, Context(p), Active(p),
           NEW result \in Results, End(p, result),
           result = "NotFound" <=> Said(p, "NotFound"),
           result \in {"ack", "nack"} => Reported(p),
           deliveryTag' = deliveryTag, tags' = Without(tags, publisher[p].tag),
           manager'.state \in RestStates, manager'.exception = None, NoEvents',
           NothingMoves, broker.unsettled = {}, channelOpen, lastError' = None,
           UNCHANGED <<channelOpen, failed, returned, transport, inbox, outbox, broker>>
    PROVE  AInv(p)'
<1>1. /\ publisher[p].left \in Nat /\ publisher[p].left > 0 /\ TypeOK
      /\ publisher[p].tag = deliveryTag
  BY FactsAre DEF Context, IInv
<1>2. /\ publisher'[p].pc = "idle" /\ publisher'[p].result = result
      /\ publisher'[p].left = publisher[p].left - 1
  BY <1>1, EndAlters DEF Alters
<1>3. LastMessage(p)' = Message(p)
  BY <1>1, <1>2 DEF LastMessage, Message
<1>4. EndedRight(p)'
  BY <1>2, <1>3 DEF EndedRight, Said, Reported
<1>5. Resting(p)'
  BY <1>2, <1>4 DEF Resting, NothingMoves
<1>6. DOMAIN tags' = {}
  BY <1>1 DEF Context, AInv, Active, Without
<1>7. Later(p)'
  <2>1. \A said \in broker.verdict : said[1][2] >= publisher[p].left
    BY DEF Context, AInv, Later
  <2>2. \A said \in broker.verdict : said[1][2] \in Nat
    BY DEF Context, IInv, WireOK, Messages
  <2> QED BY <1>1, <1>2, <2>1, <2>2 DEF Later
<1> QED BY <1>2, <1>5, <1>6, <1>7 DEF Context, AInv, Where

\* After the poll the manager has no events of its only waiter.
LEMMA PolledManager ==
    ASSUME NEW p \in Publisher, Context(p)
    PROVE  LET m == SM!AfterPoll(manager, p) IN
           /\ m \in Managers /\ m.state = manager.state /\ m.exception = None
           /\ m.waits = {} /\ SM!Pending(m) = {}
<1> DEFINE m == SM!AfterPoll(manager, p)
<1>1. manager \in Managers
  BY FactsAre
<1>2. /\ m \in Managers /\ m.state = manager.state /\ m.exception = None
      /\ m.waits = manager.waits \ SM!EventsOf(p)
      /\ SM!Pending(m) = SM!Pending(manager) \ SM!EventsOf(p)
  BY <1>1, AfterPollIs
<1>3. manager.waits \in Events /\ SM!Pending(manager) \in Events
  <2>1. manager.waits \in Events
    BY <1>1, ManagerIs
  <2> QED BY <2>1 DEF SM!Pending, SM!Event, Events
<1>4. Events = SUBSET SM!EventsOf(p)
  BY DEF Context, Events, SM!EventsOf
<1> HIDE DEF m, Events
<1>5. m.waits = {} /\ SM!Pending(m) = {}
  BY <1>2, <1>3, <1>4
<1> QED BY <1>2, <1>5 DEF m

LEMMA AlonePollSettled ==
    ASSUME NEW p \in Publisher, Context(p), PollSettled(p)
    PROVE  AInv(p)'
<1>1. /\ publisher[p].pc = "waiting" /\ manager' = SM!AfterPoll(manager, p)
      /\ UNCHANGED <<session, inbox, outbox, broker>>
      /\ manager \in Managers
  BY FactsAre DEF PollSettled
<1>2. PICK state \in SettledStates : <<state, p>> \in SM!Pending(manager)
                                     /\ manager.exception = None
  BY <1>1, SetIsPending DEF PollSettled
<1>3. Waiting(p)
  BY <1>1, <1>2, PcIs DEF Context, AInv, Stuck
<1>4. state # "CHANNEL_CLOSE_RECEIVED"
  BY DEF SettledStates
<1>5. Confirmed(p) /\ channelOpen /\ lastError = None
  BY <1>2, <1>3, <1>4 DEF Waiting, Published, Routed, Missing, Refused
<1>6. /\ manager'.state = manager.state /\ manager'.exception = None
      /\ manager'.waits = {} /\ SM!Pending(manager') = {}
  BY <1>1, PolledManager
<1>7. Active(p) /\ publisher[p].tag = deliveryTag
  BY <1>1, FactsAre DEF Active
<1>8. Take(p)
  BY <1>5, <1>7 DEF PollSettled, Confirmed
<1> DEFINE result == results[publisher[p].tag]
<1>9. result \in {"ack", "nack"}
  <2>1. publisher[p].tag \in DOMAIN tags /\ tags[publisher[p].tag]
    BY <1>1, <1>7, <1>8 DEF Take, Context, AInv
  <2>2. publisher[p].tag \in DOMAIN results
    BY <2>1 DEF Context, IInv, TypeOK
  <2> QED BY <2>2 DEF Context, IInv, WireOK
<1>10. /\ End(p, result) /\ deliveryTag' = deliveryTag
       /\ tags' = Without(tags, publisher[p].tag)
  BY <1>8 DEF Take
<1> HIDE DEF result
<1>11. /\ result \in Results /\ result # "NotFound" /\ ~ Said(p, "NotFound")
       /\ Reported(p) /\ NothingMoves /\ broker.unsettled = {}
       /\ manager'.state \in RestStates
  BY <1>5, <1>6, <1>9 DEF Results, Confirmed, RestStates
<1>12. NoEvents'
  BY <1>6 DEF NoEvents
<1>13. UNCHANGED <<channelOpen, lastError, failed, returned, transport, inbox, outbox, broker>>
  BY <1>1 DEF session
<1> QED BY <1>5, <1>6, <1>7, <1>10, <1>11, <1>12, <1>13, EndRests

LEMMA AlonePollRaises ==
    ASSUME NEW p \in Publisher, Context(p), PollRaises(p)
    PROVE  AInv(p)'
<1>1. /\ publisher[p].pc = "waiting" /\ manager.exception # None
      /\ Goes(p, "reconnecting")
      /\ UNCHANGED <<confirms, session, inbox, outbox, broker>>
  BY DEF PollRaises, SM!PollRaises
<1>2. Stuck(p)
  BY <1>1, PcIs DEF Context, AInv
<1>3. publisher'[p].pc = "reconnecting" /\ publisher'[p].left = publisher[p].left
  BY <1>1, GoesAlters DEF Context, IInv, Pcs, Alters
<1>4. Stuck(p)' /\ Later(p)'
  BY <1>1, <1>2, <1>3 DEF Stuck, NothingMoves, Context, AInv, Later, Active
<1> QED BY <1>1, <1>3, <1>4 DEF Context, AInv, Where, confirms, session

LEMMA AlonePollClosedTaken ==
    ASSUME NEW p \in Publisher, Context(p), PollClosedTaken(p)
    PROVE  FALSE
<1>1. /\ publisher[p].pc = "waiting" /\ lastError = None /\ manager \in Managers
      /\ <<"CHANNEL_CLOSE_RECEIVED", p>> \in SM!Pending(manager)
      /\ manager.exception = None
  BY FactsAre, SetIsPending DEF PollClosedTaken
<1>2. Waiting(p)
  BY <1>1, PcIs DEF Context, AInv, Stuck
<1>3. Refused(p)
  BY <1>1, <1>2 DEF Waiting, Published, Routed, Missing, Confirmed
<1> QED BY <1>1, <1>3, FactsAre DEF Refused, Failing

LEMMA AloneRaiseClosed ==
    ASSUME NEW p \in Publisher, Context(p), RaiseClosed(p)
    PROVE  AInv(p)'
<1>1. Raising(p) /\ manager.exception = None /\ Active(p)
  BY PcIs DEF RaiseClosed, Context, AInv, Active
<1>2. /\ End(p, "NotFound") /\ lastError' = None
      /\ tags' = Without(tags, publisher[p].tag)
      /\ UNCHANGED <<manager, deliveryTag, channelOpen, failed, returned, transport,
                     inbox, outbox, broker>>
  BY <1>1, FactsAre DEF RaiseClosed, Raising
<1>3. "NotFound" \in Results /\ Said(p, "NotFound")
  BY <1>1 DEF Results, Raising
<1>4. /\ manager'.state \in RestStates /\ manager'.exception = None /\ NoEvents'
      /\ NothingMoves /\ broker.unsettled = {} /\ channelOpen
  BY <1>1, <1>2 DEF Raising, RestStates, NoEvents
<1> QED BY <1>1, <1>2, <1>3, <1>4, EndRests

LEMMA AlonePollClosed ==
    ASSUME NEW p \in Publisher, Context(p), PollClosed(p)
    PROVE  AInv(p)'
<1> DEFINE m == SM!AfterPoll(manager, p)
           first == Enter(m, "OPENING_CHANNEL")
           second == Enter(first, "CHANNEL_OPEN_SENT")
<1>1. /\ publisher[p].pc = "waiting" /\ manager \in Managers
      /\ <<"CHANNEL_CLOSE_RECEIVED", p>> \in SM!Pending(manager)
      /\ manager.exception = None /\ transport = "open"
      /\ UNCHANGED <<confirms, session, inbox, broker>>
  BY FactsAre, SetIsPending DEF PollClosed
<1>2. Refused(p)
  <2>1. Waiting(p)
    BY <1>1, PcIs DEF Context, AInv, Stuck
  <2>2. "CHANNEL_CLOSE_RECEIVED" \notin {"BASIC_ACK_RECEIVED", "BASIC_NACK_RECEIVED"}
    OBVIOUS
  <2> QED BY <1>1, <2>1, <2>2 DEF Waiting, Published, Routed, Missing, Confirmed
<1>3. /\ m \in Managers /\ m.state = "CHANNEL_CLOSEOK_SENT" /\ m.exception = None
      /\ m.waits = {} /\ SM!Pending(m) = {}
  BY <1>2, PolledManager DEF Refused
<1>4. /\ ~ SM!Refuses(m, "OPENING_CHANNEL", None) /\ first \in Managers
      /\ first.state = "OPENING_CHANNEL" /\ first.exception = None
      /\ first.waits = {} /\ SM!Pending(first) = {}
  <2>1. "OPENING_CHANNEL" \in ClientState /\ "OPENING_CHANNEL" \in ClientTransitions[m.state]
    BY <1>3, StatesAre, Allowed
  <2> HIDE DEF m, first
  <2>2. /\ ~ SM!Refuses(m, "OPENING_CHANNEL", None) /\ first \in Managers
        /\ first.state = "OPENING_CHANNEL" /\ first.exception = None
        /\ first.waits = m.waits
        /\ SM!Pending(first) = SM!Pending(m) \cup {e \in m.waits : e[1] = "OPENING_CHANNEL"}
    BY <1>3, <2>1, EnterIs DEF first
  <2> QED BY <1>3, <2>2
<1>5. /\ second.state = "CHANNEL_OPEN_SENT" /\ second.exception = None
      /\ second.waits = {} /\ SM!Pending(second) = {}
  <2>1. /\ "CHANNEL_OPEN_SENT" \in ClientState
        /\ "CHANNEL_OPEN_SENT" \in ClientTransitions[first.state]
    BY <1>4, StatesAre, Allowed
  <2> HIDE DEF first, second
  <2>2. /\ second.state = "CHANNEL_OPEN_SENT" /\ second.exception = None
        /\ second.waits = first.waits
        /\ SM!Pending(second)
              = SM!Pending(first) \cup {e \in first.waits : e[1] = "CHANNEL_OPEN_SENT"}
    BY <1>4, <2>1, EnterIs DEF second
  <2> QED BY <1>4, <2>2
<1>6. manager' = second /\ Write(<<OpenFrame>>) /\ Goes(p, "opening")
  BY <1>2, <1>4 DEF PollClosed, Refused, Failing, OpenFrame
<1> HIDE DEF m, first, second
<1>7. publisher'[p].pc = "opening" /\ publisher'[p].left = publisher[p].left
  BY <1>6, GoesAlters DEF Context, IInv, Pcs, Alters
<1>8. UNCHANGED <<deliveryTag, tags, lastError, channelOpen, failed, transport, inbox, broker>>
  BY <1>1 DEF confirms, session
<1>9. Failing(p)' /\ NoEvents'
  BY <1>2, <1>5, <1>6, <1>7, <1>8 DEF Refused, Failing, Said, Message, NoEvents
<1>10. outbox' = outbox \o <<OpenFrame>>
  BY <1>1, <1>6 DEF Write
<1>11. \/ outbox' = <<CloseOkFrame, OpenFrame>> /\ broker.phase = "closing"
       \/ outbox' = <<OpenFrame>> /\ broker.phase = "closed"
  <2>1. CASE outbox = <<CloseOkFrame>> /\ broker.phase = "closing"
    BY <1>10, <2>1, PairsAre
  <2>2. CASE outbox = <<>> /\ broker.phase = "closed"
    BY <1>10, <2>2, ShortSequences
  <2> QED BY <1>2, <2>1, <2>2 DEF Refused
<1>12. Reopening(p)'
  BY <1>2, <1>5, <1>6, <1>7, <1>8, <1>9, <1>11 DEF Reopening, Refused
<1>13. Later(p)'
  BY <1>1, <1>7, <1>8 DEF Context, AInv, Later, Active
<1> QED BY <1>1, <1>5, <1>6, <1>7, <1>8, <1>12, <1>13 DEF Context, AInv, Where

---------------------------------------------------------------------------
(* The frames that come to the client *)

\* What is left of a returned message is a sequence of frames.
LEMMA PartsAre ==
    ASSUME NEW p \in Publisher, Context(p), NEW body, NEW rest \in Rests
    PROVE  /\ rest \in Seq(InFrame) /\ BodyThen(p, body, rest) \in Seq(InFrame)
           /\ HeaderThen(p, body, rest) \in Seq(InFrame)
           /\ [type |-> "Return"] \in InFrame /\ [type |-> "Header"] \in InFrame
           /\ [type |-> "Body", by |-> Message(p)] \in InFrame
<1>1. /\ [type |-> "Return"] \in InFrame /\ [type |-> "Header"] \in InFrame
      /\ [type |-> "Body", by |-> Message(p)] \in InFrame
      /\ \A verdict \in {"ack", "nack"} : [type |-> verdict, tag |-> deliveryTag] \in InFrame
  BY FactsAre DEF InFrame
<1> HIDE DEF InFrame
<1>2. rest \in Seq(InFrame)
  <2>1. CASE rest = <<>>
    BY <2>1
  <2>2. CASE \E verdict \in {"ack", "nack"} : rest = <<[type |-> verdict, tag |-> deliveryTag]>>
    <3>1. PICK verdict \in {"ack", "nack"} : rest = <<[type |-> verdict, tag |-> deliveryTag]>>
      BY <2>2
    <3> DEFINE f == [type |-> verdict, tag |-> deliveryTag]
    <3>2. f \in InFrame /\ rest = <<f>>
      BY <1>1, <3>1
    <3> HIDE DEF f
    <3> QED BY <3>2
  <2> QED BY <2>1, <2>2 DEF Rests
<1>3. BodyThen(p, body, rest) \in Seq(InFrame)
  BY <1>1, <1>2, FirstIs DEF BodyThen
<1>4. HeaderThen(p, body, rest) \in Seq(InFrame)
  BY <1>1, <1>3, FirstIs DEF HeaderThen
<1> QED BY <1>1, <1>2, <1>3, <1>4

\* The frame that comes first, where some of a message is to come.
LEMMA TakesReturning ==
    ASSUME NEW p \in Publisher, Context(p), NEW type, Takes(type),
           NEW rest \in Rests, Returning(p, rest)
    PROVE  \/ /\ manager.state \in {"MESSAGE_PUBLISHED", "MESSAGE_ASSEMBLED"} /\ Reported(p)
              /\ inbox = rest
           \/ \E body \in Bodies :
                 \/ /\ manager.state = "MESSAGE_PUBLISHED" /\ type = "Return"
                    /\ inbox' = HeaderThen(p, body, rest)
                 \/ /\ manager.state = "BASIC_RETURN_RECEIVED" /\ type = "Header"
                    /\ inbox' = BodyThen(p, body, rest)
                 \/ /\ manager.state = "CONTENT_HEADER_RECEIVED" /\ type = "Body"
                    /\ Head(inbox).by = Message(p) /\ inbox' = rest
                 \/ /\ manager.state = "CONTENT_HEADER_RECEIVED" /\ body = "empty"
                    /\ inbox = rest
<1>1. Head(inbox).type = type /\ inbox' = Tail(inbox)
  BY DEF Takes
<1> SUFFICES ASSUME NEW body \in Bodies,
                    \/ /\ manager.state = "MESSAGE_PUBLISHED"
                       /\ inbox = ReturnThen(p, body, rest)
                    \/ /\ manager.state = "BASIC_RETURN_RECEIVED"
                       /\ inbox = HeaderThen(p, body, rest)
                    \/ /\ manager.state = "CONTENT_HEADER_RECEIVED"
                       /\ inbox = BodyThen(p, body, rest)
             PROVE  \/ /\ manager.state = "MESSAGE_PUBLISHED" /\ type = "Return"
                       /\ inbox' = HeaderThen(p, body, rest)
                    \/ /\ manager.state = "BASIC_RETURN_RECEIVED" /\ type = "Header"
                       /\ inbox' = BodyThen(p, body, rest)
                    \/ /\ manager.state = "CONTENT_HEADER_RECEIVED" /\ type = "Body"
                       /\ Head(inbox).by = Message(p) /\ inbox' = rest
                    \/ /\ manager.state = "CONTENT_HEADER_RECEIVED" /\ body = "empty"
                       /\ inbox = rest
  BY DEF Returning
<1>2. CASE manager.state = "MESSAGE_PUBLISHED" /\ inbox = ReturnThen(p, body, rest)
  <2> DEFINE f == [type |-> "Return"]
             s == HeaderThen(p, body, rest)
  <2>1. f \in InFrame /\ s \in Seq(InFrame) /\ inbox = <<f>> \o s /\ f.type = "Return"
    BY <1>2, PartsAre DEF ReturnThen
  <2> HIDE DEF f, s, InFrame
  <2>2. Head(inbox) = f /\ Tail(inbox) = s
    BY <2>1, FirstIs
  <2> QED BY <1>1, <1>2, <2>1, <2>2 DEF s
<1>3. CASE manager.state = "BASIC_RETURN_RECEIVED" /\ inbox = HeaderThen(p, body, rest)
  <2> DEFINE f == [type |-> "Header"]
             s == BodyThen(p, body, rest)
  <2>1. f \in InFrame /\ s \in Seq(InFrame) /\ inbox = <<f>> \o s /\ f.type = "Header"
    BY <1>3, PartsAre DEF HeaderThen
  <2> HIDE DEF f, s, InFrame
  <2>2. Head(inbox) = f /\ Tail(inbox) = s
    BY <2>1, FirstIs
  <2> QED BY <1>1, <1>3, <2>1, <2>2 DEF s
<1>4. CASE manager.state = "CONTENT_HEADER_RECEIVED" /\ inbox = BodyThen(p, body, rest)
  <2>1. CASE body = "empty"
    BY <1>4, <2>1 DEF BodyThen
  <2>2. CASE body # "empty"
    <3> DEFINE f == [type |-> "Body", by |-> Message(p)]
    <3>1. /\ f \in InFrame /\ rest \in Seq(InFrame) /\ inbox = <<f>> \o rest
          /\ f.type = "Body" /\ f.by = Message(p)
      BY <1>4, <2>2, PartsAre DEF BodyThen
    <3> HIDE DEF f, InFrame
    <3>2. Head(inbox) = f /\ Tail(inbox) = rest
      BY <3>1, FirstIs
    <3> QED BY <1>1, <1>4, <3>1, <3>2
  <2> QED BY <2>1, <2>2
<1> QED BY <1>2, <1>3, <1>4

LEMMA TakesSettled ==
    ASSUME NEW rest \in Rests, inbox = rest, NEW type, Takes(type)
    PROVE  /\ type \in {"ack", "nack"} /\ Head(inbox).tag = deliveryTag
           /\ inbox' = <<>> /\ rest # <<>>
<1>1. inbox # <<>> /\ Head(inbox).type = type /\ inbox' = Tail(inbox)
  BY DEF Takes
<1>2. PICK verdict \in {"ack", "nack"} : rest = <<[type |-> verdict, tag |-> deliveryTag]>>
  BY <1>1 DEF Rests
<1> DEFINE f == [type |-> verdict, tag |-> deliveryTag]
<1>3. f.type = verdict /\ f.tag = deliveryTag /\ inbox = <<f>>
  BY <1>2
<1> HIDE DEF f
<1>4. Head(inbox) = f /\ Tail(inbox) = <<>>
  BY <1>3, ShortSequences
<1> QED BY <1>1, <1>3, <1>4

LEMMA TakesOnly ==
    ASSUME NEW f, inbox = <<f>>, NEW type, Takes(type)
    PROVE  f.type = type /\ Head(inbox) = f /\ inbox' = <<>>
BY ShortSequences DEF Takes

\* Where publish is when a frame comes.
LEMMA TakesWhere ==
    ASSUME NEW p \in Publisher, Context(p), NEW type, Takes(type)
    PROVE  /\ manager.exception = None
           /\ \/ publisher[p].pc = "waiting" /\ Waiting(p) /\ Routed(p)
                 /\ channelOpen /\ lastError = None
                 /\ type \in {"Return", "Header", "Body", "ack", "nack"}
              \/ publisher[p].pc = "waiting" /\ Waiting(p) /\ Missing(p)
                 /\ channelOpen /\ lastError = None
                 /\ type = "Channel.Close" /\ inbox' = <<>>
              \/ Reopening(p) /\ type = "Channel.OpenOk" /\ inbox' = <<>>
<1>1. inbox # <<>> /\ AInv(p)
  BY DEF Takes, Context
<1>2. /\ manager.exception = None
      /\ \/ Waiting(p) /\ (Routed(p) \/ Missing(p)) /\ channelOpen /\ lastError = None
         \/ Reopening(p) /\ inbox = <<[type |-> "Channel.OpenOk"]>>
  BY <1>1 DEF AInv, Where, Resting, Raising, Stuck, NothingMoves, Waiting, Published,
              Confirmed, Refused, Reopening
<1>3. CASE Reopening(p) /\ inbox = <<[type |-> "Channel.OpenOk"]>>
  <2>1. type = [type |-> "Channel.OpenOk"].type /\ inbox' = <<>>
    BY <1>3, TakesOnly
  <2> QED BY <1>2, <1>3, <2>1
<1>4. CASE Waiting(p) /\ Missing(p) /\ channelOpen /\ lastError = None
  <2>1. type = [type |-> "Channel.Close"].type /\ inbox' = <<>>
    BY <1>4, TakesOnly DEF Missing
  <2> QED BY <1>2, <1>4, <2>1 DEF Waiting
<1>5. CASE Waiting(p) /\ Routed(p) /\ channelOpen /\ lastError = None
  <2>1. PICK rest \in Rests : Returning(p, rest)
    BY <1>5 DEF Routed
  <2>2. inbox = rest => type \in {"ack", "nack"}
    BY TakesSettled
  <2>3. type \in {"Return", "Header", "Body", "ack", "nack"}
    BY <2>1, <2>2, TakesReturning
  <2> QED BY <1>2, <1>5, <2>3 DEF Waiting
<1> QED BY <1>2, <1>3, <1>4, <1>5

\* The events publish waits for, and how the client enters a state meanwhile.
WaitStates == SettledStates \cup {"CHANNEL_CLOSE_RECEIVED"}

LEMMA EnterWaiting ==
    ASSUME NEW p \in Publisher, NEW m \in Managers, m.waits = WaitStates \X {p},
           m.exception = None, NEW value \in ClientState,
           value # m.state, value \in ClientTransitions[m.state]
    PROVE  LET n == Enter(m, value) IN
           /\ n \in Managers /\ n.state = value /\ n.exception = None
           /\ n.waits = WaitStates \X {p} /\ ~ SM!Refuses(m, value, None)
           /\ SM!Pending(n) = SM!Pending(m)
                                 \cup IF value \in WaitStates THEN {<<value, p>>} ELSE {}
<1> DEFINE n == Enter(m, value)
<1>1. /\ n \in Managers /\ n.state = value /\ n.exception = None
      /\ n.waits = m.waits /\ ~ SM!Refuses(m, value, None)
      /\ SM!Pending(n) = SM!Pending(m) \cup {e \in m.waits : e[1] = value}
  BY EnterIs
<1> HIDE DEF n
<1>2. {e \in WaitStates \X {p} : e[1] = value}
          = IF value \in WaitStates THEN {<<value, p>>} ELSE {}
  <2> HIDE DEF WaitStates
  <2> QED OBVIOUS
<1> QED BY <1>1, <1>2 DEF n

\* A part of the returned message has come.
LEMMA RoutedOn ==
    ASSUME NEW p \in Publisher, Context(p), Routed(p), publisher[p].pc = "waiting",
           channelOpen, lastError = None,
           UNCHANGED <<publisher, confirms, lastError, channelOpen, transport, outbox, broker>>,
           manager'.waits = WaitStates \X {p}, manager'.exception = None,
           SM!Pending(manager') = {}, failed' => failed \/ ~ OnReturn,
           NEW rest \in Rests, rest # <<>> => broker.unsettled = {}, Returning(p, rest)'
    PROVE  AInv(p)'
<1>1. UNCHANGED <<deliveryTag, tags>>
  BY DEF confirms
<1>2. Message(p)' = Message(p) /\ Rests' = Rests
  BY <1>1 DEF Message, Rests
<1>3. Routed(p)'
  BY <1>1, <1>2 DEF Routed, Said
<1>4. Waiting(p)'
  BY <1>3 DEF Waiting, WaitStates
<1> QED BY <1>1, <1>4 DEF Context, AInv, Where, Later, Active

LEMMA AloneReceiveContent ==
    ASSUME NEW p \in Publisher, Context(p), NEW type, NEW state,
           \/ type = "Return" /\ state = "BASIC_RETURN_RECEIVED"
           \/ type = "Header" /\ state = "CONTENT_HEADER_RECEIVED",
           ReceiveContent(type, state)
    PROVE  AInv(p)'
<1>1. /\ Takes(type) /\ Receives(state)
      /\ UNCHANGED <<publisher, confirms, lastError, channelOpen, returned, transport,
                     outbox, broker>>
  BY DEF ReceiveContent
<1>2. /\ publisher[p].pc = "waiting" /\ Waiting(p) /\ Routed(p)
      /\ channelOpen /\ lastError = None /\ manager.exception = None
      /\ manager \in Managers /\ manager.waits = WaitStates \X {p}
  BY <1>1, TakesWhere, FactsAre DEF Waiting, WaitStates
<1>3. PICK rest \in Rests : Returning(p, rest) /\ (rest # <<>> => broker.unsettled = {})
  BY <1>2 DEF Routed
<1>4. inbox # rest
  BY <1>1, TakesSettled
<1>5. PICK body \in Bodies :
         \/ /\ manager.state = "MESSAGE_PUBLISHED" /\ type = "Return"
            /\ inbox' = HeaderThen(p, body, rest)
         \/ /\ manager.state = "BASIC_RETURN_RECEIVED" /\ type = "Header"
            /\ inbox' = BodyThen(p, body, rest)
  BY <1>1, <1>3, <1>4, TakesReturning
<1>6. /\ state \in ClientState /\ state # manager.state
      /\ state \in ClientTransitions[manager.state] /\ state \notin WaitStates
  <2>1. /\ "BASIC_RETURN_RECEIVED" \in ClientTransitions["MESSAGE_PUBLISHED"]
        /\ "CONTENT_HEADER_RECEIVED" \in ClientTransitions["BASIC_RETURN_RECEIVED"]
    BY Allowed
  <2> QED BY <1>5, <2>1, StatesAre DEF WaitStates, SettledStates
<1>7. /\ manager' = Enter(manager, state)
      /\ failed' = (failed \/ SM!Refuses(manager, state, None))
  BY <1>1 DEF Receives
<1>8. /\ manager'.state = state /\ manager'.exception = None
      /\ manager'.waits = WaitStates \X {p} /\ SM!Pending(manager') = {} /\ failed' = failed
  <2>1. failed \in BOOLEAN
    BY SessionIs DEF Context
  <2>2. /\ manager'.state = state /\ manager'.exception = None
        /\ manager'.waits = WaitStates \X {p} /\ SM!Pending(manager') = {}
        /\ ~ SM!Refuses(manager, state, None)
    BY <1>2, <1>6, <1>7, EnterWaiting DEF Routed
  <2> QED BY <1>7, <2>1, <2>2
<1>9. Message(p)' = Message(p)
  BY <1>1 DEF Message
<1>10. Returning(p, rest)'
  BY <1>5, <1>8, <1>9 DEF Returning, HeaderThen, BodyThen
<1> QED BY <1>1, <1>2, <1>3, <1>8, <1>10, RoutedOn

LEMMA AloneReceiveBody ==
    ASSUME NEW p \in Publisher, Context(p), ReceiveBody
    PROVE  AInv(p)'
<1> DEFINE first == Enter(manager, "CONTENT_BODY_RECEIVED")
           second == Enter(first, "MESSAGE_ASSEMBLED")
<1>1. /\ Takes("Body")
      /\ UNCHANGED <<publisher, confirms, lastError, channelOpen, transport, outbox, broker>>
  BY DEF ReceiveBody
<1>2. /\ publisher[p].pc = "waiting" /\ Waiting(p) /\ Routed(p)
      /\ channelOpen /\ lastError = None /\ manager.exception = None
      /\ manager \in Managers /\ manager.waits = WaitStates \X {p}
  BY <1>1, TakesWhere, FactsAre DEF Waiting, WaitStates
<1>3. PICK rest \in Rests : Returning(p, rest) /\ (rest # <<>> => broker.unsettled = {})
  BY <1>2 DEF Routed
<1>4. inbox # rest
  BY <1>1, TakesSettled
<1>5. /\ manager.state = "CONTENT_HEADER_RECEIVED"
      /\ Head(inbox).by = Message(p) /\ inbox' = rest
  BY <1>1, <1>3, <1>4, TakesReturning
<1>6. /\ first \in Managers /\ first.state = "CONTENT_BODY_RECEIVED"
      /\ first.exception = None /\ first.waits = WaitStates \X {p}
      /\ SM!Pending(first) = {} /\ ~ SM!Refuses(manager, "CONTENT_BODY_RECEIVED", None)
  <2>1. /\ "CONTENT_BODY_RECEIVED" \in ClientState
        /\ "CONTENT_BODY_RECEIVED" \in ClientTransitions[manager.state]
        /\ "CONTENT_BODY_RECEIVED" # manager.state
        /\ "CONTENT_BODY_RECEIVED" \notin WaitStates
    BY <1>5, Allowed, StatesAre DEF WaitStates, SettledStates
  <2> QED BY <1>2, <2>1, EnterWaiting DEF Routed
<1> HIDE DEF first
<1>7. /\ second.state = "MESSAGE_ASSEMBLED" /\ second.exception = None
      /\ second.waits = WaitStates \X {p} /\ SM!Pending(second) = {}
  <2>1. /\ "MESSAGE_ASSEMBLED" \in ClientState
        /\ "MESSAGE_ASSEMBLED" \in ClientTransitions[first.state]
        /\ "MESSAGE_ASSEMBLED" # first.state /\ "MESSAGE_ASSEMBLED" \notin WaitStates
    BY <1>6, Allowed, StatesAre DEF WaitStates, SettledStates
  <2> QED BY <1>6, <2>1, EnterWaiting
<1>8. /\ manager' = second /\ failed' = (failed \/ ~ OnReturn)
      /\ returned' = IF ~ OnReturn THEN returned ELSE returned \cup {Head(inbox).by}
  BY <1>6 DEF ReceiveBody, first
<1> HIDE DEF second
<1>9. Message(p)' = Message(p)
  BY <1>1 DEF Message
<1>10. Reported(p)'
  BY <1>5, <1>8, <1>9 DEF Reported
<1>11. Returning(p, rest)'
  BY <1>5, <1>7, <1>8, <1>10 DEF Returning
<1> QED BY <1>1, <1>2, <1>3, <1>7, <1>8, <1>11, RoutedOn

LEMMA AloneReceiveSettled ==
    ASSUME NEW p \in Publisher, Context(p), NEW type \in {"ack", "nack"}, NEW state,
           state = IF type = "ack" THEN "BASIC_ACK_RECEIVED" ELSE "BASIC_NACK_RECEIVED",
           ReceiveSettled(type, state)
    PROVE  AInv(p)'
<1>1. /\ Takes(type) /\ Receives(state) /\ SetResult(Head(inbox).tag, type)
      /\ UNCHANGED <<publisher, deliveryTag, lastError, channelOpen, returned, transport,
                     outbox, broker>>
  BY DEF ReceiveSettled
<1>2. /\ publisher[p].pc = "waiting" /\ Waiting(p) /\ Routed(p)
      /\ channelOpen /\ lastError = None /\ manager.exception = None
      /\ manager \in Managers /\ manager.waits = WaitStates \X {p}
  BY <1>1, TakesWhere, FactsAre DEF Waiting, WaitStates
<1>3. PICK rest \in Rests : Returning(p, rest) /\ (rest # <<>> => broker.unsettled = {})
  BY <1>2 DEF Routed
<1>4. /\ inbox = rest
      /\ \/ manager.state \in {"MESSAGE_PUBLISHED", "MESSAGE_ASSEMBLED"} /\ Reported(p)
         \/ manager.state = "CONTENT_HEADER_RECEIVED" /\ "empty" \in Bodies
  BY <1>1, <1>3, TakesReturning
<1>5. Head(inbox).tag = deliveryTag /\ inbox' = <<>> /\ broker.unsettled = {}
  BY <1>1, <1>3, <1>4, TakesSettled
<1>6. DOMAIN tags' = {deliveryTag} /\ tags'[deliveryTag]
  <2>1. DOMAIN tags = {deliveryTag} /\ deliveryTag \in Nat
    BY <1>2, FactsAre DEF Context, AInv
  <2>2. tags' = [t \in DOMAIN tags |-> tags[t] \/ t <= deliveryTag]
    BY <1>1, <1>5 DEF SetResult
  <2>3. tags[deliveryTag] \in BOOLEAN /\ deliveryTag <= deliveryTag
    BY <2>1 DEF Context, IInv, WireOK
  <2> QED BY <2>1, <2>2, <2>3
<1>7. /\ manager' = Enter(manager, state)
      /\ failed' = (failed \/ SM!Refuses(manager, state, None))
  BY <1>1 DEF Receives
<1>8. state \in WaitStates /\ state \in ClientState
  BY StatesAre DEF WaitStates, SettledStates
<1>9. Message(p)' = Message(p)
  BY <1>1 DEF Message
<1>10. Later(p)' /\ transport' = "open"
  BY <1>1, FactsAre DEF Context, AInv, Later, Active
<1>11. NothingMoves'
  BY <1>1, <1>2, <1>5 DEF NothingMoves, Routed
<1>12. CASE manager.state \in {"MESSAGE_PUBLISHED", "MESSAGE_ASSEMBLED"} /\ Reported(p)
  <2>1. /\ state \in ClientTransitions[manager.state] /\ state # manager.state
    BY <1>12, Allowed
  <2>2. /\ manager'.state = state /\ manager'.exception = None
        /\ manager'.waits = WaitStates \X {p}
        /\ SM!Pending(manager') = {<<state, p>>} /\ failed' = failed
    <3>1. failed \in BOOLEAN
      BY SessionIs DEF Context
    <3>2. /\ manager'.state = state /\ manager'.exception = None
          /\ manager'.waits = WaitStates \X {p}
          /\ SM!Pending(manager') = SM!Pending(manager) \cup {<<state, p>>}
          /\ ~ SM!Refuses(manager, state, None)
      BY <1>2, <1>7, <1>8, <2>1, EnterWaiting
    <3> QED BY <1>2, <1>7, <3>1, <3>2 DEF Routed
  <2>3. Confirmed(p)'
    BY <1>1, <1>2, <1>5, <1>6, <1>9, <1>11, <1>12, <2>2
       DEF Confirmed, Routed, Reported, Said
  <2>4. Waiting(p)'
    BY <1>1, <1>2, <2>2, <2>3 DEF Waiting, WaitStates
  <2> QED BY <1>1, <1>2, <1>6, <1>10, <2>2, <2>4 DEF Context, AInv, Where
<1>13. CASE manager.state = "CONTENT_HEADER_RECEIVED" /\ "empty" \in Bodies
  <2>1. state \notin ClientTransitions[manager.state] /\ state # manager.state
        /\ state # "EXCEPTION"
    BY <1>13, Allowed
  <2>2. manager' = SM!Refuse(manager, STE)
    BY <1>7, <2>1 DEF Enter, SM!SetState, SM!Refuses, SM!Unchanged
  <2>3. manager'.exception = STE
    BY <1>2, <2>2, ManagersAre DEF SM!Refuse
  <2>4. Stuck(p)'
    BY <1>1, <1>2, <1>5, <1>11, <2>3, FactsAre DEF Stuck
  <2> QED BY <1>1, <1>2, <1>6, <1>10, <1>13, <2>4 DEF Context, AInv, Where
<1> QED BY <1>4, <1>12, <1>13

LEMMA AloneReceiveChannelClose ==
    ASSUME NEW p \in Publisher, Context(p), ReceiveChannelClose
    PROVE  AInv(p)'
<1> DEFINE first == Enter(manager, "CHANNEL_CLOSE_RECEIVED")
           second == Enter(first, "CHANNEL_CLOSEOK_SENT")
<1>1. Takes("Channel.Close") /\ UNCHANGED <<publisher, confirms, returned, transport, broker>>
  BY DEF ReceiveChannelClose
<1>2. /\ publisher[p].pc = "waiting" /\ Waiting(p) /\ Missing(p) /\ inbox' = <<>>
      /\ channelOpen /\ lastError = None /\ manager.exception = None
      /\ manager \in Managers /\ manager.waits = WaitStates \X {p} /\ transport = "open"
  BY <1>1, TakesWhere, FactsAre DEF Waiting, WaitStates
<1>3. /\ first \in Managers /\ first.state = "CHANNEL_CLOSE_RECEIVED"
      /\ first.exception = None /\ first.waits = WaitStates \X {p}
      /\ SM!Pending(first) = {<<"CHANNEL_CLOSE_RECEIVED", p>>}
      /\ ~ SM!Refuses(manager, "CHANNEL_CLOSE_RECEIVED", None)
  <2>1. /\ "CHANNEL_CLOSE_RECEIVED" \in ClientState
        /\ "CHANNEL_CLOSE_RECEIVED" \in ClientTransitions[manager.state]
        /\ "CHANNEL_CLOSE_RECEIVED" # manager.state
        /\ "CHANNEL_CLOSE_RECEIVED" \in WaitStates
    BY <1>2, Allowed, StatesAre DEF WaitStates, Missing
  <2> QED BY <1>2, <2>1, EnterWaiting DEF Missing
<1> HIDE DEF first
<1>4. /\ second.state = "CHANNEL_CLOSEOK_SENT" /\ second.exception = None
      /\ second.waits = WaitStates \X {p}
      /\ SM!Pending(second) = {<<"CHANNEL_CLOSE_RECEIVED", p>>}
  <2>1. /\ "CHANNEL_CLOSEOK_SENT" \in ClientState
        /\ "CHANNEL_CLOSEOK_SENT" \in ClientTransitions[first.state]
        /\ "CHANNEL_CLOSEOK_SENT" # first.state /\ "CHANNEL_CLOSEOK_SENT" \notin WaitStates
    BY <1>3, Allowed, StatesAre DEF WaitStates, SettledStates
  <2> QED BY <1>3, <2>1, EnterWaiting
<1>5. /\ manager' = second /\ Write(<<CloseOkFrame>>)
      /\ lastError' = "NotFound" /\ channelOpen' = FALSE /\ failed' = failed
  BY <1>3 DEF ReceiveChannelClose, first, CloseOkFrame
<1> HIDE DEF second
<1>6. outbox' = <<CloseOkFrame>>
  <2>1. outbox' = <<>> \o <<CloseOkFrame>>
    BY <1>2, <1>5 DEF Write, Missing
  <2> QED BY <2>1, ShortSequences
<1>7. Refused(p)'
  BY <1>1, <1>2, <1>4, <1>5, <1>6 DEF Refused, Failing, Missing, Said, Message
<1>8. Waiting(p)'
  BY <1>1, <1>2, <1>4, <1>5, <1>7 DEF Waiting, WaitStates
<1> QED BY <1>1, <1>2, <1>4, <1>5, <1>8 DEF Context, AInv, Where, Later, Active, confirms

LEMMA AloneReceiveChannelOpenOk ==
    ASSUME NEW p \in Publisher, Context(p), ReceiveChannelOpenOk
    PROVE  AInv(p)'
<1>1. /\ Takes("Channel.OpenOk") /\ Receives("CHANNEL_OPENOK_RECEIVED") /\ channelOpen' = TRUE
      /\ UNCHANGED <<confirms, lastError, returned, transport, outbox, broker>>
  BY DEF ReceiveChannelOpenOk
<1>2. /\ Reopening(p) /\ inbox' = <<>> /\ manager.exception = None
      /\ manager \in Managers /\ transport = "open" /\ publisher[p] \in Records(deliveryTag)
  BY <1>1, TakesWhere, FactsAre
<1>3. outbox = <<>> /\ broker.phase = "open" /\ broker.unsettled = {}
  BY <1>1, <1>2 DEF Reopening, Takes
<1>4. /\ ~ SM!Refuses(manager, "CHANNEL_OPENOK_RECEIVED", None)
      /\ manager'.state = "CHANNEL_OPENOK_RECEIVED" /\ manager'.exception = None
      /\ manager'.waits = {} /\ SM!Pending(manager') = {}
  <2> DEFINE n == Enter(manager, "CHANNEL_OPENOK_RECEIVED")
  <2>1. /\ "CHANNEL_OPENOK_RECEIVED" \in ClientState
        /\ "CHANNEL_OPENOK_RECEIVED" \in ClientTransitions[manager.state]
        /\ "CHANNEL_OPENOK_RECEIVED" # manager.state
    BY <1>2, StatesAre, Allowed DEF Reopening
  <2>2. manager' = n
    BY <1>1 DEF Receives
  <2> HIDE DEF n
  <2>3. /\ ~ SM!Refuses(manager, "CHANNEL_OPENOK_RECEIVED", None)
        /\ n.state = "CHANNEL_OPENOK_RECEIVED" /\ n.exception = None
        /\ n.waits = manager.waits
        /\ SM!Pending(n) = SM!Pending(manager)
              \cup {e \in manager.waits : e[1] = "CHANNEL_OPENOK_RECEIVED"}
    BY <1>2, <2>1, EnterIs DEF n
  <2>4. manager.waits = {} /\ SM!Pending(manager) = {}
    BY <1>2 DEF Reopening, NoEvents
  <2> QED BY <2>2, <2>3, <2>4
<1>5. publisher'[p].pc = "raising" /\ publisher'[p].left = publisher[p].left
  <2>1. publisher[p].pc = "opening"
    BY <1>2 DEF Reopening
  <2>2. publisher' = [q \in Publisher |->
                        IF publisher[q].pc = "opening"
                        THEN [publisher[q] EXCEPT !.pc = "raising"] ELSE publisher[q]]
    BY DEF ReceiveChannelOpenOk
  <2>3. publisher'[p] = [publisher[p] EXCEPT !.pc = "raising"]
    BY <2>1, <2>2
  <2> QED BY <1>2, <2>3 DEF Records
<1>6. failed' = failed
  <2>1. failed \in BOOLEAN
    BY SessionIs DEF Context
  <2> QED BY <1>1, <1>4, <2>1 DEF Receives
<1>7. NothingMoves' /\ NoEvents'
  BY <1>1, <1>2, <1>3, <1>4 DEF NothingMoves, NoEvents
<1>8. Raising(p)'
  BY <1>1, <1>2, <1>3, <1>4, <1>5, <1>7 DEF Raising, Reopening, Failing, Said, Message
<1>9. Later(p)' /\ publisher[p].pc # "idle"
  BY <1>1, <1>2, <1>5 DEF Context, AInv, Later, Active, Reopening
<1> QED BY <1>1, <1>2, <1>4, <1>5, <1>6, <1>8, <1>9 DEF Context, AInv, Where, confirms

---------------------------------------------------------------------------
(* The broker *)

\* A confirmation is written behind what is left of the returned message.
LEMMA PartsExtend ==
    ASSUME NEW p \in Publisher, Context(p), NEW body, NEW more \in Rests
    PROVE  /\ BodyThen(p, body, <<>>) \o more = BodyThen(p, body, more)
           /\ HeaderThen(p, body, <<>>) \o more = HeaderThen(p, body, more)
           /\ ReturnThen(p, body, <<>>) \o more = ReturnThen(p, body, more)
<1> DEFINE r == [type |-> "Return"]
           h == [type |-> "Header"]
           b == [type |-> "Body", by |-> Message(p)]
           none == BodyThen(p, body, <<>>)
           noneH == HeaderThen(p, body, <<>>)
<1>1. <<>> \in Rests
  BY DEF Rests
<1>2. /\ r \in InFrame /\ h \in InFrame /\ b \in InFrame
      /\ more \in Seq(InFrame) /\ <<>> \in Seq(InFrame)
      /\ none \in Seq(InFrame) /\ noneH \in Seq(InFrame)
  BY <1>1, PartsAre
<1>3. <<>> \o more = more
  <2> HIDE DEF InFrame
  <2> QED BY <1>2
<1>4. none \o more = BodyThen(p, body, more)
  <2>1. CASE body = "empty"
    BY <1>3, <2>1 DEF BodyThen
  <2>2. CASE body # "empty"
    <3>1. none = <<b>> \o <<>> /\ BodyThen(p, body, more) = <<b>> \o more
      BY <2>2 DEF BodyThen
    <3> HIDE DEF b, InFrame, none
    <3>2. (<<b>> \o <<>>) \o more = <<b>> \o (<<>> \o more)
      BY <1>2, AfterFirst
    <3> QED BY <1>3, <3>1, <3>2
  <2> QED BY <2>1, <2>2
<1>5. noneH \o more = HeaderThen(p, body, more)
  <2>1. noneH = <<h>> \o none /\ HeaderThen(p, body, more) = <<h>> \o BodyThen(p, body, more)
    BY DEF HeaderThen
  <2> HIDE DEF h, none, noneH, InFrame
  <2>2. (<<h>> \o none) \o more = <<h>> \o (none \o more)
    BY <1>2, AfterFirst
  <2> QED BY <1>4, <2>1, <2>2
<1>6. ReturnThen(p, body, <<>>) \o more = ReturnThen(p, body, more)
  <2>1. /\ ReturnThen(p, body, <<>>) = <<r>> \o noneH
        /\ ReturnThen(p, body, more) = <<r>> \o HeaderThen(p, body, more)
    BY DEF ReturnThen
  <2> HIDE DEF r, noneH, InFrame
  <2>2. (<<r>> \o noneH) \o more = <<r>> \o (noneH \o more)
    BY <1>2, AfterFirst
  <2> QED BY <1>5, <2>1, <2>2
<1> QED BY <1>4, <1>5, <1>6

\* What the broker sends back for a message it cannot route.
LEMMA ContentComes ==
    ASSUME NEW p \in Publisher, Context(p), NEW frame, frame.by = Message(p)
    PROVE  <<>> \o Content(frame) = ReturnThen(p, frame.body, <<>>)
<1> DEFINE r == [type |-> "Return"]
           h == [type |-> "Header"]
           b == [type |-> "Body", by |-> Message(p)]
           s == IF frame.body = "empty" THEN <<>> ELSE <<b>>
           both == <<r, h>>
<1>1. <<>> \in Rests
  BY DEF Rests
<1>2. r \in InFrame /\ h \in InFrame /\ b \in InFrame
  BY <1>1, PartsAre
<1>3. Content(frame) = both \o s
  BY DEF Content
<1>4. BodyThen(p, frame.body, <<>>) = s
  <2>1. <<b>> \o <<>> = <<b>>
    <3> HIDE DEF b, InFrame
    <3> QED BY <1>2
  <2> QED BY <2>1 DEF BodyThen
<1>5. /\ HeaderThen(p, frame.body, <<>>) = <<h>> \o s
      /\ ReturnThen(p, frame.body, <<>>) = <<r>> \o (<<h>> \o s)
  BY <1>4 DEF HeaderThen, ReturnThen
<1>6. s \in Seq(InFrame)
  <2> HIDE DEF b, InFrame
  <2> QED BY <1>2
<1> HIDE DEF r, h, b, s, InFrame
<1>7. both = <<r>> \o <<h>> /\ <<h>> \in Seq(InFrame)
  <2>1. <<h>> \in Seq(InFrame)
    BY <1>2
  <2>2. <<r>> \o <<h>> = <<r, h>>
    BY PairsAre
  <2> QED BY <2>1, <2>2
<1>8. (<<r>> \o <<h>>) \o s = <<r>> \o (<<h>> \o s)
  BY <1>2, <1>6, <1>7, AfterFirst
<1>9. <<h>> \o s \in Seq(InFrame)
  BY <1>2, <1>6, FirstIs
<1>10. <<r>> \o (<<h>> \o s) \in Seq(InFrame)
  BY <1>2, <1>9, FirstIs
<1>11. <<>> \o (<<r>> \o (<<h>> \o s)) = <<r>> \o (<<h>> \o s)
  <2> DEFINE all == <<r>> \o (<<h>> \o s)
  <2>1. all \in Seq(InFrame)
    BY <1>10
  <2> HIDE DEF all
  <2> QED BY <2>1 DEF all
<1> QED BY <1>3, <1>5, <1>7, <1>8, <1>11

\* What the broker says of the message under way is no news of another.
LEMMA LaterStays ==
    ASSUME NEW p \in Publisher, Context(p), Active(p), publisher' = publisher,
           \A said \in broker'.verdict : said \in broker.verdict \/ said[1] = Message(p)
    PROVE  Later(p)'
<1>1. Message(p)[2] = publisher[p].left
  BY DEF Message
<1>2. publisher[p].left \in Nat
  BY FactsAre
<1> QED BY <1>1, <1>2 DEF Context, AInv, Later, Active

LEMMA AloneBrokerRoutes ==
    ASSUME NEW p \in Publisher, Context(p), Published(p), Waiting(p),
           publisher[p].pc = "waiting", channelOpen, lastError = None,
           outbox' = <<>>, Head(outbox).by = Message(p), Head(outbox).body \in Bodies,
           Len(outbox) = 1, BrokerRoutes(Head(outbox)), manager.exception = None,
           UNCHANGED <<manager, publisher, confirms, session>>
    PROVE  AInv(p)'
<1> DEFINE frame == Head(outbox)
<1>1. PICK outcome \in {"route", "return"} :
         /\ Sends(IF outcome = "return" THEN Content(frame) ELSE <<>>)
         /\ broker' = [broker EXCEPT
                !.verdict = IF outcome = "return" THEN @ \cup {<<frame.by, "return">>} ELSE @,
                !.tag = @ + 1,
                !.unsettled = IF broker.confirm
                              THEN @ \cup {[tag |-> broker.tag + 1, by |-> frame.by]} ELSE @]
  BY DEF BrokerRoutes
<1>2. /\ inbox = <<>> /\ broker.phase = "open" /\ broker.unsettled = {}
      /\ manager.state = "MESSAGE_PUBLISHED" /\ SM!Pending(manager) = {}
      /\ ~ tags[deliveryTag] /\ (\A verdict \in Judgements : ~ Said(p, verdict))
      /\ transport = "open"
  BY FactsAre DEF Published
<1>3. /\ broker'.phase = "open"
      /\ broker'.verdict = IF outcome = "return"
                           THEN broker.verdict \cup {<<Message(p), "return">>}
                           ELSE broker.verdict
      /\ broker'.unsettled = IF broker.confirm
                             THEN {[tag |-> broker.tag + 1, by |-> Message(p)]} ELSE {}
  BY <1>1, <1>2 DEF Context, IInv, WireOK
<1>4. broker.confirm => broker.tag + 1 = deliveryTag
  BY <1>2 DEF Context, IInv, BrokerCounts, Confirming
<1>5. UNCHANGED <<deliveryTag, tags, lastError, channelOpen, failed, returned, transport>>
  BY DEF confirms, session
<1>6. Message(p)' = Message(p) /\ <<>> \in Rests /\ Rests' = Rests
  BY <1>5 DEF Message, Rests
<1>7. ~ Said(p, "NotFound")'
  BY <1>2, <1>3, <1>6 DEF Said, Judgements
<1>8. Returning(p, <<>>)'
  <2>1. CASE outcome = "return"
    <3>1. inbox' = <<>> \o Content(frame)
      BY <1>1, <1>2, <2>1 DEF Sends
    <3>2. inbox' = ReturnThen(p, frame.body, <<>>)
      BY <3>1, ContentComes
    <3> HIDE DEF frame
    <3> QED BY <1>2, <1>6, <3>2 DEF Returning, ReturnThen, HeaderThen, BodyThen, frame
  <2>2. CASE outcome = "route"
    <3>1. inbox' = <<>> \o <<>> /\ broker'.verdict = broker.verdict
      BY <1>1, <1>2, <1>3, <2>2 DEF Sends
    <3>2. inbox' = <<>>
      BY <3>1
    <3>3. Reported(p)'
      BY <1>2, <1>6, <3>1 DEF Reported, Said, Judgements
    <3> QED BY <1>2, <3>2, <3>3 DEF Returning
  <2> QED BY <2>1, <2>2
<1>9. broker'.unsettled \subseteq {[tag |-> deliveryTag', by |-> Message(p)']}
  BY <1>3, <1>4, <1>5, <1>6
<1>10. Routed(p)'
  BY <1>2, <1>3, <1>5, <1>6, <1>7, <1>8, <1>9 DEF Routed
<1>11. Waiting(p)'
  BY <1>5, <1>10 DEF Waiting, Published
<1>12. Later(p)'
  BY <1>3, LaterStays DEF Active
<1> QED BY <1>5, <1>11, <1>12 DEF Context, AInv, Where

LEMMA AloneMissesExchange ==
    ASSUME NEW p \in Publisher, Context(p), Published(p), Waiting(p),
           publisher[p].pc = "waiting", channelOpen, lastError = None,
           outbox' = <<>>, Head(outbox).by = Message(p),
           BrokerMissesExchange(Head(outbox)), manager.exception = None,
           UNCHANGED <<manager, publisher, confirms, session>>
    PROVE  AInv(p)'
<1> DEFINE close == [type |-> "Channel.Close"]
<1>1. /\ Sends(<<close>>)
      /\ broker'.phase = "closing" /\ broker'.unsettled = {}
      /\ broker'.verdict = broker.verdict \cup {<<Message(p), "NotFound">>}
  BY DEF BrokerMissesExchange, Context, IInv, WireOK
<1>2. /\ inbox = <<>> /\ manager.state = "MESSAGE_PUBLISHED" /\ SM!Pending(manager) = {}
      /\ transport = "open"
  BY FactsAre DEF Published
<1>3. inbox' = <<close>>
  BY <1>1, <1>2, ShortSequences DEF Sends
<1>4. UNCHANGED <<deliveryTag, tags, lastError, channelOpen, failed, returned, transport>>
  BY DEF confirms, session
<1>5. Missing(p)'
  BY <1>1, <1>2, <1>3 DEF Missing, Said, Message
<1>6. Waiting(p)'
  BY <1>4, <1>5 DEF Waiting
<1>7. Later(p)'
  BY <1>1, LaterStays DEF Active
<1> QED BY <1>4, <1>6, <1>7 DEF Context, AInv, Where

LEMMA AloneBrokerReads ==
    ASSUME NEW p \in Publisher, Context(p), BrokerReads
    PROVE  AInv(p)'
<1>1. /\ outbox # <<>> /\ outbox' = Tail(outbox) /\ transport = "open"
      /\ UNCHANGED <<manager, publisher, confirms, session>>
  BY FactsAre DEF BrokerReads
<1>2. /\ manager.exception = None
      /\ \/ Waiting(p) /\ Published(p) /\ channelOpen /\ lastError = None
         \/ Waiting(p) /\ Refused(p) /\ outbox = <<CloseOkFrame>>
         \/ Reopening(p) /\ outbox = <<CloseOkFrame, OpenFrame>>
         \/ Reopening(p) /\ outbox = <<OpenFrame>>
  BY <1>1 DEF Context, AInv, Where, Resting, Raising, Stuck, NothingMoves, Waiting, Routed,
              Missing, Confirmed, Refused, Reopening
<1>3. UNCHANGED <<deliveryTag, tags, lastError, channelOpen, failed, returned, transport>>
  BY <1>1 DEF confirms, session
<1>4. CASE Waiting(p) /\ Published(p) /\ channelOpen /\ lastError = None
  <2>1. PICK body \in Bodies :
           outbox = <<[type |-> "Publish", by |-> Message(p), body |-> body]>>
    BY <1>4 DEF Published
  <2> DEFINE f == [type |-> "Publish", by |-> Message(p), body |-> body]
  <2>2. /\ outbox = <<f>> /\ f.type = "Publish" /\ f.by = Message(p) /\ f.body \in Bodies
        /\ broker.phase = "open"
    BY <1>4, <2>1 DEF Published
  <2> HIDE DEF f
  <2>3. Head(outbox) = f /\ outbox' = <<>> /\ Len(outbox) = 1
    BY <1>1, <2>2, ShortSequences
  <2>4. BrokerRoutes(Head(outbox)) \/ BrokerMissesExchange(Head(outbox))
    BY <2>2, <2>3 DEF BrokerReads
  <2>5. publisher[p].pc = "waiting"
    BY <1>4 DEF Waiting
  <2> QED BY <1>1, <1>2, <1>4, <2>2, <2>3, <2>4, <2>5, AloneBrokerRoutes, AloneMissesExchange
<1>5. CASE Waiting(p) /\ Refused(p) /\ outbox = <<CloseOkFrame>>
  <2>1. Head(outbox) = CloseOkFrame /\ outbox' = <<>> /\ CloseOkFrame.type = "Channel.CloseOk"
    BY <1>1, <1>5, ShortSequences DEF CloseOkFrame
  <2>2. broker' = [broker EXCEPT !.phase = "closed"] /\ inbox' = inbox
    BY <2>1 DEF BrokerReads
  <2>3. /\ broker'.phase = "closed" /\ broker'.unsettled = broker.unsettled
        /\ broker'.verdict = broker.verdict
    BY <2>2 DEF Context, IInv, WireOK
  <2>4. Refused(p)'
    BY <1>1, <1>3, <1>5, <2>1, <2>2, <2>3 DEF Refused, Failing, Said, Message
  <2>5. Waiting(p)'
    BY <1>1, <1>3, <1>5, <2>4 DEF Waiting
  <2> QED BY <1>1, <1>2, <1>3, <2>3, <2>5 DEF Context, AInv, Where, Later, Active
<1>6. CASE Reopening(p) /\ outbox = <<CloseOkFrame, OpenFrame>>
  <2>1. /\ Head(outbox) = CloseOkFrame /\ outbox' = <<OpenFrame>>
        /\ CloseOkFrame.type = "Channel.CloseOk"
    BY <1>1, <1>6, PairsAre DEF CloseOkFrame
  <2>2. broker' = [broker EXCEPT !.phase = "closed"] /\ inbox' = inbox
    BY <2>1 DEF BrokerReads
  <2>3. /\ broker'.phase = "closed" /\ broker'.unsettled = broker.unsettled
        /\ broker'.verdict = broker.verdict
    BY <2>2 DEF Context, IInv, WireOK
  <2>4. inbox = <<>>
    BY <1>1, <1>6 DEF Reopening
  <2>5. Reopening(p)'
    BY <1>1, <1>3, <1>6, <2>1, <2>2, <2>3, <2>4
       DEF Reopening, Failing, Said, Message, NoEvents
  <2> QED BY <1>1, <1>2, <1>3, <2>3, <2>5 DEF Context, AInv, Where, Later, Active
<1>7. CASE Reopening(p) /\ outbox = <<OpenFrame>>
  <2>1. Head(outbox) = OpenFrame /\ outbox' = <<>> /\ OpenFrame.type = "Channel.Open"
    BY <1>1, <1>7, ShortSequences DEF OpenFrame
  <2>2. inbox = <<>> /\ broker.phase = "closed"
    <3>1. <<OpenFrame>> # <<CloseOkFrame, OpenFrame>>
      <4>1. Head(<<OpenFrame>>) = OpenFrame /\ Head(<<CloseOkFrame, OpenFrame>>) = CloseOkFrame
        BY ShortSequences, PairsAre
      <4> QED BY <4>1 DEF OpenFrame, CloseOkFrame
    <3> QED BY <1>1, <1>7, <3>1 DEF Reopening
  <2>3. /\ Sends(<<[type |-> "Channel.OpenOk"]>>)
        /\ broker' = [broker EXCEPT !.phase = "open", !.confirm = FALSE, !.tag = 0]
    BY <2>1, <2>2 DEF BrokerReads
  <2>4. /\ broker'.phase = "open" /\ broker'.unsettled = broker.unsettled
        /\ broker'.verdict = broker.verdict
    BY <2>3 DEF Context, IInv, WireOK
  <2>5. inbox' = <<[type |-> "Channel.OpenOk"]>>
    BY <1>1, <2>2, <2>3, ShortSequences DEF Sends
  <2>6. Reopening(p)'
    BY <1>1, <1>3, <1>7, <2>1, <2>4, <2>5 DEF Reopening, Failing, Said, Message, NoEvents
  <2> QED BY <1>1, <1>2, <1>3, <2>4, <2>6 DEF Context, AInv, Where, Later, Active
<1> QED BY <1>2, <1>4, <1>5, <1>6, <1>7

LEMMA AloneBrokerSettles ==
    ASSUME NEW p \in Publisher, Context(p), BrokerSettles
    PROVE  AInv(p)'
<1>1. PICK last \in broker.unsettled, verdict \in Verdicts, alone \in BOOLEAN :
         LET settled == IF alone THEN {last}
                        ELSE {u \in broker.unsettled : u.tag <= last.tag}
         IN  /\ Sends(<<[type |-> verdict, tag |-> last.tag]>>)
             /\ broker' = [broker EXCEPT
                    !.unsettled = @ \ settled,
                    !.verdict = @ \cup {<<u.by, verdict>> : u \in settled}]
  BY DEF BrokerSettles
<1>2. /\ UNCHANGED <<manager, publisher, confirms, session, outbox>>
      /\ broker.unsettled # {} /\ transport = "open"
      /\ UNCHANGED <<deliveryTag, tags, lastError, channelOpen, failed, returned, transport>>
  BY <1>1, FactsAre DEF BrokerSettles, confirms, session
<1>3. Waiting(p) /\ Routed(p) /\ channelOpen /\ lastError = None /\ manager.exception = None
  BY <1>2 DEF Context, AInv, Where, Resting, Raising, Stuck, Waiting, Published, Missing,
              Confirmed, Refused, Reopening
<1> DEFINE own == [tag |-> deliveryTag, by |-> Message(p)]
<1>4. broker.unsettled = {own} /\ last = own /\ deliveryTag \in Nat
  BY <1>1, <1>3, FactsAre DEF Routed
<1>5. last.tag = deliveryTag /\ last.by = Message(p) /\ deliveryTag <= deliveryTag
  BY <1>4
<1>6. (IF alone THEN {last} ELSE {u \in broker.unsettled : u.tag <= last.tag}) = {own}
  BY <1>4, <1>5
<1>7. /\ broker'.unsettled = {} /\ broker'.phase = broker.phase
      /\ broker'.verdict = broker.verdict \cup {<<Message(p), verdict>>}
  <2>1. broker' = [broker EXCEPT !.unsettled = @ \ {own},
                                 !.verdict = @ \cup {<<u.by, verdict>> : u \in {own}}]
    BY <1>1, <1>6
  <2>2. {<<u.by, verdict>> : u \in {own}} = {<<Message(p), verdict>>}
    OBVIOUS
  <2> HIDE DEF own
  <2> QED BY <1>4, <2>1, <2>2 DEF Context, IInv, WireOK
<1> DEFINE rest == <<[type |-> verdict, tag |-> deliveryTag]>>
<1>8. rest \in Rests /\ verdict \in {"ack", "nack"}
  BY PublisherConfirmsAssumption DEF Rests
<1>9. inbox' = inbox \o rest
  BY <1>1, <1>2, <1>5 DEF Sends
<1>10. Returning(p, <<>>)
  BY <1>2, <1>3 DEF Routed
<1>11. Message(p)' = Message(p) /\ Rests' = Rests
  BY <1>2 DEF Message, Rests
<1>12. Reported(p)' <=> Reported(p)
  BY <1>2, <1>7, <1>8, <1>11 DEF Reported, Said
<1>13. Returning(p, rest)'
  <2> HIDE DEF rest
  <2>1. CASE /\ manager.state \in {"MESSAGE_PUBLISHED", "MESSAGE_ASSEMBLED"}
             /\ inbox = <<>> /\ Reported(p)
    <3>1. inbox' = rest
      BY <1>9, <2>1, ShortSequences DEF rest
    <3>2. rest' = rest
      BY <1>2 DEF rest
    <3> QED BY <1>2, <1>12, <2>1, <3>1, <3>2 DEF Returning
  <2>2. ASSUME NEW body \in Bodies,
               \/ /\ manager.state = "MESSAGE_PUBLISHED" /\ inbox = ReturnThen(p, body, <<>>)
               \/ /\ manager.state = "BASIC_RETURN_RECEIVED"
                  /\ inbox = HeaderThen(p, body, <<>>)
               \/ /\ manager.state = "CONTENT_HEADER_RECEIVED"
                  /\ inbox = BodyThen(p, body, <<>>)
        PROVE  Returning(p, rest)'
    <3>1. \/ manager.state = "MESSAGE_PUBLISHED" /\ inbox' = ReturnThen(p, body, rest)
          \/ manager.state = "BASIC_RETURN_RECEIVED" /\ inbox' = HeaderThen(p, body, rest)
          \/ manager.state = "CONTENT_HEADER_RECEIVED" /\ inbox' = BodyThen(p, body, rest)
      BY <1>8, <1>9, <2>2, PartsExtend
    <3>2. rest' = rest
      BY <1>2 DEF rest
    <3> QED BY <1>2, <1>11, <3>1, <3>2 DEF Returning, ReturnThen, HeaderThen, BodyThen
  <2> QED BY <1>10, <2>1, <2>2 DEF Returning
<1>14. Routed(p)'
  <2>1. ~ Said(p, "NotFound")'
    BY <1>3, <1>7, <1>8, <1>11 DEF Routed, Said
  <2>2. \E r \in Rests' : Returning(p, r)' /\ (r # <<>> => broker'.unsettled = {})
    <3> HIDE DEF rest
    <3>1. rest' = rest
      BY <1>2 DEF rest
    <3> QED BY <1>7, <1>8, <1>11, <1>13, <3>1 DEF Returning, ReturnThen, HeaderThen, BodyThen
  <2> QED BY <1>2, <1>3, <1>7, <2>1, <2>2 DEF Routed
<1>15. Waiting(p)' /\ publisher[p].pc = "waiting"
  BY <1>2, <1>3, <1>14 DEF Waiting
<1>16. Later(p)'
  BY <1>2, <1>7, <1>15, LaterStays DEF Active
<1> QED BY <1>2, <1>3, <1>15, <1>16 DEF Context, AInv, Where

---------------------------------------------------------------------------
(* The theorems about one publisher *)

AloneInv == \A p \in Publisher : AInv(p)

LEMMA AloneInit ==
    ASSUME NEW p \in Publisher, Init
    PROVE  AInv(p)
<1>1. /\ publisher[p].pc = "idle" /\ publisher[p].result = None /\ broker.verdict = {}
      /\ None \notin {"ack", "nack", "NotFound"}
  BY PublisherConfirmsAssumption DEF Init
<1>2. EndedRight(p) /\ Later(p)
  BY <1>1 DEF EndedRight, Later
<1>3. manager.state \in RestStates /\ manager.exception = None /\ NoEvents
  BY DEF Init, SM!NewManager, RestStates, NoEvents, SM!Pending
<1>4. Resting(p)
  BY <1>1, <1>2, <1>3 DEF Init, Resting, NothingMoves
<1> QED BY <1>1, <1>2, <1>3, <1>4 DEF Init, AInv, Where

LEMMA AloneStutters ==
    ASSUME NEW p \in Publisher, Context(p), UNCHANGED vars
    PROVE  AInv(p)'
<1>1. UNCHANGED <<manager, publisher, confirms, session, inbox, outbox, broker>>
  BY DEF vars
<1>2. Where(p)'
  BY <1>1, WhereStays DEF Context, AInv
<1> QED BY <1>1, <1>2 DEF Context, AInv, Later, Active, confirms, session

LEMMA AloneProceeds ==
    ASSUME NEW p \in Publisher, Context(p), Publish(p) \/ Proceeds(p)
    PROVE  AInv(p)'
<1>1. ~ TagIsSet(p)
  BY PcIs DEF Context, AInv, TagIsSet
<1> QED BY <1>1, AlonePublish, AlonePollSettled, AlonePollRaises, AlonePollClosed,
           AlonePollClosedTaken, AloneRaiseClosed DEF Proceeds

LEMMA AloneReceives ==
    ASSUME NEW p \in Publisher, Context(p), Receive
    PROVE  AInv(p)'
<1>1. ~ Disconnected
  <2> SUFFICES ASSUME Takes("Disconnected") PROVE FALSE
    BY DEF Disconnected
  <2> QED BY TakesWhere
<1>2. CASE \/ ReceiveSettled("ack", "BASIC_ACK_RECEIVED")
           \/ ReceiveSettled("nack", "BASIC_NACK_RECEIVED")
  BY <1>2, AloneReceiveSettled
<1>3. CASE \/ ReceiveContent("Return", "BASIC_RETURN_RECEIVED")
           \/ ReceiveContent("Header", "CONTENT_HEADER_RECEIVED")
  BY <1>3, AloneReceiveContent
<1>4. CASE ReceiveBody \/ ReceiveChannelClose \/ ReceiveChannelOpenOk
  BY <1>4, AloneReceiveBody, AloneReceiveChannelClose, AloneReceiveChannelOpenOk
<1> QED BY <1>1, <1>2, <1>3, <1>4 DEF Receive

LEMMA AloneNext ==
    ASSUME NEW p \in Publisher, Context(p), Next
    PROVE  AInv(p)'
<1>1. CASE \E q \in Publisher : Publish(q) \/ Proceeds(q)
  BY <1>1, AloneProceeds DEF Context
<1>2. CASE RunReady \/ Receive
  BY <1>2, AloneRunReady, AloneReceives
<1>3. CASE BrokerReads \/ BrokerSettles
  BY <1>3, AloneBrokerReads, AloneBrokerSettles
<1>4. ~ SocketLost
  BY DEF Context, SocketLost
<1> QED BY <1>1, <1>2, <1>3, <1>4 DEF Next

\* Where the message of the only publisher is, at every moment: the client, the wires
\* and the broker agree on it.
THEOREM AloneInvariance == Alone => (Spec => []AloneInv)
<1> SUFFICES ASSUME Alone
             PROVE  Spec => []AloneInv
  OBVIOUS
<1>1. PICK p \in Publisher : Publisher = {p}
  BY DEF Alone
<1>2. AloneInv <=> AInv(p)
  BY <1>1 DEF AloneInv
<1>3. Init => AloneInv
  BY AloneInit DEF AloneInv
<1>4. IInv /\ AloneInv /\ [Next]_vars => AloneInv'
  <2> SUFFICES ASSUME IInv, AloneInv, [Next]_vars
               PROVE  AloneInv'
    OBVIOUS
  <2>1. Context(p)
    BY <1>1, <1>2 DEF Alone, Context
  <2>2. AInv(p)'
    BY <2>1, AloneNext, AloneStutters
  <2> QED BY <1>1, <2>2 DEF AloneInv
<1> QED BY <1>3, <1>4, ConfirmsInvariance, PTL DEF Spec

\* A publish raises NotFound when the exchange of its message was missing, and only
\* then.  Of one publisher: of two, one may be raised the error of the other.
ErrorIsOwn ==
    \A p \in Publisher : publisher[p].pc = "idle" =>
        (publisher[p].result = "NotFound"
            <=> <<LastMessage(p), "NotFound">> \in broker.verdict)

\* One publisher is raised NotFound when the exchange of its message was missing, and
\* only then: _last_error is never left from an earlier message.
THEOREM ErrorsAreOwn == Alone => (Spec => []ErrorIsOwn)
<1> SUFFICES ASSUME Alone
             PROVE  Spec => []ErrorIsOwn
  OBVIOUS
<1>1. AloneInv => ErrorIsOwn
  BY PcIs DEF AloneInv, AInv, Resting, EndedRight, ErrorIsOwn
<1> QED BY <1>1, AloneInvariance, PTL

\* One publisher that is not in publish has no tag left in _delivery_tags, whatever
\* its publishes came to.
THEOREM TagsAreDropped == Alone => (Spec => []TagsAreForgotten)
<1> SUFFICES ASSUME Alone
             PROVE  Spec => []TagsAreForgotten
  OBVIOUS
<1>1. PICK p \in Publisher : Publisher = {p}
  BY DEF Alone
<1>2. IInv /\ AloneInv => TagsAreForgotten
  <2> SUFFICES ASSUME IInv, AloneInv, publisher[p].pc # "idle"
               PROVE  deliveryTag = publisher[p].tag
    BY <1>1 DEF AloneInv, AInv, TagsAreForgotten
  <2> QED BY <1>1 DEF IInv, TagsAreOwn, Active
<1> QED BY <1>2, AloneInvariance, ConfirmsInvariance, PTL

\* A message that came back as unroutable has been handed to the return callback of
\* the one publisher before publish returns: the Return and the content come first.
THEOREM ReturnsAreReported == Alone /\ OnReturn => (Spec => []ReturnedIsReported)
<1> SUFFICES ASSUME Alone, OnReturn
             PROVE  Spec => []ReturnedIsReported
  OBVIOUS
<1>1. AloneInv => ReturnedIsReported
  BY PcIs DEF AloneInv, AInv, Resting, EndedRight, ReturnedIsReported, Answered
<1> QED BY <1>1, AloneInvariance, PTL

\* The table of _set_state takes every frame that the broker sends to one publisher
\* with a return callback, unless a message without a body is returned.
THEOREM PublisherStaysUsable ==
    Alone /\ OnReturn /\ "empty" \notin Bodies => (Spec => []StaysUsable)
<1> SUFFICES ASSUME Alone, OnReturn, "empty" \notin Bodies
             PROVE  Spec => []StaysUsable
  OBVIOUS
<1>1. PICK p \in Publisher : Publisher = {p}
  BY DEF Alone
<1>2. AloneInv => StaysUsable
  BY <1>1 DEF AloneInv, AInv, StaysUsable
<1> QED BY <1>2, AloneInvariance, PTL
=============================================================================
