-------------------------- MODULE PublisherConfirms --------------------------
(***************************************************************************)
(* Client.publish of aiorabbit/client.py on a channel in confirm mode: the *)
(* delivery tags, the broker's Ack and Nack, the messages it returns, and  *)
(* the channel it closes for a missing exchange.  Publishers are tasks of  *)
(* the application that publish one message after another; nobody else     *)
(* uses the client.  A publisher that would reconnect stops there.         *)
(***************************************************************************)
EXTENDS ClientStates, Naturals, Sequences, FiniteSets

CONSTANTS
    Publisher,
    None,
    Verdicts,         \* what the broker says of messages: "ack", "nack"
    Outcomes,         \* what it does with a message: "route", "return", "missing"
    Bodies,           \* the messages' bodies: "empty", "some"
    OutOfOrder,       \* whether it may settle a message before earlier ones
    OnReturn,         \* whether a basic return callback is registered
    SocketMayDrop,    \* whether the network may fail
    MaxMessages       \* bound: messages of a publisher

ASSUME PublisherConfirmsAssumption ==
    /\ Verdicts \subseteq {"ack", "nack"}
    /\ Outcomes \subseteq {"route", "return", "missing"}
    /\ Bodies \subseteq {"empty", "some"}
    /\ MaxMessages \in Nat
    /\ None \notin Publisher \cup {"ack", "nack", "NotFound", "StateTransitionError"}

SM == INSTANCE StateManager
      WITH State <- ClientState, Transitions <- ClientTransitions, Waiter <- Publisher,
           UNINITIALIZED <- "UNINITIALIZED", EXCEPTION <- "EXCEPTION"

STE == "StateTransitionError"
Error == {STE, "ConnectionClosedException", "TypeError"}

VARIABLES
    manager,      \* the client as a StateManager
    publisher,    \* the calls of publish
    deliveryTag,  \* _delivery_tag, the number of messages published
    tags,         \* _delivery_tags: whether the event of a tag is set
    results,      \* _confirmation_result: "ack" for True, "nack" for False
    lastError,    \* the error of _last_error, None when its code is 0
    channelOpen,  \* the _channel_open event
    failed,       \* whether Channel0 is in its exception state
    returned,     \* messages the return callback was called for
    transport,    \* "open" or "lost"
    inbox,        \* frames to the client
    outbox,       \* frames to the broker
    broker        \* the broker's side of the channel

confirms == <<deliveryTag, tags, results>>
session == <<lastError, channelOpen, failed, returned, transport>>
vars == <<manager, publisher, confirms, session, inbox, outbox, broker>>

\* The channel is in confirm mode and nothing was published before.
Init ==
    /\ manager = [SM!NewManager EXCEPT !.state = "CONFIRM_SELECTOK_RECEIVED"]
    /\ publisher = [p \in Publisher |-> [pc |-> "idle", tag |-> 0, result |-> None,
                                         left |-> MaxMessages]]
    /\ deliveryTag = 0
    /\ tags = <<>> /\ results = <<>>
    /\ lastError = None /\ channelOpen = TRUE /\ failed = FALSE /\ returned = {}
    /\ transport = "open" /\ inbox = <<>> /\ outbox = <<>>
    /\ broker = [phase |-> "open", confirm |-> TRUE, tag |-> 0, unsettled |-> {},
                 verdict |-> {}]

---------------------------------------------------------------------------
(* Helpers *)

Enter(m, state) == SM!SetState(m, state, None, STE)

Write(frames) == outbox' = IF transport = "open" THEN outbox \o frames ELSE outbox

\* A dict with a key set, or without it.
With(f, key, value) == [k \in DOMAIN f \cup {key} |-> IF k = key THEN value ELSE f[k]]
Without(f, key) == [k \in DOMAIN f \ {key} |-> f[k]]

\* The message a publisher is publishing or has published last.
Message(p) == <<p, publisher[p].left>>
LastMessage(p) == <<p, publisher[p].left + 1>>

End(p, result) ==
    publisher' = [publisher EXCEPT ![p].pc = "idle", ![p].result = result,
                                   ![p].left = @ - 1]

Goes(p, pc) == publisher' = [publisher EXCEPT ![p].pc = pc]

---------------------------------------------------------------------------
(* publish *)

SettledStates == {"BASIC_ACK_RECEIVED", "BASIC_NACK_RECEIVED", "BASIC_REJECT_RECEIVED"}
WaitsOn == <<"BASIC_ACK_RECEIVED", "BASIC_NACK_RECEIVED", "BASIC_REJECT_RECEIVED",
             "CHANNEL_CLOSE_RECEIVED">>

\* The message is written, and its tag taken, before the state may refuse it.
Publish(p) ==
    LET tag == deliveryTag + 1
        refused == SM!Refuses(manager, "MESSAGE_PUBLISHED", None)
    IN  /\ publisher[p].pc = "idle" /\ publisher[p].left > 0
        /\ deliveryTag' = tag
        /\ tags' = With(tags, tag, FALSE)
        /\ \E body \in Bodies :
              Write(<<[type |-> "Publish", by |-> Message(p), body |-> body]>>)
        /\ IF refused
           THEN manager' = SM!Refuse(manager, STE) /\ End(p, STE)
           ELSE /\ manager' = SM!Register(Enter(manager, "MESSAGE_PUBLISHED"), p,
                                          SettledStates \cup {"CHANNEL_CLOSE_RECEIVED"})
                /\ publisher' = [publisher EXCEPT ![p].pc = "waiting", ![p].tag = tag]
        /\ UNCHANGED <<results, session, inbox, broker>>

\* The event of the publisher's own tag is set: its result is taken.
Take(p) ==
    LET tag == publisher[p].tag IN
    /\ tags[tag]
    /\ End(p, results[tag])
    /\ tags' = Without(tags, tag) /\ results' = Without(results, tag)
    /\ UNCHANGED deliveryTag

\* Mutant: any confirmation will do.
PollSettledByAny(p) ==
    /\ publisher[p].pc = "waiting"
    /\ \E state \in SettledStates : SM!PollReturns(manager, p, WaitsOn, state)
    /\ manager' = SM!AfterPoll(manager, p)
    /\ End(p, "ack")
    /\ tags' = Without(tags, publisher[p].tag)
    /\ UNCHANGED <<deliveryTag, results, session, inbox, outbox, broker>>

\* Some message was confirmed.  If it was another's the publisher waits for the
\* event of its tag, and for nothing else.
PollSettled(p) ==
    /\ publisher[p].pc = "waiting"
    /\ \E state \in SettledStates : SM!PollReturns(manager, p, WaitsOn, state)
    /\ manager' = SM!AfterPoll(manager, p)
    /\ \/ Take(p)
       \/ ~ tags[publisher[p].tag] /\ Goes(p, "tagged") /\ UNCHANGED confirms
    /\ UNCHANGED <<session, inbox, outbox, broker>>

TagIsSet(p) ==
    /\ publisher[p].pc = "tagged"
    /\ Take(p)
    /\ UNCHANGED <<manager, session, inbox, outbox, broker>>

\* An exception ends the wait: the publisher goes on to _reconnect.
PollRaises(p) ==
    /\ publisher[p].pc = "waiting" /\ SM!PollRaises(manager, p)
    /\ manager' = SM!AfterPoll(manager, p)
    /\ Goes(p, "reconnecting")
    /\ UNCHANGED <<confirms, session, inbox, outbox, broker>>

\* The channel was closed, and another publisher has taken the error already.
PollClosedTaken(p) ==
    /\ publisher[p].pc = "waiting" /\ lastError = None
    /\ SM!PollReturns(manager, p, WaitsOn, "CHANNEL_CLOSE_RECEIVED")
    /\ manager' = SM!AfterPoll(manager, p)
    /\ tags' = Without(tags, publisher[p].tag)
    /\ End(p, "UnknownError")
    /\ UNCHANGED <<deliveryTag, results, session, inbox, outbox, broker>>

\* Mutant: the publisher that may not open the channel raises the error as well,
\* which it looks at and leaves to the one that may.
PollClosedLooks(p) ==
    LET m == SM!AfterPoll(manager, p) IN
    /\ publisher[p].pc = "waiting" /\ lastError # None
    /\ SM!PollReturns(manager, p, WaitsOn, "CHANNEL_CLOSE_RECEIVED")
    /\ IF SM!Refuses(m, "OPENING_CHANNEL", None)
       THEN manager' = SM!Refuse(m, STE) /\ End(p, lastError) /\ UNCHANGED outbox
       ELSE /\ manager' = Enter(Enter(m, "OPENING_CHANNEL"), "CHANNEL_OPEN_SENT")
            /\ Write(<<[type |-> "Channel.Open"]>>)
            /\ Goes(p, IF channelOpen THEN "raising" ELSE "opening")
    /\ UNCHANGED <<confirms, session, inbox, broker>>

\* The channel was closed.  The first publisher to see it opens a new one, and
\* sends no confirm.select there; the state refuses the others.
PollClosed(p) ==
    LET m == SM!AfterPoll(manager, p) IN
    /\ publisher[p].pc = "waiting" /\ lastError # None
    /\ SM!PollReturns(manager, p, WaitsOn, "CHANNEL_CLOSE_RECEIVED")
    /\ IF SM!Refuses(m, "OPENING_CHANNEL", None)
       THEN manager' = SM!Refuse(m, STE) /\ End(p, STE) /\ UNCHANGED outbox
       ELSE /\ manager' = Enter(Enter(m, "OPENING_CHANNEL"), "CHANNEL_OPEN_SENT")
            /\ Write(<<[type |-> "Channel.Open"]>>)
            /\ Goes(p, IF channelOpen THEN "raising" ELSE "opening")
    /\ UNCHANGED <<confirms, session, inbox, broker>>

\* Mutant: the tag of a message that failed is not forgotten.
RaiseClosedKeepsTag(p) ==
    /\ publisher[p].pc = "raising"
    /\ End(p, IF lastError = None THEN "UnknownError" ELSE lastError)
    /\ lastError' = None
    /\ UNCHANGED <<manager, confirms, channelOpen, failed, returned, transport,
                   inbox, outbox, broker>>

RaiseClosed(p) ==
    /\ publisher[p].pc = "raising"
    /\ tags' = Without(tags, publisher[p].tag)
    /\ End(p, IF lastError = None THEN "UnknownError" ELSE lastError)
    /\ lastError' = None
    /\ UNCHANGED <<manager, deliveryTag, results, channelOpen, failed, returned,
                   transport, inbox, outbox, broker>>

\* The event loop sets the events of one _set_state.
RunReady ==
    /\ manager.ready # <<>>
    /\ manager' = SM!RunCallbacks(manager)
    /\ UNCHANGED <<publisher, confirms, session, inbox, outbox, broker>>

---------------------------------------------------------------------------
(* _on_frame *)

Takes(type) ==
    /\ inbox # <<>> /\ Head(inbox).type = type
    /\ inbox' = Tail(inbox)

\* A refusal in a callback reaches the loop's handler, which is Channel0's.
Receives(state) ==
    /\ manager' = Enter(manager, state)
    /\ failed' = (failed \/ SM!Refuses(manager, state, None))

Covered(tag) == {t \in DOMAIN tags : t <= tag}

\* Mutant: the last tag is left out, as range() does.
SetResultShort(tag, verdict) ==
    /\ tags' = [t \in DOMAIN tags |-> tags[t] \/ t < tag]
    /\ results' = [t \in DOMAIN results \cup (Covered(tag) \ {tag}) |->
                      IF t \in Covered(tag) \ {tag} THEN verdict ELSE results[t]]

\* Mutant: only the last of the tags gets a result.
SetResultOfLast(tag, verdict) ==
    /\ tags' = [t \in DOMAIN tags |-> tags[t] \/ t <= tag]
    /\ results' = [t \in DOMAIN results \cup (Covered(tag) \cap {tag}) |->
                      IF t = tag THEN verdict ELSE results[t]]

\* _set_delivery_tag_result: every tag up to the one of the frame.
SetResult(tag, verdict) ==
    /\ tags' = [t \in DOMAIN tags |-> tags[t] \/ t <= tag]
    /\ results' = [t \in DOMAIN results \cup Covered(tag) |->
                      IF t \in Covered(tag) THEN verdict ELSE results[t]]

\* Mutant: a Nack is taken for an Ack.
ReceiveSettledAsAck(type, state) ==
    /\ Takes(type)
    /\ SetResult(Head(inbox).tag, "ack")
    /\ Receives(state)
    /\ UNCHANGED <<publisher, deliveryTag, lastError, channelOpen, returned, transport,
                   outbox, broker>>

ReceiveSettled(type, state) ==
    /\ Takes(type)
    /\ SetResult(Head(inbox).tag, type)
    /\ Receives(state)
    /\ UNCHANGED <<publisher, deliveryTag, lastError, channelOpen, returned, transport,
                   outbox, broker>>

\* Basic.Return, and the header of its content.
ReceiveContent(type, state) ==
    /\ Takes(type)
    /\ Receives(state)
    /\ UNCHANGED <<publisher, confirms, lastError, channelOpen, returned, transport,
                   outbox, broker>>

\* Mutant: a message without its last state is handed over all the same.
ReceiveBodyUnassembled ==
    /\ Takes("Body")
    /\ Receives("CONTENT_BODY_RECEIVED")
    /\ returned' = returned \cup {Head(inbox).by}
    /\ UNCHANGED <<publisher, confirms, lastError, channelOpen, transport, outbox, broker>>

\* Mutant: only messages of consumers are handed over.
ReceiveBodyUnreported ==
    LET refused == SM!Refuses(manager, "CONTENT_BODY_RECEIVED", None) IN
    /\ Takes("Body")
    /\ manager' = IF refused THEN SM!Refuse(manager, STE)
                  ELSE Enter(Enter(manager, "CONTENT_BODY_RECEIVED"), "MESSAGE_ASSEMBLED")
    /\ failed' = (failed \/ refused)
    /\ UNCHANGED <<publisher, confirms, lastError, channelOpen, returned, transport,
                   outbox, broker>>

\* The body completes the message, whose callback is called at once.  Without a
\* callback that is a TypeError for the loop's handler.
ReceiveBody ==
    LET refused == SM!Refuses(manager, "CONTENT_BODY_RECEIVED", None) IN
    /\ Takes("Body")
    /\ manager' = IF refused THEN SM!Refuse(manager, STE)
                  ELSE Enter(Enter(manager, "CONTENT_BODY_RECEIVED"), "MESSAGE_ASSEMBLED")
    /\ failed' = (failed \/ refused \/ ~ OnReturn)
    /\ returned' = IF refused \/ ~ OnReturn THEN returned
                   ELSE returned \cup {Head(inbox).by}
    /\ UNCHANGED <<publisher, confirms, lastError, channelOpen, transport, outbox, broker>>

ReceiveChannelClose ==
    /\ Takes("Channel.Close")
    /\ IF SM!Refuses(manager, "CHANNEL_CLOSE_RECEIVED", None)
       THEN /\ Receives("CHANNEL_CLOSE_RECEIVED")
            /\ UNCHANGED <<lastError, channelOpen, outbox>>
       ELSE /\ manager' = Enter(Enter(manager, "CHANNEL_CLOSE_RECEIVED"),
                                "CHANNEL_CLOSEOK_SENT")
            /\ Write(<<[type |-> "Channel.CloseOk"]>>)
            /\ lastError' = "NotFound" /\ channelOpen' = FALSE
            /\ UNCHANGED failed
    /\ UNCHANGED <<publisher, confirms, returned, transport, broker>>

ReceiveChannelOpenOk ==
    /\ Takes("Channel.OpenOk")
    /\ channelOpen' = TRUE
    /\ Receives("CHANNEL_OPENOK_RECEIVED")
    /\ publisher' = [p \in Publisher |->
                        IF publisher[p].pc = "opening"
                        THEN [publisher[p] EXCEPT !.pc = "raising"] ELSE publisher[p]]
    /\ UNCHANGED <<confirms, lastError, returned, transport, outbox, broker>>

\* _on_disconnected, when is_closed is false, and a connection error likewise.
Disconnected ==
    /\ Takes("Disconnected")
    /\ manager' = IF failed \/ manager.state \in ClosedClientStates THEN manager
                  ELSE SM!SetState(manager, "EXCEPTION", "ConnectionClosedException", STE)
    /\ UNCHANGED <<publisher, confirms, session, outbox, broker>>

Receive ==
    \/ ReceiveSettled("ack", "BASIC_ACK_RECEIVED")
    \/ ReceiveSettled("nack", "BASIC_NACK_RECEIVED")
    \/ ReceiveContent("Return", "BASIC_RETURN_RECEIVED")
    \/ ReceiveContent("Header", "CONTENT_HEADER_RECEIVED")
    \/ ReceiveBody \/ ReceiveChannelClose \/ ReceiveChannelOpenOk \/ Disconnected

---------------------------------------------------------------------------
(* The broker and the network, external *)

Sends(frames) == inbox' = IF transport = "open" THEN inbox \o frames ELSE inbox

Content(frame) ==
    <<[type |-> "Return"], [type |-> "Header"]>>
    \o IF frame.body = "empty" THEN <<>> ELSE <<[type |-> "Body", by |-> frame.by]>>

\* A message is returned before it is confirmed.
BrokerRoutes(frame) ==
    \E outcome \in Outcomes \cap {"route", "return"} :
        /\ Sends(IF outcome = "return" THEN Content(frame) ELSE <<>>)
        /\ broker' = [broker EXCEPT
               !.verdict = IF outcome = "return" THEN @ \cup {<<frame.by, "return">>} ELSE @,
               !.tag = @ + 1,
               !.unsettled = IF broker.confirm
                             THEN @ \cup {[tag |-> broker.tag + 1, by |-> frame.by]} ELSE @]

BrokerMissesExchange(frame) ==
    /\ "missing" \in Outcomes
    /\ Sends(<<[type |-> "Channel.Close"]>>)
    /\ broker' = [broker EXCEPT !.phase = "closing", !.unsettled = {},
                                !.verdict = @ \cup {<<frame.by, "NotFound">>}]

\* A broker that has closed the channel discards what is published there, and
\* ends the connection for what comes later still.
BrokerReads ==
    /\ outbox # <<>> /\ outbox' = Tail(outbox)
    /\ LET frame == Head(outbox) IN
       CASE frame.type = "Channel.CloseOk" ->
              broker' = [broker EXCEPT !.phase = "closed"] /\ UNCHANGED inbox
         [] frame.type = "Channel.Open" /\ broker.phase = "closed" ->
              /\ Sends(<<[type |-> "Channel.OpenOk"]>>)
              /\ broker' = [broker EXCEPT !.phase = "open", !.confirm = FALSE, !.tag = 0]
         [] frame.type = "Publish" /\ broker.phase = "open" ->
              BrokerRoutes(frame) \/ BrokerMissesExchange(frame)
         [] frame.type = "Publish" /\ broker.phase = "closed" ->
              /\ Sends(<<[type |-> "Disconnected"]>>)
              /\ broker' = [broker EXCEPT !.phase = "gone"]
         [] OTHER -> UNCHANGED <<broker, inbox>>
    /\ UNCHANGED <<manager, publisher, confirms, session>>

\* One frame settles a message, alone or with all before it.
BrokerSettles ==
    /\ broker.phase = "open" /\ transport = "open"
    /\ \E last \in broker.unsettled, verdict \in Verdicts, alone \in BOOLEAN :
          LET settled == IF alone THEN {last}
                         ELSE {u \in broker.unsettled : u.tag <= last.tag}
          IN  /\ alone => OutOfOrder
              /\ Sends(<<[type |-> verdict, tag |-> last.tag]>>)
              /\ broker' = [broker EXCEPT
                     !.unsettled = @ \ settled,
                     !.verdict = @ \cup {<<u.by, verdict>> : u \in settled}]
    /\ UNCHANGED <<manager, publisher, confirms, session, outbox>>

SocketLost ==
    /\ SocketMayDrop /\ transport = "open"
    /\ transport' = "lost"
    /\ \E n \in 0..Len(inbox) :
          inbox' = Append(SubSeq(inbox, 1, n), [type |-> "Disconnected"])
    /\ outbox' = <<>>
    /\ UNCHANGED <<manager, publisher, confirms, lastError, channelOpen, failed,
                   returned, broker>>

---------------------------------------------------------------------------

Proceeds(p) == \/ PollSettled(p) \/ TagIsSet(p) \/ PollRaises(p)
               \/ PollClosed(p) \/ PollClosedTaken(p) \/ RaiseClosed(p)

Next ==
    \/ \E p \in Publisher : Publish(p) \/ Proceeds(p)
    \/ RunReady \/ Receive
    \/ BrokerReads \/ BrokerSettles \/ SocketLost

\* The loop runs, frames arrive, and the broker settles what it has routed.
Fairness ==
    /\ \A p \in Publisher : WF_vars(Proceeds(p))
    /\ WF_vars(RunReady) /\ WF_vars(Receive) /\ WF_vars(BrokerReads)
    /\ WF_vars(BrokerSettles)

Spec == Init /\ [][Next]_vars /\ Fairness

---------------------------------------------------------------------------
(* Properties *)

\* The type invariant: of the client.  The tags are those given out so far, and an
\* event is set only when publish will find the result it looks up next.
TypeOK ==
    /\ manager \in SM!ManagerWith(Error)
    /\ publisher \in
         [Publisher -> [pc : {"idle", "waiting", "tagged", "opening", "raising",
                              "reconnecting"},
                        tag : 0..deliveryTag,
                        result : {"ack", "nack", STE, "NotFound", "UnknownError", None},
                        left : 0..MaxMessages]]
    /\ DOMAIN tags \subseteq 1..deliveryTag /\ DOMAIN results \subseteq 1..deliveryTag
    /\ \A t \in DOMAIN tags : tags[t] => t \in DOMAIN results
    /\ lastError \in {"NotFound", None}
    /\ channelOpen \in BOOLEAN /\ failed \in BOOLEAN
    /\ transport \in {"open", "lost"}

Answered(p, results_) ==
    publisher[p].pc = "idle" /\ publisher[p].result \in results_

\* What publish returns is what the broker said of that very message: True if it
\* was acked, False if it was nacked.
ConfirmsAreTrue ==
    \A p \in Publisher : Answered(p, {"ack", "nack"}) =>
        <<LastMessage(p), publisher[p].result>> \in broker.verdict

\* A message that was returned as unroutable has been handed to the application
\* by the time its publish returns.
ReturnedIsReported ==
    \A p \in Publisher :
        /\ Answered(p, {"ack", "nack"})
        /\ <<LastMessage(p), "return">> \in broker.verdict
        => LastMessage(p) \in returned

\* Every publisher that waits is woken by a Channel.Close, and there is one
\* _last_error: whoever is raised it, no more publishers are than messages were
\* sent to a missing exchange.
ErrorIsRaisedOnce ==
    Cardinality({p \in Publisher : Answered(p, {"NotFound"})})
        <= Cardinality({v \in broker.verdict : v[2] = "NotFound"})

\* The tags of publishes that are over have been dropped, whatever their result.
TagsAreForgotten ==
    DOMAIN tags \subseteq {publisher[p].tag : p \in {q \in Publisher : publisher[q].pc # "idle"}}

\* No frame of a broker that keeps to the protocol ends the client.
StaysUsable == ~ failed

Reconnecting == \E p \in Publisher : publisher[p].pc = "reconnecting"

\* Once the broker has acked its message a publish ends, whatever becomes of the
\* channel, unless the socket is lost or some publisher goes on to reconnect.
AckedPublishEnds ==
    \A p \in Publisher :
        (publisher[p].pc # "idle" /\ <<Message(p), "ack">> \in broker.verdict)
            ~> publisher[p].pc = "idle" \/ Reconnecting \/ transport = "lost"

\* "the exception is raised, but the client continues to operate" (README.rst):
\* every publish comes to an end, also after one that raised.
EveryPublishEnds ==
    \A p \in Publisher : publisher[p].pc # "idle" ~> publisher[p].pc = "idle" \/ Reconnecting
=============================================================================
