---------------------------- MODULE ClientStates ----------------------------
(***************************************************************************)
(* The states of aiorabbit/client.py and the transitions between them:     *)
(* _IDLE_STATE and _STATE_TRANSITIONS.  The table is written by the shapes *)
(* its rows have.                                                          *)
(***************************************************************************)

\* _IDLE_STATE: where a client with nothing outstanding may go.
Idle ==
    {"UPDATE_SECRET_SENT", "BASIC_CANCEL_SENT",
     "CHANNEL_CLOSE_RECEIVED", "CHANNEL_CLOSE_SENT", "CHANNEL_FLOW_RECEIVED",
     "CONFIRM_SELECT_SENT",
     "EXCHANGE_BIND_SENT", "EXCHANGE_DECLARE_SENT", "EXCHANGE_DELETE_SENT",
     "EXCHANGE_UNBIND_SENT",
     "QUEUE_BIND_SENT", "QUEUE_DECLARE_SENT", "QUEUE_DELETE_SENT",
     "QUEUE_PURGE_SENT", "QUEUE_UNBIND_SENT",
     "TX_SELECT_SENT", "TX_COMMIT_SENT", "TX_ROLLBACK_SENT",
     "BASIC_CONSUME_SENT", "BASIC_DELIVER_RECEIVED", "BASIC_GET_SENT",
     "BASIC_QOS_SENT", "BASIC_RECOVER_SENT", "MESSAGE_PUBLISHED",
     "CLOSING", "CLOSED"}

\* A request that may only be answered.
Strict ==
    [UPDATE_SECRET_SENT  |-> {"UPDATE_SECRETOK_RECEIVED"},
     CHANNEL_OPEN_SENT   |-> {"CHANNEL_OPENOK_RECEIVED"},
     CHANNEL_CLOSE_SENT  |-> {"CHANNEL_CLOSEOK_RECEIVED"},
     CONFIRM_SELECT_SENT |-> {"CONFIRM_SELECTOK_RECEIVED"},
     TX_SELECT_SENT      |-> {"TX_SELECTOK_RECEIVED"},
     TX_COMMIT_SENT      |-> {"TX_COMMITOK_RECEIVED"},
     TX_ROLLBACK_SENT    |-> {"TX_ROLLBACKOK_RECEIVED"},
     BASIC_CANCEL_SENT   |-> {"BASIC_CANCELOK_RECEIVED"},
     BASIC_RECOVER_SENT  |-> {"BASIC_RECOVEROK_RECEIVED"}]

\* A request that is answered, or refused by closing the channel.
Refusable ==
    [EXCHANGE_BIND_SENT    |-> {"EXCHANGE_BINDOK_RECEIVED"},
     EXCHANGE_DECLARE_SENT |-> {"EXCHANGE_DECLAREOK_RECEIVED"},
     EXCHANGE_DELETE_SENT  |-> {"EXCHANGE_DELETEOK_RECEIVED"},
     EXCHANGE_UNBIND_SENT  |-> {"EXCHANGE_UNBINDOK_RECEIVED"},
     QUEUE_BIND_SENT       |-> {"QUEUE_BINDOK_RECEIVED"},
     QUEUE_DECLARE_SENT    |-> {"QUEUE_DECLAREOK_RECEIVED"},
     QUEUE_DELETE_SENT     |-> {"QUEUE_DELETEOK_RECEIVED"},
     QUEUE_PURGE_SENT      |-> {"QUEUE_PURGEOK_RECEIVED"},
     QUEUE_UNBIND_SENT     |-> {"QUEUE_UNBINDOK_RECEIVED"},
     BASIC_CONSUME_SENT    |-> {"BASIC_CONSUMEOK_RECEIVED"},
     BASIC_GET_SENT        |-> {"BASIC_GETEMPTY_RECEIVED", "BASIC_GETOK_RECEIVED"},
     BASIC_QOS_SENT        |-> {"BASIC_QOSOK_RECEIVED"}]

\* The states after which the client is idle, and what more they allow.
IdleWith ==
    [TX_SELECTOK_RECEIVED |-> {"TX_COMMIT_SENT", "TX_ROLLBACK_SENT"},
     MESSAGE_PUBLISHED    |-> {"BASIC_ACK_RECEIVED", "BASIC_NACK_RECEIVED",
                               "BASIC_REJECT_RECEIVED", "BASIC_RETURN_RECEIVED"},
     MESSAGE_ASSEMBLED    |-> {"BASIC_ACK_RECEIVED", "BASIC_ACK_SENT",
                               "BASIC_NACK_SENT", "BASIC_NACK_RECEIVED",
                               "BASIC_REJECT_SENT", "BASIC_REJECT_RECEIVED"}]

IdleAfter ==
    {"UPDATE_SECRETOK_RECEIVED", "CHANNEL_OPENOK_RECEIVED", "CHANNEL_FLOWOK_SENT",
     "CONFIRM_SELECTOK_RECEIVED",
     "EXCHANGE_BINDOK_RECEIVED", "EXCHANGE_DECLAREOK_RECEIVED",
     "EXCHANGE_DELETEOK_RECEIVED", "EXCHANGE_UNBINDOK_RECEIVED",
     "QUEUE_BINDOK_RECEIVED", "QUEUE_DECLAREOK_RECEIVED", "QUEUE_DELETEOK_RECEIVED",
     "QUEUE_PURGEOK_RECEIVED", "QUEUE_UNBINDOK_RECEIVED",
     "TX_COMMITOK_RECEIVED", "TX_ROLLBACKOK_RECEIVED",
     "BASIC_ACK_RECEIVED", "BASIC_ACK_SENT",
     "BASIC_CANCEL_RECEIVED", "BASIC_CANCELOK_RECEIVED", "BASIC_CANCELOK_SENT",
     "BASIC_CONSUMEOK_RECEIVED", "BASIC_GETEMPTY_RECEIVED",
     "BASIC_NACK_RECEIVED", "BASIC_NACK_SENT", "BASIC_QOSOK_RECEIVED",
     "BASIC_RECOVEROK_RECEIVED", "BASIC_REJECT_RECEIVED", "BASIC_REJECT_SENT"}

\* The life of the connection and of the channel, and the parts of a message.
Steps ==
    [UNINITIALIZED             |-> {"DISCONNECTED"},
     EXCEPTION                 |-> {"CLOSING", "CLOSED", "DISCONNECTED"},
     DISCONNECTED              |-> {"CONNECTING"},
     CONNECTING                |-> {"CONNECTED", "CLOSED"},
     CONNECTED                 |-> {"OPENED", "CLOSING", "CLOSED"},
     OPENED                    |-> {"OPENING_CHANNEL"},
     OPENING_CHANNEL           |-> {"CHANNEL_OPEN_SENT"},
     CHANNEL_CLOSE_RECEIVED    |-> {"CHANNEL_CLOSEOK_SENT"},
     CHANNEL_CLOSEOK_RECEIVED  |-> {"OPENING_CHANNEL", "CLOSING"},
     CHANNEL_CLOSEOK_SENT      |-> {"OPENING_CHANNEL"},
     CHANNEL_FLOW_RECEIVED     |-> {"CHANNEL_FLOWOK_SENT"},
     BASIC_DELIVER_RECEIVED    |-> {"CONTENT_HEADER_RECEIVED"},
     BASIC_GETOK_RECEIVED      |-> {"CONTENT_HEADER_RECEIVED"},
     BASIC_RETURN_RECEIVED     |-> {"CONTENT_HEADER_RECEIVED"},
     CONTENT_HEADER_RECEIVED   |-> {"CONTENT_BODY_RECEIVED"},
     CONTENT_BODY_RECEIVED     |-> {"MESSAGE_ASSEMBLED"},
     CLOSING                   |-> {"CLOSED"},
     CLOSED                    |-> {"CONNECTING"}]

ClientState ==
    DOMAIN Steps \cup DOMAIN Strict \cup DOMAIN Refusable \cup DOMAIN IdleWith
        \cup IdleAfter

\* _STATE_TRANSITIONS
ClientTransitions ==
    [s \in ClientState |->
        CASE s \in DOMAIN Steps     -> Steps[s]
          [] s \in DOMAIN Strict    -> Strict[s]
          [] s \in DOMAIN Refusable -> Refusable[s] \cup {"CHANNEL_CLOSE_RECEIVED"}
          [] s \in DOMAIN IdleWith  -> IdleWith[s] \cup Idle
          [] s \in IdleAfter        -> Idle]

\* The states of Client.is_closed, apart from Channel0 and the transport.
ClosedClientStates == {"CLOSING", "CLOSED", "DISCONNECTED", "EXCEPTION", "UNINITIALIZED"}
=============================================================================
