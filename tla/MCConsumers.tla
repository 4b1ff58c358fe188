---------------------------- MODULE MCConsumers ----------------------------
(***************************************************************************)
(* Instances of Consumers for TLC.                                         *)
(***************************************************************************)
EXTENDS Consumers

How(type, multiple, requeue) == [type |-> type, multiple |-> multiple, requeue |-> requeue]

\* The first task makes so many calls, and every other task one.
Mostly(calls) == [t \in Task |-> IF t = CHOOSE u \in Task : TRUE THEN calls ELSE 1]

\* A careful application, and a queue of two messages, one of them in two frames.
Careful ==
    [careful |-> TRUE, calls |-> Mostly(3), methods |-> DOMAIN Request,
     settlements |-> {How("ack", FALSE, FALSE)}, bodies |-> <<1, 2>>, prefetch |-> 1,
     refusals |-> {"queue_declare"}, deleted |-> FALSE]

\* Requests, deliveries and settlements in any order.
Careless ==
    [Careful EXCEPT !.careful = FALSE, !.calls = Mostly(1),
                    !.methods = {"basic_consume", "queue_declare"},
                    !.settlements = {How("ack", TRUE, FALSE), How("reject", FALSE, TRUE)},
                    !.prefetch = 0, !.bodies = <<1, 1>>]

\* Consumers whose queue is deleted.
Deleted ==
    [Careless EXCEPT !.settlements = {}, !.bodies = <<1>>, !.methods = {"consume", "basic_cancel"},
                     !.refusals = {}, !.deleted = TRUE]

All == {Careful, Careless, Deleted}

\* A consumer that is cancelled while it is served.
Cancelled ==
    {[Careful EXCEPT !.careful = FALSE, !.refusals = {},
                     !.methods = {"basic_consume", "basic_cancel"}]}
=============================================================================
