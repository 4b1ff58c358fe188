---------------------------- MODULE StateManager ----------------------------
(***************************************************************************)
(* The state manager of aiorabbit/state.py, as operators on a record: the  *)
(* base class of Client and of Channel0.  A manager m has                  *)
(*   state      the current state                                          *)
(*   exception  the exception recorded with it, None when there is none    *)
(*   waits      the registered events: pairs <<state, waiter>>             *)
(*   ready      the event loop's callbacks that set events: one set of     *)
(*              events per _set_state call, in the order of the calls      *)
(*   fired      the events that are set                                    *)
(* A waiter is a coroutine inside _wait_on_state; its wait_id is its       *)
(* identity, so two waiters of the same nanosecond are not modelled.       *)
(***************************************************************************)
EXTENDS Naturals, Sequences

CONSTANTS State, Transitions, Waiter, UNINITIALIZED, EXCEPTION, None

Event == State \X Waiter

\* The managers whose exceptions are among errors.
ManagerWith(errors) == [state     : State,
                        exception : errors \cup {None},
                        waits     : SUBSET Event,
                        ready     : Seq(SUBSET Event),
                        fired     : SUBSET Event]

\* The events that are set or will be by a callback the loop already has.
Pending(m) == {e \in Event : \/ e \in m.fired
                             \/ \E i \in DOMAIN m.ready : e \in m.ready[i]}

\* StateManager.__init__
NewManager == [state     |-> UNINITIALIZED,
               exception |-> None,
               waits     |-> {},
               ready     |-> <<>>,
               fired     |-> {}]

---------------------------------------------------------------------------
(* _set_state *)

Unchanged(m, value, exc) == value = m.state /\ exc = m.exception

\* Mutant: the exception state can be left for any state.
RefusesUnlessFailed(m, value, exc) ==
    /\ ~ Unchanged(m, value, exc)
    /\ EXCEPTION \notin {value, m.state}
    /\ value \notin Transitions[m.state]

Refuses(m, value, exc) ==
    /\ ~ Unchanged(m, value, exc)
    /\ value # EXCEPTION
    /\ value \notin Transitions[m.state]

\* The refusal is kept as the manager's exception, and raised to the caller.
Refuse(m, refusal) == [m EXCEPT !.exception = refusal]

\* Mutant: one event is scheduled, not one per waiter.
ScheduledOne(m, value) ==
    {e \in m.waits : e[1] = value /\ e = CHOOSE f \in m.waits : f[1] = value}

\* One call_soon(event.set) per event registered for the new state.
Scheduled(m, value) == {e \in m.waits : e[1] = value}

\* Mutant: a state entered with an exception wakes nobody.
EnterQuiet(m, value, exc) ==
    [m EXCEPT !.exception = exc,
              !.state = value,
              !.ready = IF exc # None \/ Scheduled(m, value) = {} THEN @
                        ELSE Append(@, Scheduled(m, value))]

Enter(m, value, exc) ==
    [m EXCEPT !.exception = exc,
              !.state = value,
              !.ready = IF Scheduled(m, value) = {} THEN @
                        ELSE Append(@, Scheduled(m, value))]

SetState(m, value, exc, refusal) ==
    IF Unchanged(m, value, exc) THEN m
    ELSE IF Refuses(m, value, exc) THEN Refuse(m, refusal)
    ELSE Enter(m, value, exc)

\* _on_exception: the loop's handler for what a callback raised.
OnException(m, exc) == SetState(m, EXCEPTION, exc, exc)

\* A refusal raised inside a callback comes back through the loop's handler.
SetStateInCallback(m, value, exc, refusal) ==
    IF Refuses(m, value, exc) THEN OnException(Refuse(m, refusal), refusal)
    ELSE SetState(m, value, exc, refusal)

\* _reset_state: the waiters keep the events they hold, the manager forgets them.
ResetState(m, value) ==
    [m EXCEPT !.state = value, !.exception = None, !.waits = {}]

---------------------------------------------------------------------------
(* _wait_on_state *)

Register(m, w, states) == [m EXCEPT !.waits = @ \cup (states \X {w})]

EventsOf(w) == State \X {w}

\* Mutant: the events of a wait outlive it.
ClearWaitsKeepsSet(m, w) == [m EXCEPT !.waits = @ \ EventsOf(w)]

\* _clear_waits.  The events die with the call that made them, so what the
\* loop still has to set of them is dropped as well.
ClearWaits(m, w) ==
    [m EXCEPT !.waits = @ \ EventsOf(w),
              !.ready = [i \in DOMAIN @ |-> @[i] \ EventsOf(w)],
              !.fired = @ \ EventsOf(w)]

\* The event loop runs the callbacks of one _set_state; nothing can come
\* between them, call_soon puts them side by side.
RunCallbacks(m) == [m EXCEPT !.fired = @ \cup Head(m.ready), !.ready = Tail(@)]

IsSet(m, w, state) == <<state, w>> \in m.fired

\* Mutant: the exception is only looked at when an event is set.
PollRaisesOnEvent(m, w) == m.exception # None /\ m.fired \cap EventsOf(w) # {}

\* A recorded exception ends the wait, whether or not an event is set too.
PollRaises(m, w) == m.exception # None

\* A wait returns the first of its arguments whose event is set.
PollReturns(m, w, args, state) ==
    /\ m.exception = None
    /\ \E i \in DOMAIN args : /\ state = args[i]
                              /\ IsSet(m, w, args[i])
                              /\ \A j \in 1..(i - 1) : ~ IsSet(m, w, args[j])

\* Mutant: a wait that an event ends leaves the exception it raised recorded.
AfterPollKeeps(m, w) ==
    [ClearWaits(m, w) EXCEPT
        !.exception = IF m.fired \cap EventsOf(w) # {} THEN @ ELSE None]

\* What a wait that ends leaves behind.
AfterPoll(m, w) == [ClearWaits(m, w) EXCEPT !.exception = None]
=============================================================================
