----------------------------- MODULE StateWaits -----------------------------
(***************************************************************************)
(* One StateManager, the callbacks and coroutines that set its state, and  *)
(* the coroutines that wait on it, interleaved by the event loop.  Every   *)
(* action is one uninterrupted stretch of Python between two awaits.       *)
(***************************************************************************)
EXTENDS StateManager

CONSTANTS WaitArgs,   \* the argument lists _wait_on_state is called with
          MaxErrors,  \* bound: exception objects created in a behaviour
          MaxReady    \* bound: _set_state calls whose callbacks are pending

Error == 1..MaxErrors

ASSUME StateManagerAssumption ==
    /\ UNINITIALIZED \in State /\ EXCEPTION \in State
    /\ Transitions \in [State -> SUBSET State]
    /\ WaitArgs \subseteq Seq(State)
    /\ None = 0
    /\ MaxErrors \in Nat

VARIABLES
    manager,    \* the StateManager
    task,       \* per waiter: where its coroutine is and what it waits on
    nextError,  \* the next exception object; an object is an identity
    \* auxiliary, read by properties only
    visited,    \* per waiter: the states it asks for entered while it waits
    orphaned,   \* the waiters a _reset_state found waiting
    delivered   \* per exception object: the waiters it was raised to

vars == <<manager, task, nextError, visited, orphaned, delivered>>

Idle == [pc |-> "idle", args |-> <<>>]
Waiting(w) == task[w].pc = "waiting"
Asked(w) == {task[w].args[i] : i \in DOMAIN task[w].args}

Init ==
    /\ manager = NewManager
    /\ task = [w \in Waiter |-> Idle]
    /\ nextError = 1
    /\ visited = [w \in Waiter |-> {}]
    /\ orphaned = {}
    /\ delivered = [e \in Error |-> {}]

---------------------------------------------------------------------------
(* Setting the state *)

\* The states a call of _set_state enters: none when it returns early or refuses.
Entered(value, exc) ==
    IF Unchanged(manager, value, exc) \/ Refuses(manager, value, exc)
    THEN {} ELSE {value}

Visit(states) ==
    visited' = [w \in Waiter |->
                  IF Waiting(w) THEN visited[w] \cup (states \cap Asked(w))
                  ELSE visited[w]]

\* The caller passes no exception or a new one; a refusal is a new one.
NewErrorIf(new) ==
    IF new THEN nextError \in Error /\ nextError' = nextError + 1
    ELSE UNCHANGED nextError

\* A coroutine calls _set_state: a refusal is raised to that coroutine.
Call(value, exc) ==
    /\ Len(manager.ready) < MaxReady
    /\ NewErrorIf(exc # None \/ Refuses(manager, value, exc))
    /\ manager' = SetState(manager, value, exc, nextError)
    /\ Visit(Entered(value, exc))
    /\ UNCHANGED <<task, orphaned, delivered>>

\* Mutant: a refusal raises an exception object that was used before.
CallbackStaleRefusal(value, exc) ==
    /\ Len(manager.ready) < MaxReady
    /\ NewErrorIf(exc # None)
    /\ manager' = SetStateInCallback(manager, value, exc, nextError)
    /\ Visit(Entered(value, exc))
    /\ UNCHANGED <<task, orphaned, delivered>>

\* A callback of the loop calls _set_state: a refusal goes to _on_exception.
Callback(value, exc) ==
    /\ Len(manager.ready) < MaxReady
    /\ NewErrorIf(exc # None \/ Refuses(manager, value, exc))
    /\ manager' = SetStateInCallback(manager, value, exc, nextError)
    /\ Visit(IF Refuses(manager, value, exc) /\ manager.state # EXCEPTION
             THEN {EXCEPTION} ELSE Entered(value, exc))
    /\ UNCHANGED <<task, orphaned, delivered>>

\* The loop hands _on_exception what some other callback raised, or a context
\* without an exception.
LoopException(exc) ==
    /\ Len(manager.ready) < MaxReady
    /\ NewErrorIf(exc # None)
    /\ manager' = OnException(manager, exc)
    /\ Visit(Entered(EXCEPTION, exc))
    /\ UNCHANGED <<task, orphaned, delivered>>

Reset(value) ==
    /\ manager' = ResetState(manager, value)
    /\ orphaned' = orphaned \cup {w \in Waiter : Waiting(w)}
    /\ UNCHANGED <<task, nextError, visited, delivered>>

---------------------------------------------------------------------------
(* Waiting on a state *)

Finish(w, m, outcome) ==
    /\ task' = [task EXCEPT ![w] = outcome]
    /\ manager' = AfterPoll(m, w)
    /\ orphaned' = orphaned \ {w}

Raised == [pc |-> "raised", args |-> <<>>]
Returned(state) == [pc |-> "returned", args |-> <<state>>]

Deliver(w, exc) == delivered' = [delivered EXCEPT ![exc] = @ \cup {w}]

\* The call up to its first sleep: a recorded exception ends it at once.
Wait(w, args) ==
    LET m == Register(manager, w, {args[i] : i \in DOMAIN args})
    IN  /\ ~ Waiting(w)
        /\ IF PollRaises(m, w)
           THEN Finish(w, m, Raised) /\ Deliver(w, m.exception)
           ELSE /\ manager' = m
                /\ task' = [task EXCEPT ![w] = [pc |-> "waiting", args |-> args]]
                /\ UNCHANGED <<orphaned, delivered>>
        /\ visited' = [visited EXCEPT ![w] = {}]
        /\ UNCHANGED nextError

\* The turn of the loop in _wait_on_state that ends it, one way or the other.
\* A turn that finds nothing sleeps again and changes nothing.
Raise(w) ==
    /\ Waiting(w)
    /\ PollRaises(manager, w)
    /\ Finish(w, manager, Raised)
    /\ Deliver(w, manager.exception)
    /\ UNCHANGED <<nextError, visited>>

Return(w) ==
    /\ Waiting(w)
    /\ \E state \in State :
          /\ PollReturns(manager, w, task[w].args, state)
          /\ Finish(w, manager, Returned(state))
    /\ UNCHANGED <<nextError, visited, delivered>>

Poll(w) == Raise(w) \/ Return(w)

RunReady ==
    /\ manager.ready # <<>>
    /\ manager' = RunCallbacks(manager)
    /\ UNCHANGED <<task, nextError, visited, orphaned, delivered>>

Next ==
    \/ \E value \in State, exc \in {None, nextError} : Call(value, exc)
    \/ \E value \in State, exc \in {None, nextError} : Callback(value, exc)
    \/ \E exc \in {None, nextError} : LoopException(exc)
    \/ \E value \in State : Reset(value)
    \/ \E w \in Waiter, args \in WaitArgs : Wait(w, args)
    \/ \E w \in Waiter : Poll(w)
    \/ RunReady

\* The loop runs every callback it was given and wakes every sleeper.
Fairness == WF_vars(RunReady) /\ \A w \in Waiter : WF_vars(Poll(w))

Spec == Init /\ [][Next]_vars /\ Fairness

---------------------------------------------------------------------------
(* Properties *)

\* The type invariant: of the manager's record, the coroutines and the
\* auxiliary variables.
TypeOK ==
    /\ manager \in ManagerWith(Error)
    /\ task \in [Waiter -> [pc   : {"idle", "waiting", "returned", "raised"},
                            args : Seq(State)]]
    /\ nextError \in 1..(MaxErrors + 1)
    /\ visited \in [Waiter -> SUBSET State]
    /\ orphaned \subseteq Waiter
    /\ delivered \in [Error -> SUBSET Waiter]

\* What is promised to those who wait, on the variables of this module.
Contract == INSTANCE WaitContract
            WITH entered <- visited, recorded <- manager.exception,
                 fresh <- nextError..MaxErrors

\* The state manager keeps its promise: whatever its events, the loop's callbacks and
\* the other waiters do, a wait ends with a state of its own that was entered since it
\* began or with the recorded exception, which comes first and is then gone.
\* (_set_state, _reset_state, _wait_on_state)
ImplementsContract == Contract!Spec

\* A wait that returns a state returns one that the manager entered after the
\* wait began: no event of an earlier wait can end a later one.  (_clear_waits,
\* _wait_on_state)
ReturnsOnlyVisited ==
    \A w \in Waiter :
        task[w].pc = "returned" => task[w].args[1] \in visited[w]

\* Once a state a coroutine waits on was entered, an event that ends the wait
\* is set or on its way, however many states were entered since: a state that
\* is left again before the 1 ms poll is not missed.  Only a _reset_state can
\* take that away.  (_set_state, _wait_on_state)
NoLostWakeup ==
    \A w \in Waiter :
        Waiting(w) /\ w \notin orphaned =>
            visited[w] \X {w} \subseteq Pending(manager)

\* An exception object is raised to at most one waiter.  (_wait_on_state takes
\* the exception it raises out of the manager)
DeliveredOnce ==
    \A e \in Error : \A v, w \in delivered[e] : v = w

\* The manager holds events of waiting coroutines only, and of states they ask
\* for: a wait that ended, however it ended, leaves nothing behind.
\* (_clear_waits, on both ways out of _wait_on_state)
NoLeak ==
    \A s \in State, w \in Waiter :
        <<s, w>> \in manager.waits \cup Pending(manager) =>
            Waiting(w) /\ s \in Asked(w)

\* A coroutine whose state was entered returns or raises: it does not poll for
\* ever.  (_set_state schedules the event, _wait_on_state polls it)
EnteredIsNoticed ==
    \A w \in Waiter :
        (Waiting(w) /\ w \notin orphaned /\ visited[w] # {})
            ~> ~ Waiting(w)

\* While a coroutine waits, a recorded exception does not stay recorded: some
\* waiter is given it, or a later state replaces it.
ErrorIsNoticed ==
    \A e \in Error :
        manager.exception = e
            ~> (manager.exception # e \/ \A w \in Waiter : ~ Waiting(w))
=============================================================================
