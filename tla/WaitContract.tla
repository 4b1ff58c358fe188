---------------------------- MODULE WaitContract ----------------------------
(***************************************************************************)
(* What aiorabbit/state.py promises the coroutines that wait on a state:   *)
(* a wait ends with one of its states that was entered since it began, or  *)
(* with the recorded exception, which comes first and ends one wait only.  *)
(* Nothing is said of events, of callbacks and of the loop: StateWaits,    *)
(* which has them, implements this module.                                 *)
(***************************************************************************)
CONSTANTS State, Waiter, WaitArgs, None

VARIABLES
    task,      \* per waiter: where its coroutine is and what it waits on
    entered,   \* per waiter: the states it asks for entered while it waits
    recorded,  \* the exception that is recorded, or None
    fresh,     \* the exception objects that do not exist yet
    delivered  \* per exception object: the waiters it was raised to

vars == <<task, entered, recorded, fresh, delivered>>

Waiting(w) == task[w].pc = "waiting"
Asked(w) == {task[w].args[i] : i \in DOMAIN task[w].args}

Init ==
    /\ task = [w \in Waiter |-> [pc |-> "idle", args |-> <<>>]]
    /\ entered = [w \in Waiter |-> {}]
    /\ recorded = None
    /\ delivered = [e \in fresh |-> {}]

---------------------------------------------------------------------------
(* Those who set the state *)

Records ==
    /\ recorded' \in fresh
    /\ fresh' = fresh \ {recorded'}

\* A state is entered, with a new exception or none; one recorded before is gone.
Enters(state) ==
    /\ entered' = [w \in Waiter |->
                     IF Waiting(w) THEN entered[w] \cup ({state} \cap Asked(w))
                     ELSE entered[w]]
    /\ Records \/ (recorded' = None /\ UNCHANGED fresh)
    /\ UNCHANGED <<task, delivered>>

\* A state is refused, which is an exception of its own.
Refuses == Records /\ UNCHANGED <<task, entered, delivered>>

\* The state is reset.
Forgets == recorded' = None /\ UNCHANGED <<task, entered, fresh, delivered>>

---------------------------------------------------------------------------
(* Those who wait *)

\* The exception that is recorded ends the wait, and is recorded no more.
Takes(w) ==
    /\ recorded # None
    /\ task' = [task EXCEPT ![w] = [pc |-> "raised", args |-> <<>>]]
    /\ delivered' = [delivered EXCEPT ![recorded] = @ \cup {w}]
    /\ recorded' = None
    /\ UNCHANGED fresh

Begin(w, args) ==
    /\ ~ Waiting(w)
    /\ \/ Takes(w)
       \/ /\ recorded = None
          /\ task' = [task EXCEPT ![w] = [pc |-> "waiting", args |-> args]]
          /\ UNCHANGED <<recorded, fresh, delivered>>
    /\ entered' = [entered EXCEPT ![w] = {}]

Raise(w) == Waiting(w) /\ Takes(w) /\ UNCHANGED entered

Return(w) ==
    /\ Waiting(w) /\ recorded = None
    /\ \E state \in entered[w] :
          task' = [task EXCEPT ![w] = [pc |-> "returned", args |-> <<state>>]]
    /\ UNCHANGED <<entered, recorded, fresh, delivered>>

Next ==
    \/ \E state \in State : Enters(state)
    \/ Refuses
    \/ Forgets
    \/ \E w \in Waiter, args \in WaitArgs : Begin(w, args)
    \/ \E w \in Waiter : Raise(w) \/ Return(w)

Spec == Init /\ [][Next]_vars
=============================================================================
