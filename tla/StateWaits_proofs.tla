-------------------------- MODULE StateWaits_proofs --------------------------
(***************************************************************************)
(* Proofs about StateWaits, for every transition table, set of waiters and *)
(* bound: the safety properties that the run state_waits checks on the     *)
(* table of the unit tests.                                                *)
(***************************************************************************)
EXTENDS StateWaits, TLAPS

---------------------------------------------------------------------------
(* What the operators of the state manager do to the pending events *)

\* Entering a state adds the events registered for it to the pending ones.
LEMMA EnterPends ==
    ASSUME NEW errors, NEW m \in ManagerWith(errors), NEW value, NEW exc
    PROVE  Pending(Enter(m, value, exc)) = Pending(m) \cup Scheduled(m, value)
<1> DEFINE n == Enter(m, value, exc)
<1>1. /\ m.ready \in Seq(SUBSET Event) /\ m.waits \subseteq Event
      /\ m.fired \subseteq Event
  BY DEF ManagerWith
<1>2. Scheduled(m, value) \in SUBSET Event
  BY <1>1 DEF Scheduled
<1>3. n.fired = m.fired
  BY DEF Enter, ManagerWith
<1>4. CASE Scheduled(m, value) = {}
  <2>1. n.ready = m.ready
    BY <1>4 DEF Enter, ManagerWith
  <2> QED BY <2>1, <1>3, <1>4 DEF Pending
<1>5. CASE Scheduled(m, value) # {}
  <2>1. n.ready = Append(m.ready, Scheduled(m, value))
    BY <1>5 DEF Enter, ManagerWith
  <2>2. /\ DOMAIN m.ready = 1..Len(m.ready)
        /\ DOMAIN n.ready = 1..(Len(m.ready) + 1)
        /\ Len(m.ready) \in Nat
    BY <2>1, <1>1, <1>2
  <2>3. /\ \A i \in DOMAIN m.ready : n.ready[i] = m.ready[i]
        /\ n.ready[Len(m.ready) + 1] = Scheduled(m, value)
    BY <2>1, <1>1, <1>2
  <2>4. \A e : (\E i \in DOMAIN n.ready : e \in n.ready[i])
               <=> (\/ \E i \in DOMAIN m.ready : e \in m.ready[i]
                    \/ e \in Scheduled(m, value))
    BY <2>2, <2>3
  <2> QED BY <2>4, <1>2, <1>3 DEF Pending
<1> QED BY <1>4, <1>5

\* Running a callback turns pending events into set ones, which are pending too.
LEMMA RunCallbacksPends ==
    ASSUME NEW errors, NEW m \in ManagerWith(errors), m.ready # <<>>
    PROVE  /\ Pending(RunCallbacks(m)) = Pending(m)
           /\ RunCallbacks(m) \in ManagerWith(errors)
<1> DEFINE n == RunCallbacks(m)
<1>1. m.ready \in Seq(SUBSET Event) /\ m.fired \subseteq Event
  BY DEF ManagerWith
<1>2. /\ n.fired = m.fired \cup Head(m.ready)
      /\ n.ready = Tail(m.ready)
  BY DEF RunCallbacks, ManagerWith
<1>3. /\ Len(m.ready) \in Nat /\ Len(m.ready) > 0
      /\ Head(m.ready) = m.ready[1] /\ Head(m.ready) \in SUBSET Event
      /\ Tail(m.ready) \in Seq(SUBSET Event)
      /\ DOMAIN m.ready = 1..Len(m.ready)
      /\ DOMAIN n.ready = 1..(Len(m.ready) - 1)
      /\ \A i \in 1..(Len(m.ready) - 1) : n.ready[i] = m.ready[i + 1]
  BY <1>1, <1>2
<1>4. \A e : (\E i \in DOMAIN m.ready : e \in m.ready[i])
             <=> (\/ e \in m.ready[1]
                  \/ \E i \in DOMAIN n.ready : e \in n.ready[i])
  <2> SUFFICES ASSUME NEW e
               PROVE  (\E i \in DOMAIN m.ready : e \in m.ready[i])
                      <=> (\/ e \in m.ready[1]
                           \/ \E i \in DOMAIN n.ready : e \in n.ready[i])
    OBVIOUS
  <2> HIDE DEF n
  <2>1. ASSUME NEW i \in DOMAIN m.ready, e \in m.ready[i], e \notin m.ready[1]
        PROVE  \E j \in DOMAIN n.ready : e \in n.ready[j]
    <3>1. i - 1 \in DOMAIN n.ready /\ n.ready[i - 1] = m.ready[i]
      BY <2>1, <1>3
    <3> QED BY <3>1, <2>1
  <2>2. ASSUME NEW j \in DOMAIN n.ready, e \in n.ready[j]
        PROVE  \E i \in DOMAIN m.ready : e \in m.ready[i]
    <3>1. j + 1 \in DOMAIN m.ready /\ m.ready[j + 1] = n.ready[j]
      BY <1>3
    <3> QED BY <3>1, <2>2
  <2>3. 1 \in DOMAIN m.ready
    BY <1>3
  <2> QED BY <2>1, <2>2, <2>3
<1>5. Pending(n) = Pending(m)
  BY <1>2, <1>3, <1>4 DEF Pending
<1>6. n \in ManagerWith(errors)
  BY <1>2, <1>3 DEF RunCallbacks, ManagerWith
<1> QED BY <1>5, <1>6

\* Clearing a waiter's events clears exactly those, wherever they are.
LEMMA ClearWaitsPends ==
    ASSUME NEW errors, NEW m \in ManagerWith(errors), NEW w
    PROVE  /\ Pending(ClearWaits(m, w)) = Pending(m) \ EventsOf(w)
           /\ ClearWaits(m, w) \in ManagerWith(errors)
<1> DEFINE n == ClearWaits(m, w)
<1>1. m.ready \in Seq(SUBSET Event)
  BY DEF ManagerWith
<1>2. /\ n.fired = m.fired \ EventsOf(w)
      /\ n.ready = [i \in DOMAIN m.ready |-> m.ready[i] \ EventsOf(w)]
      /\ n.waits = m.waits \ EventsOf(w)
      /\ n.state = m.state /\ n.exception = m.exception
  BY DEF ClearWaits, ManagerWith
<1>3. /\ DOMAIN n.ready = DOMAIN m.ready
      /\ \A i \in DOMAIN m.ready : n.ready[i] = m.ready[i] \ EventsOf(w)
  BY <1>2
<1>4. n.ready \in Seq(SUBSET Event)
  <2>1. PICK k \in Nat : m.ready \in [1..k -> SUBSET Event]
    BY <1>1, Len(m.ready) \in Nat
  <2>2. n.ready \in [1..k -> SUBSET Event]
    BY <2>1, <1>2
  <2> QED BY <2>2
<1>5. Pending(n) = Pending(m) \ EventsOf(w)
  BY <1>2, <1>3 DEF Pending
<1>6. n \in ManagerWith(errors)
  BY <1>2, <1>4 DEF ClearWaits, ManagerWith
<1> QED BY <1>5, <1>6

---------------------------------------------------------------------------
(* The inductive invariant *)

\* A wait is registered for every state it asks for until a reset forgets it.
Registered ==
    \A w \in Waiter : Waiting(w) /\ w \notin orphaned =>
        Asked(w) \X {w} \subseteq manager.waits

\* An event is pending only when its state was entered during the wait.
PendingWasVisited ==
    \A s \in State, w \in Waiter :
        <<s, w>> \in Pending(manager) => s \in visited[w]

\* The exceptions not raised yet: the recorded one and those still to come.
Undelivered ==
    \A e \in Error :
        (e >= nextError \/ e = manager.exception) => delivered[e] = {}

RecordedIsOld == manager.exception < nextError

IInv ==
    /\ TypeOK
    /\ NoLeak
    /\ Registered
    /\ PendingWasVisited
    /\ NoLostWakeup
    /\ ReturnsOnlyVisited
    /\ Undelivered
    /\ RecordedIsOld
    /\ DeliveredOnce

\* What the three actions that call _set_state have in common.
NewErrorStep(exc) ==
    /\ nextError' \in 1..(MaxErrors + 1)
    /\ \/ exc = None /\ nextError' = nextError
       \/ exc = nextError /\ exc \in Error /\ nextError' = nextError + 1

SetStep(value, exc) ==
    /\ NewErrorStep(exc)
    /\ \/ manager' = Enter(manager, value, exc) /\ Visit({value})
       \/ manager' = Refuse(manager, exc) /\ Visit({})
       \/ manager' = manager /\ Visit({}) /\ exc = manager.exception
    /\ UNCHANGED <<task, orphaned, delivered>>

LEMMA ErrorStep ==
    ASSUME TypeOK, NEW exc \in {None, nextError}, NEW new \in BOOLEAN,
           NewErrorIf(new), exc # None <=> new
    PROVE  NewErrorStep(exc)
BY StateManagerAssumption DEF TypeOK, NewErrorIf, NewErrorStep, Error

LEMMA RefusalStep ==
    ASSUME TypeOK, NewErrorIf(TRUE)
    PROVE  NewErrorStep(nextError)
BY StateManagerAssumption DEF TypeOK, NewErrorIf, NewErrorStep, Error

\* Refusing and then recording the refusal enters the exception state.
LEMMA EnterRefused ==
    ASSUME NEW errors, NEW m \in ManagerWith(errors), NEW exc
    PROVE  Enter(Refuse(m, exc), EXCEPTION, exc) = Enter(m, EXCEPTION, exc)
BY DEF Enter, Refuse, Scheduled, ManagerWith

LEMMA CallIsSetStep ==
    ASSUME TypeOK, NEW value \in State, NEW exc \in {None, nextError}, Call(value, exc)
    PROVE  \E x \in {None, nextError} : SetStep(value, x)
<1>1. CASE Unchanged(manager, value, exc)
  <2>1. manager' = manager /\ Visit({}) /\ exc = manager.exception
    BY <1>1 DEF Call, SetState, Entered, Unchanged
  <2>2. NewErrorStep(exc)
    BY <1>1, ErrorStep DEF Call, Unchanged, Refuses
  <2> QED BY <2>1, <2>2 DEF SetStep, Call
<1>2. CASE Refuses(manager, value, exc)
  <2>1. manager' = Refuse(manager, nextError) /\ Visit({})
    BY <1>2 DEF Call, SetState, Entered, Refuses
  <2>2. NewErrorStep(nextError)
    BY <1>2, RefusalStep DEF Call, NewErrorIf
  <2> QED BY <2>1, <2>2 DEF SetStep, Call
<1>3. CASE ~ Unchanged(manager, value, exc) /\ ~ Refuses(manager, value, exc)
  <2>1. manager' = Enter(manager, value, exc) /\ Visit({value})
    BY <1>3 DEF Call, SetState, Entered
  <2>2. NewErrorStep(exc)
    BY <1>3, ErrorStep DEF Call
  <2> QED BY <2>1, <2>2 DEF SetStep, Call
<1> QED BY <1>1, <1>2, <1>3

LEMMA LoopExceptionIsSetStep ==
    ASSUME TypeOK, NEW exc \in {None, nextError}, LoopException(exc)
    PROVE  SetStep(EXCEPTION, exc)
<1>1. NewErrorStep(exc)
  BY ErrorStep DEF LoopException
<1>2. ~ Refuses(manager, EXCEPTION, exc)
  BY DEF Refuses
<1>3. \/ manager' = Enter(manager, EXCEPTION, exc) /\ Visit({EXCEPTION})
      \/ manager' = manager /\ Visit({}) /\ exc = manager.exception
  BY <1>2 DEF LoopException, OnException, SetState, Entered, Unchanged
<1> QED BY <1>1, <1>3 DEF SetStep, LoopException

LEMMA CallbackIsSetStep ==
    ASSUME TypeOK, NEW value \in State, NEW exc \in {None, nextError},
           Callback(value, exc)
    PROVE  \E v \in {value, EXCEPTION}, x \in {None, nextError} : SetStep(v, x)
<1>1. CASE ~ Refuses(manager, value, exc)
  <2>1. NewErrorStep(exc)
    BY <1>1, ErrorStep DEF Callback
  <2>2. \/ manager' = Enter(manager, value, exc) /\ Visit({value})
        \/ manager' = manager /\ Visit({}) /\ exc = manager.exception
    BY <1>1 DEF Callback, SetStateInCallback, SetState, Entered, Unchanged
  <2> QED BY <2>1, <2>2 DEF SetStep, Callback
<1>2. CASE Refuses(manager, value, exc)
  <2>1. NewErrorStep(nextError)
    BY <1>2, RefusalStep DEF Callback, NewErrorIf
  <2> DEFINE m == Refuse(manager, nextError)
  <2>2. m.state = manager.state /\ m.exception = nextError
    BY DEF Refuse, TypeOK, ManagerWith
  <2>3. manager' = SetState(m, EXCEPTION, nextError, nextError)
    BY <1>2 DEF Callback, SetStateInCallback, OnException
  <2>4. CASE manager.state = EXCEPTION
    <3>1. manager' = m
      BY <2>2, <2>3, <2>4 DEF SetState, Unchanged
    <3>2. Visit({})
      BY <1>2, <2>4 DEF Callback, Entered
    <3> QED BY <3>1, <3>2, <2>1 DEF SetStep, Callback
  <2>5. CASE manager.state # EXCEPTION
    <3>1. manager' = Enter(m, EXCEPTION, nextError)
      BY <2>2, <2>3, <2>5 DEF SetState, Unchanged, Refuses
    <3>2. manager' = Enter(manager, EXCEPTION, nextError)
      BY <3>1, EnterRefused DEF TypeOK
    <3>3. Visit({EXCEPTION})
      BY <1>2, <2>5 DEF Callback
    <3> QED BY <3>2, <3>3, <2>1 DEF SetStep, Callback
  <2> QED BY <2>4, <2>5
<1> QED BY <1>1, <1>2

---------------------------------------------------------------------------
(* Every step preserves the inductive invariant *)

LEMMA EnterType ==
    ASSUME NEW errors, NEW m \in ManagerWith(errors), NEW value \in State,
           NEW exc \in errors \cup {None}
    PROVE  Enter(m, value, exc) \in ManagerWith(errors)
<1>1. Scheduled(m, value) \in SUBSET Event
  BY DEF Scheduled, ManagerWith
<1>2. Append(m.ready, Scheduled(m, value)) \in Seq(SUBSET Event)
  BY <1>1 DEF ManagerWith
<1> QED BY <1>2 DEF Enter, ManagerWith

LEMMA SetStepTypeOK ==
    ASSUME TypeOK, NEW value \in State, NEW exc \in {None, nextError},
           SetStep(value, exc)
    PROVE  TypeOK'
<1>1. exc \in Error \cup {None}
  BY DEF SetStep, NewErrorStep
<1>2. manager' \in ManagerWith(Error)
  <2>1. manager \in ManagerWith(Error)
    BY DEF TypeOK
  <2>2. Enter(manager, value, exc) \in ManagerWith(Error)
    BY <1>1, <2>1, EnterType
  <2>3. Refuse(manager, exc) \in ManagerWith(Error)
    BY <1>1, <2>1 DEF Refuse, ManagerWith
  <2> QED BY <2>1, <2>2, <2>3 DEF SetStep
<1>3. visited' \in [Waiter -> SUBSET State]
  BY DEF SetStep, Visit, TypeOK
<1>4. nextError' \in 1..(MaxErrors + 1)
  BY DEF SetStep, NewErrorStep
<1> QED BY <1>2, <1>3, <1>4 DEF TypeOK, SetStep

LEMMA SetStepPreserves ==
    ASSUME IInv, NEW value \in State, NEW exc \in {None, nextError},
           SetStep(value, exc)
    PROVE  IInv'
<1> USE DEF IInv
<1>1. TypeOK'
  BY SetStepTypeOK
<1>2. /\ task' = task /\ orphaned' = orphaned /\ delivered' = delivered
      /\ \A w \in Waiter : (Waiting(w))' = Waiting(w) /\ (Asked(w))' = Asked(w)
  BY DEF SetStep, Waiting, Asked
<1>3. PICK entered \in SUBSET State :
        /\ Visit(entered)
        /\ manager'.waits = manager.waits
        /\ Pending(manager') =
             Pending(manager) \cup {e \in manager.waits : e[1] \in entered}
        /\ manager'.exception \in {manager.exception, exc}
  <2>1. CASE manager' = Enter(manager, value, exc) /\ Visit({value})
    <3>1. Pending(manager') = Pending(manager) \cup Scheduled(manager, value)
      BY <2>1, EnterPends DEF TypeOK
    <3>2. Scheduled(manager, value) = {e \in manager.waits : e[1] \in {value}}
      BY DEF Scheduled
    <3>3. manager'.waits = manager.waits /\ manager'.exception = exc
      BY <2>1 DEF Enter, TypeOK, ManagerWith
    <3> QED BY <2>1, <3>1, <3>2, <3>3
  <2>2. CASE manager' = Refuse(manager, exc) /\ Visit({})
    <3>1. /\ manager'.waits = manager.waits /\ manager'.exception = exc
          /\ Pending(manager') = Pending(manager)
      BY <2>2 DEF Refuse, Pending, TypeOK, ManagerWith
    <3> QED BY <2>2, <3>1
  <2>3. CASE manager' = manager /\ Visit({})
    BY <2>3
  <2> QED BY <2>1, <2>2, <2>3 DEF SetStep
<1>4. \A w \in Waiter :
        visited'[w] = IF Waiting(w) THEN visited[w] \cup (entered \cap Asked(w))
                      ELSE visited[w]
  BY <1>3 DEF Visit
<1>5. \A s \in State, w \in Waiter :
        <<s, w>> \in Pending(manager') <=>
          (<<s, w>> \in Pending(manager) \/ (<<s, w>> \in manager.waits /\ s \in entered))
  BY <1>3
<1>6. NoLeak'
  BY <1>2, <1>3, <1>5 DEF NoLeak
<1>7. Registered'
  BY <1>2, <1>3 DEF Registered
<1>8. PendingWasVisited'
  BY <1>4, <1>5 DEF PendingWasVisited, NoLeak
<1>9. NoLostWakeup'
  <2> SUFFICES ASSUME NEW w \in Waiter, Waiting(w), w \notin orphaned,
                      NEW s \in visited'[w]
               PROVE  <<s, w>> \in Pending(manager')
    BY <1>2 DEF NoLostWakeup
  <2>1. s \in State
    BY <1>1 DEF TypeOK
  <2>2. s \in visited[w] \/ (s \in entered /\ s \in Asked(w))
    BY <1>4
  <2>3. CASE s \in visited[w]
    BY <2>3, <2>1, <1>5 DEF NoLostWakeup
  <2>4. CASE s \in entered /\ s \in Asked(w)
    BY <2>4, <2>1, <1>5 DEF Registered
  <2> QED BY <2>2, <2>3, <2>4
<1>10. ReturnsOnlyVisited'
  BY <1>2, <1>4 DEF ReturnsOnlyVisited, Waiting
<1>11. Undelivered' /\ RecordedIsOld' /\ DeliveredOnce'
  <2>1. /\ manager.exception \in Nat /\ nextError \in Nat /\ nextError >= 1
        /\ nextError' \in Nat /\ nextError' >= nextError
        /\ exc = 0 \/ (exc = nextError /\ nextError' = nextError + 1)
    BY StateManagerAssumption DEF SetStep, NewErrorStep, TypeOK, ManagerWith, Error
  <2>2. RecordedIsOld'
    BY <2>1, <1>3 DEF RecordedIsOld
  <2>3. Undelivered'
    BY <2>1, <1>2, <1>3, StateManagerAssumption DEF Undelivered, Error
  <2>4. DeliveredOnce'
    BY <1>2 DEF DeliveredOnce
  <2> QED BY <2>2, <2>3, <2>4
<1> QED BY <1>1, <1>6, <1>7, <1>8, <1>9, <1>10, <1>11

LEMMA ResetPreserves ==
    ASSUME IInv, NEW value \in State, Reset(value)
    PROVE  IInv'
<1> USE DEF IInv
<1>1. /\ manager' \in ManagerWith(Error)
      /\ manager'.waits = {} /\ manager'.exception = None
      /\ Pending(manager') = Pending(manager)
  BY DEF Reset, ResetState, TypeOK, ManagerWith, Pending
<1>2. /\ UNCHANGED <<task, nextError, visited, delivered>>
      /\ orphaned' = orphaned \cup {w \in Waiter : Waiting(w)}
      /\ \A w \in Waiter : (Waiting(w))' = Waiting(w) /\ (Asked(w))' = Asked(w)
  BY DEF Reset, Waiting, Asked
<1>3. TypeOK'
  BY <1>1, <1>2 DEF TypeOK
<1>4. NoLeak' /\ PendingWasVisited' /\ ReturnsOnlyVisited' /\ DeliveredOnce'
  BY <1>1, <1>2 DEF NoLeak, PendingWasVisited, ReturnsOnlyVisited, DeliveredOnce
<1>5. Registered' /\ NoLostWakeup'
  BY <1>2 DEF Registered, NoLostWakeup
<1>6. nextError \in Nat /\ nextError >= 1
  BY DEF TypeOK
<1>7. RecordedIsOld' /\ Undelivered'
  BY <1>1, <1>2, <1>6, StateManagerAssumption
  DEF RecordedIsOld, Undelivered, Error
<1> QED BY <1>3, <1>4, <1>5, <1>7

LEMMA RunReadyPreserves ==
    ASSUME IInv, RunReady
    PROVE  IInv'
<1> USE DEF IInv
<1>1. manager' \in ManagerWith(Error) /\ Pending(manager') = Pending(manager)
  BY RunCallbacksPends DEF RunReady, TypeOK
<1>2. manager'.waits = manager.waits /\ manager'.exception = manager.exception
  BY DEF RunReady, RunCallbacks, TypeOK, ManagerWith
<1>3. /\ UNCHANGED <<task, nextError, visited, orphaned, delivered>>
      /\ \A w \in Waiter : (Waiting(w))' = Waiting(w) /\ (Asked(w))' = Asked(w)
  BY DEF RunReady, Waiting, Asked
<1>4. TypeOK'
  BY <1>1, <1>3 DEF TypeOK
<1>5. NoLeak' /\ PendingWasVisited' /\ ReturnsOnlyVisited' /\ DeliveredOnce'
  BY <1>1, <1>2, <1>3 DEF NoLeak, PendingWasVisited, ReturnsOnlyVisited, DeliveredOnce
<1>6. Registered' /\ NoLostWakeup'
  BY <1>1, <1>2, <1>3 DEF Registered, NoLostWakeup
<1>7. RecordedIsOld' /\ Undelivered'
  BY <1>2, <1>3 DEF RecordedIsOld, Undelivered
<1> QED BY <1>4, <1>5, <1>6, <1>7

\* A wait that ends leaves no event of its own, and no exception.
LEMMA AfterPollClears ==
    ASSUME NEW errors, NEW m \in ManagerWith(errors), NEW w
    PROVE  /\ AfterPoll(m, w) \in ManagerWith(errors)
           /\ AfterPoll(m, w).exception = None
           /\ AfterPoll(m, w).waits = m.waits \ EventsOf(w)
           /\ Pending(AfterPoll(m, w)) = Pending(m) \ EventsOf(w)
<1> DEFINE n == ClearWaits(m, w)
<1>1. n \in ManagerWith(errors) /\ Pending(n) = Pending(m) \ EventsOf(w)
  BY ClearWaitsPends
<1>2. n.waits = m.waits \ EventsOf(w)
  BY DEF ClearWaits, ManagerWith
<1> HIDE DEF n
<1>3. AfterPoll(m, w) = [n EXCEPT !.exception = None]
  BY DEF AfterPoll, n
<1> QED BY <1>1, <1>2, <1>3 DEF ManagerWith, Pending

\* The end of a wait, for the parts of the invariant it has to restore: the
\* exception that was recorded goes to this waiter or to nobody.
LEMMA FinishPreserves ==
    ASSUME IInv, NEW w \in Waiter,
           NEW m \in ManagerWith(Error),
           NEW outcome \in [pc : {"returned", "raised"}, args : Seq(State)],
           m.exception = manager.exception,
           m.waits \ EventsOf(w) = manager.waits \ EventsOf(w),
           Pending(m) \ EventsOf(w) = Pending(manager) \ EventsOf(w),
           Finish(w, m, outcome),
           nextError' = nextError,
           visited' \in [Waiter -> SUBSET State],
           \A v \in Waiter \ {w} : visited'[v] = visited[v],
           outcome.pc = "returned" => outcome.args[1] \in visited'[w],
           \/ delivered' = delivered
           \/ m.exception # None /\ Deliver(w, m.exception)
    PROVE  IInv'
<1> USE DEF IInv
<1>1. /\ manager' \in ManagerWith(Error)
      /\ manager'.exception = None
      /\ manager'.waits = manager.waits \ EventsOf(w)
      /\ Pending(manager') = Pending(manager) \ EventsOf(w)
  BY AfterPollClears DEF Finish
<1>2. /\ task' = [task EXCEPT ![w] = outcome]
      /\ task' \in [Waiter -> [pc   : {"idle", "waiting", "returned", "raised"},
                               args : Seq(State)]]
      /\ orphaned' = orphaned \ {w}
  BY DEF Finish, TypeOK
<1>3. /\ ~ (Waiting(w))'
      /\ \A v \in Waiter \ {w} : (Waiting(v))' = Waiting(v) /\ (Asked(v))' = Asked(v)
  BY <1>2 DEF Waiting, Asked, TypeOK
<1>4. delivered' \in [Error -> SUBSET Waiter]
  <2>1. delivered \in [Error -> SUBSET Waiter]
    BY DEF TypeOK
  <2>2. CASE m.exception # None /\ Deliver(w, m.exception)
    <3>1. m.exception \in Error
      BY <2>2 DEF ManagerWith
    <3>2. delivered[m.exception] \cup {w} \in SUBSET Waiter
      BY <2>1, <3>1
    <3> QED BY <2>1, <2>2, <3>1, <3>2 DEF Deliver
  <2> QED BY <2>1, <2>2
<1>5. TypeOK'
  BY <1>1, <1>2, <1>4 DEF TypeOK
<1>6. \A s \in State, v \in Waiter :
        <<s, v>> \in EventsOf(w) <=> v = w
  BY DEF EventsOf
<1>7. NoLeak' /\ PendingWasVisited'
  BY <1>1, <1>3, <1>6 DEF NoLeak, PendingWasVisited
<1>8. Registered'
  <2> SUFFICES ASSUME NEW v \in Waiter \ {w}, Waiting(v), v \notin orphaned
               PROVE  Asked(v) \X {v} \subseteq manager'.waits
    BY <1>2, <1>3 DEF Registered
  <2>1. Asked(v) \X {v} \subseteq manager.waits
    BY DEF Registered
  <2>2. \A e \in Asked(v) \X {v} : e \notin EventsOf(w)
    BY DEF EventsOf
  <2> QED BY <2>1, <2>2, <1>1
<1>9. NoLostWakeup'
  <2> SUFFICES ASSUME NEW v \in Waiter \ {w}, Waiting(v), v \notin orphaned
               PROVE  visited[v] \X {v} \subseteq Pending(manager')
    BY <1>2, <1>3 DEF NoLostWakeup
  <2>1. visited[v] \X {v} \subseteq Pending(manager)
    BY DEF NoLostWakeup
  <2>2. \A e \in visited[v] \X {v} : e \notin EventsOf(w)
    BY DEF EventsOf
  <2> QED BY <2>1, <2>2, <1>1
<1>10. ReturnsOnlyVisited'
  BY <1>2 DEF ReturnsOnlyVisited, TypeOK
<1>11. nextError \in Nat /\ nextError >= 1
  BY DEF TypeOK
<1>12. RecordedIsOld'
  BY <1>1, <1>11, StateManagerAssumption DEF RecordedIsOld
<1>13. \A e \in Error : \/ delivered'[e] = delivered[e]
                        \/ e = manager.exception /\ delivered'[e] = {w}
  <2>1. CASE delivered' = delivered
    BY <2>1
  <2>2. CASE m.exception # None /\ Deliver(w, m.exception)
    <3>1. m.exception \in Error /\ delivered[m.exception] = {}
      BY <2>2 DEF ManagerWith, Undelivered
    <3> QED BY <2>2, <3>1 DEF Deliver, TypeOK
  <2> QED BY <2>1, <2>2
<1>14. Undelivered'
  <2> SUFFICES ASSUME NEW e \in Error, e >= nextError
               PROVE  delivered'[e] = {}
    BY <1>1, StateManagerAssumption DEF Undelivered, Error
  <2>1. e # manager.exception
    BY <1>11 DEF RecordedIsOld, Error
  <2> QED BY <2>1, <1>13 DEF Undelivered
<1>15. DeliveredOnce'
  BY <1>13 DEF DeliveredOnce
<1> QED BY <1>5, <1>7, <1>8, <1>9, <1>10, <1>12, <1>14, <1>15

LEMMA RaisePreserves ==
    ASSUME IInv, NEW w \in Waiter, Raise(w)
    PROVE  IInv'
<1>1. manager \in ManagerWith(Error) /\ visited \in [Waiter -> SUBSET State]
  BY DEF IInv, TypeOK
<1>2. Raised \in [pc : {"returned", "raised"}, args : Seq(State)]
      /\ Raised.pc # "returned"
  BY DEF Raised
<1>3. /\ Finish(w, manager, Raised) /\ Deliver(w, manager.exception)
      /\ manager.exception # None
      /\ nextError' = nextError /\ visited' = visited
  BY DEF Raise, PollRaises
<1> QED BY <1>1, <1>2, <1>3, FinishPreserves

LEMMA ReturnPreserves ==
    ASSUME IInv, NEW w \in Waiter, Return(w)
    PROVE  IInv'
<1>1. manager \in ManagerWith(Error) /\ visited \in [Waiter -> SUBSET State]
  BY DEF IInv, TypeOK
<1>2. PICK state \in State :
        /\ PollReturns(manager, w, task[w].args, state)
        /\ Finish(w, manager, Returned(state))
  BY DEF Return
<1>3. /\ Returned(state) \in [pc : {"returned", "raised"}, args : Seq(State)]
      /\ Returned(state).args[1] = state
  BY DEF Returned
<1>4. /\ nextError' = nextError /\ visited' = visited /\ delivered' = delivered
  BY DEF Return
<1>5. state \in visited[w]
  <2>1. <<state, w>> \in manager.fired
    BY <1>2 DEF PollReturns, IsSet
  <2>2. <<state, w>> \in Pending(manager)
    BY <2>1 DEF Pending, Event
  <2> QED BY <2>2 DEF IInv, PendingWasVisited
<1> QED BY <1>1, <1>2, <1>3, <1>4, <1>5, FinishPreserves

LEMMA WaitPreserves ==
    ASSUME IInv, NEW w \in Waiter, NEW args \in WaitArgs, Wait(w, args)
    PROVE  IInv'
<1> DEFINE asked == {args[i] : i \in DOMAIN args}
           m == Register(manager, w, asked)
<1> USE DEF IInv
<1>1. args \in Seq(State) /\ asked \subseteq State
  BY StateManagerAssumption
<1>2. /\ m \in ManagerWith(Error)
      /\ m.waits = manager.waits \cup (asked \X {w})
      /\ m.exception = manager.exception
      /\ Pending(m) = Pending(manager)
  BY <1>1 DEF Register, TypeOK, ManagerWith, Event, Pending
<1>3. /\ ~ Waiting(w)
      /\ visited' = [visited EXCEPT ![w] = {}]
      /\ visited' \in [Waiter -> SUBSET State]
      /\ nextError' = nextError
  BY DEF Wait, TypeOK
<1> HIDE DEF m
<1>4. CASE PollRaises(m, w)
  <2>1. /\ Finish(w, m, Raised) /\ Deliver(w, m.exception)
        /\ m.exception # None
    BY <1>4 DEF Wait, m, PollRaises
  <2>2. /\ Raised \in [pc : {"returned", "raised"}, args : Seq(State)]
        /\ Raised.pc # "returned"
    BY DEF Raised
  <2>3. /\ m.waits \ EventsOf(w) = manager.waits \ EventsOf(w)
        /\ Pending(m) \ EventsOf(w) = Pending(manager) \ EventsOf(w)
    BY <1>1, <1>2 DEF EventsOf
  <2>4. \A v \in Waiter \ {w} : visited'[v] = visited[v]
    BY <1>3 DEF TypeOK
  <2> QED BY <1>2, <1>3, <2>1, <2>2, <2>3, <2>4, FinishPreserves
<1>5. CASE ~ PollRaises(m, w)
  <2>1. /\ manager' = m
        /\ task' = [task EXCEPT ![w] = [pc |-> "waiting", args |-> args]]
        /\ UNCHANGED <<orphaned, delivered>>
    BY <1>5 DEF Wait, m
  <2>2. TypeOK'
    BY <1>1, <1>2, <1>3, <2>1 DEF TypeOK
  <2>3. /\ (Waiting(w))' /\ (Asked(w))' = asked
        /\ \A v \in Waiter \ {w} : /\ (Waiting(v))' = Waiting(v)
                                   /\ (Asked(v))' = Asked(v)
                                   /\ visited'[v] = visited[v]
        /\ visited'[w] = {}
    BY <1>3, <2>1 DEF Waiting, Asked, TypeOK
  <2>4. \A s \in State : <<s, w>> \notin manager.waits \cup Pending(manager)
    BY <1>3 DEF NoLeak
  <2>5. NoLeak'
    <3> SUFFICES ASSUME NEW s \in State, NEW v \in Waiter,
                        <<s, v>> \in m.waits \cup Pending(m)
                 PROVE  (Waiting(v))' /\ s \in (Asked(v))'
      BY <2>1 DEF NoLeak
    <3>1. CASE v = w
      BY <3>1, <1>2, <2>3, <2>4
    <3>2. CASE v # w
      BY <3>2, <1>2, <2>3 DEF NoLeak
    <3> QED BY <3>1, <3>2
  <2>6. PendingWasVisited'
    BY <1>2, <2>1, <2>3, <2>4 DEF PendingWasVisited
  <2>7. Registered'
    BY <1>2, <2>1, <2>3 DEF Registered
  <2>8. NoLostWakeup'
    <3> SUFFICES ASSUME NEW v \in Waiter, (Waiting(v))', v \notin orphaned
                 PROVE  visited'[v] \X {v} \subseteq Pending(m)
      BY <2>1 DEF NoLostWakeup
    <3>1. CASE v = w
      BY <3>1, <2>3
    <3>2. CASE v # w
      BY <3>2, <1>2, <2>3 DEF NoLostWakeup
    <3> QED BY <3>1, <3>2
  <2>9. ReturnsOnlyVisited'
    BY <2>1, <2>3 DEF ReturnsOnlyVisited, TypeOK
  <2>10. Undelivered' /\ RecordedIsOld' /\ DeliveredOnce'
    BY <1>2, <1>3, <2>1 DEF Undelivered, RecordedIsOld, DeliveredOnce
  <2> QED BY <2>2, <2>5, <2>6, <2>7, <2>8, <2>9, <2>10
<1> QED BY <1>4, <1>5

---------------------------------------------------------------------------
(* Every step is a step of the contract, or none *)

\* A call of _set_state enters a state, refuses one, or says nothing new.
LEMMA SetStepImplements ==
    ASSUME IInv, NEW value \in State, NEW exc \in {None, nextError}, SetStep(value, exc)
    PROVE  [Contract!Next]_(Contract!vars)
<1>1. /\ TypeOK /\ manager.exception < nextError
      /\ UNCHANGED <<task, delivered>>
  BY DEF IInv, RecordedIsOld, SetStep
<1>2. \/ exc = None /\ nextError' = nextError
      \/ exc \in nextError..MaxErrors
         /\ nextError'..MaxErrors = (nextError..MaxErrors) \ {exc}
  BY <1>1, StateManagerAssumption DEF SetStep, NewErrorStep, TypeOK, Error
<1>3. CASE manager' = Enter(manager, value, exc) /\ Visit({value})
  <2>1. manager'.exception = exc
    BY <1>1, <1>3 DEF Enter, TypeOK, ManagerWith
  <2>2. visited' = [w \in Waiter |->
                      IF Contract!Waiting(w)
                      THEN visited[w] \cup ({value} \cap Contract!Asked(w))
                      ELSE visited[w]]
    BY <1>3 DEF Visit, Waiting, Asked, Contract!Waiting, Contract!Asked
  <2>3. Contract!Enters(value)
    BY <1>1, <1>2, <2>1, <2>2 DEF Contract!Enters, Contract!Records
  <2> QED BY <2>3 DEF Contract!Next
<1>4. CASE manager' = Refuse(manager, exc) /\ Visit({})
  <2>1. manager'.exception = exc
    BY <1>1, <1>4 DEF Refuse, TypeOK, ManagerWith
  <2>2. visited' = visited
    BY <1>1, <1>4 DEF Visit, TypeOK
  <2>3. Contract!Refuses \/ Contract!Forgets
    BY <1>1, <1>2, <2>1, <2>2 DEF Contract!Refuses, Contract!Forgets, Contract!Records
  <2> QED BY <2>3 DEF Contract!Next
<1>5. CASE manager' = manager /\ Visit({}) /\ exc = manager.exception
  <2>1. visited' = visited
    BY <1>1, <1>5 DEF Visit, TypeOK
  <2>2. nextError' = nextError
    BY <1>1, <1>2, <1>5, StateManagerAssumption DEF TypeOK
  <2> QED BY <1>1, <1>5, <2>1, <2>2 DEF Contract!vars
<1> QED BY <1>3, <1>4, <1>5 DEF SetStep

\* A reset enters no state and forgets the exception.
LEMMA ResetImplements ==
    ASSUME TypeOK, NEW value \in State, Reset(value)
    PROVE  Contract!Forgets
BY DEF Reset, ResetState, Contract!Forgets, TypeOK, ManagerWith

\* A wait that raises takes the exception that was recorded.
LEMMA FinishTakes ==
    ASSUME TypeOK, NEW w \in Waiter, NEW m \in ManagerWith(Error),
           m.exception = manager.exception, manager.exception # None,
           Finish(w, m, Raised), Deliver(w, manager.exception), nextError' = nextError
    PROVE  Contract!Takes(w)
<1>1. manager'.exception = None
  BY AfterPollClears DEF Finish
<1> QED BY <1>1 DEF Finish, Deliver, Raised, Contract!Takes

\* A wait begins, or takes the exception it finds.
LEMMA WaitImplements ==
    ASSUME TypeOK, NEW w \in Waiter, NEW args \in WaitArgs, Wait(w, args)
    PROVE  Contract!Begin(w, args)
<1> DEFINE m == Register(manager, w, {args[i] : i \in DOMAIN args})
<1>1. m \in ManagerWith(Error) /\ m.exception = manager.exception
  <2>1. {args[i] : i \in DOMAIN args} \subseteq State
    BY StateManagerAssumption
  <2> QED BY <2>1 DEF Register, TypeOK, ManagerWith, Event
<1>2. /\ ~ Contract!Waiting(w) /\ visited' = [visited EXCEPT ![w] = {}]
      /\ nextError' = nextError
  BY DEF Wait, Waiting, Contract!Waiting
<1>3. CASE manager.exception # None
  <2>1. Finish(w, m, Raised) /\ Deliver(w, manager.exception)
    BY <1>1, <1>3 DEF Wait, PollRaises
  <2>2. Contract!Takes(w)
    BY <1>1, <1>2, <1>3, <2>1, FinishTakes
  <2> QED BY <1>2, <2>2 DEF Contract!Begin
<1>4. CASE manager.exception = None
  <2>1. /\ manager' = m
        /\ task' = [task EXCEPT ![w] = [pc |-> "waiting", args |-> args]]
        /\ delivered' = delivered
    BY <1>1, <1>4 DEF Wait, PollRaises
  <2> QED BY <1>1, <1>2, <1>4, <2>1 DEF Contract!Begin
<1> QED BY <1>3, <1>4

LEMMA RaiseImplements ==
    ASSUME TypeOK, NEW w \in Waiter, Raise(w)
    PROVE  Contract!Raise(w)
<1>1. Contract!Takes(w)
  BY FinishTakes DEF Raise, PollRaises, TypeOK
<1> QED BY <1>1 DEF Raise, Waiting, Contract!Raise, Contract!Waiting

\* The event that ends a wait was set for a state entered since it began.
LEMMA ReturnImplements ==
    ASSUME IInv, NEW w \in Waiter, Return(w)
    PROVE  Contract!Return(w)
<1>1. PICK state \in State :
        /\ PollReturns(manager, w, task[w].args, state)
        /\ Finish(w, manager, Returned(state))
  BY DEF Return
<1>2. state \in visited[w]
  <2>1. <<state, w>> \in Pending(manager)
    BY <1>1 DEF PollReturns, IsSet, Pending, Event
  <2> QED BY <2>1 DEF IInv, PendingWasVisited
<1>3. manager.exception = None /\ manager'.exception = None
  BY <1>1, AfterPollClears DEF PollReturns, Finish, IInv, TypeOK
<1>4. /\ Contract!Waiting(w)
      /\ task' = [task EXCEPT ![w] = [pc |-> "returned", args |-> <<state>>]]
      /\ UNCHANGED <<visited, nextError, delivered>>
  BY <1>1 DEF Return, Waiting, Contract!Waiting, Finish, Returned
<1> QED BY <1>2, <1>3, <1>4 DEF Contract!Return

\* The loop's callbacks set events, of which the contract says nothing.
LEMMA RunReadyImplements ==
    ASSUME TypeOK, RunReady
    PROVE  UNCHANGED Contract!vars
BY DEF RunReady, RunCallbacks, Contract!vars, TypeOK, ManagerWith

LEMMA InitContract == Init => Contract!Init
<1> SUFFICES ASSUME Init PROVE Contract!Init
  OBVIOUS
<1>1. nextError..MaxErrors = Error
  BY DEF Init, Error
<1> QED BY <1>1 DEF Init, NewManager, Idle, Contract!Init

LEMMA NextContract == IInv /\ [Next]_vars => [Contract!Next]_(Contract!vars)
<1> SUFFICES ASSUME IInv, [Next]_vars PROVE [Contract!Next]_(Contract!vars)
  OBVIOUS
<1>1. TypeOK /\ EXCEPTION \in State
  BY StateManagerAssumption DEF IInv
<1>2. ASSUME NEW value \in State, NEW exc \in {None, nextError}, Call(value, exc)
      PROVE  [Contract!Next]_(Contract!vars)
  BY <1>1, <1>2, CallIsSetStep, SetStepImplements
<1>3. ASSUME NEW value \in State, NEW exc \in {None, nextError}, Callback(value, exc)
      PROVE  [Contract!Next]_(Contract!vars)
  BY <1>1, <1>3, CallbackIsSetStep, SetStepImplements
<1>4. ASSUME NEW exc \in {None, nextError}, LoopException(exc)
      PROVE  [Contract!Next]_(Contract!vars)
  BY <1>1, <1>4, LoopExceptionIsSetStep, SetStepImplements
<1>5. ASSUME NEW value \in State, Reset(value) PROVE Contract!Next
  BY <1>1, <1>5, ResetImplements DEF Contract!Next
<1>6. ASSUME NEW w \in Waiter, NEW args \in WaitArgs, Wait(w, args) PROVE Contract!Next
  BY <1>1, <1>6, WaitImplements DEF Contract!Next
<1>7. ASSUME NEW w \in Waiter, Poll(w) PROVE Contract!Next
  BY <1>1, <1>7, RaiseImplements, ReturnImplements DEF Poll, Contract!Next
<1>8. CASE RunReady
  BY <1>1, <1>8, RunReadyImplements
<1>9. CASE UNCHANGED vars
  BY <1>9 DEF vars, Contract!vars
<1> QED BY <1>2, <1>3, <1>4, <1>5, <1>6, <1>7, <1>8, <1>9 DEF Next

---------------------------------------------------------------------------
(* The theorems *)

LEMMA InitIInv == Init => IInv
<1> SUFFICES ASSUME Init PROVE IInv
  OBVIOUS
<1>1. /\ manager \in ManagerWith(Error)
      /\ manager.exception = None /\ manager.waits = {} /\ Pending(manager) = {}
  BY StateManagerAssumption DEF Init, NewManager, ManagerWith, Pending
<1>2. \A w \in Waiter : ~ Waiting(w) /\ task[w].pc # "returned"
  BY DEF Init, Idle, Waiting
<1>3. TypeOK
  BY <1>1, StateManagerAssumption DEF Init, Idle, TypeOK
<1>4. Undelivered /\ RecordedIsOld /\ DeliveredOnce
  BY <1>1, StateManagerAssumption
  DEF Init, Undelivered, RecordedIsOld, DeliveredOnce
<1> QED BY <1>1, <1>2, <1>3, <1>4
        DEF IInv, NoLeak, Registered, PendingWasVisited, NoLostWakeup, ReturnsOnlyVisited

LEMMA NextIInv == IInv /\ [Next]_vars => IInv'
<1> SUFFICES ASSUME IInv, [Next]_vars PROVE IInv'
  OBVIOUS
<1>1. TypeOK /\ EXCEPTION \in State
  BY StateManagerAssumption DEF IInv
<1>2. ASSUME NEW value \in State, NEW exc \in {None, nextError}, Call(value, exc)
      PROVE  IInv'
  BY <1>1, <1>2, CallIsSetStep, SetStepPreserves
<1>3. ASSUME NEW value \in State, NEW exc \in {None, nextError}, Callback(value, exc)
      PROVE  IInv'
  BY <1>1, <1>3, CallbackIsSetStep, SetStepPreserves
<1>4. ASSUME NEW exc \in {None, nextError}, LoopException(exc)
      PROVE  IInv'
  BY <1>1, <1>4, LoopExceptionIsSetStep, SetStepPreserves
<1>5. ASSUME NEW value \in State, Reset(value) PROVE IInv'
  BY <1>5, ResetPreserves
<1>6. ASSUME NEW w \in Waiter, NEW args \in WaitArgs, Wait(w, args) PROVE IInv'
  BY <1>6, WaitPreserves
<1>7. ASSUME NEW w \in Waiter, Poll(w) PROVE IInv'
  BY <1>7, RaisePreserves, ReturnPreserves DEF Poll
<1>8. CASE RunReady
  BY <1>8, RunReadyPreserves
<1>9. CASE UNCHANGED vars
  BY <1>9 DEF vars, IInv, TypeOK, NoLeak, Registered, PendingWasVisited, NoLostWakeup,
              ReturnsOnlyVisited, Undelivered, RecordedIsOld, DeliveredOnce, Waiting, Asked
<1> QED BY <1>2, <1>3, <1>4, <1>5, <1>6, <1>7, <1>8, <1>9 DEF Next

\* The inductive invariant holds of every behaviour.
THEOREM Invariance == Spec => []IInv
BY InitIInv, NextIInv, PTL DEF Spec

\* Type correctness of the manager, its waiters and the auxiliary variables.
THEOREM TypeCorrect == Spec => []TypeOK
<1>1. IInv => TypeOK
  BY DEF IInv
<1> QED BY Invariance, <1>1, PTL

\* A wait returns only states entered after it began, whatever waits came
\* before it and however many waiters share the manager.
THEOREM WaitsReturnVisited == Spec => []ReturnsOnlyVisited
<1>1. IInv => ReturnsOnlyVisited
  BY DEF IInv
<1> QED BY Invariance, <1>1, PTL

\* No wakeup is lost, even of a state that is left before the poll.
THEOREM WakeupsAreKept == Spec => []NoLostWakeup
<1>1. IInv => NoLostWakeup
  BY DEF IInv
<1> QED BY Invariance, <1>1, PTL

\* One recorded exception ends at most one wait.
THEOREM ExceptionsAreDeliveredOnce == Spec => []DeliveredOnce
<1>1. IInv => DeliveredOnce
  BY DEF IInv
<1> QED BY Invariance, <1>1, PTL

\* A finished wait leaves no event in the manager or in the loop.
THEOREM WaitsLeaveNothing == Spec => []NoLeak
<1>1. IInv => NoLeak
  BY DEF IInv
<1> QED BY Invariance, <1>1, PTL

\* The state manager keeps its promise to those who wait: StateWaits, with its events
\* and its callbacks, implements the contract that has neither.
THEOREM WaitsKeepTheContract == Spec => ImplementsContract
BY Invariance, InitContract, NextContract, PTL
   DEF Spec, ImplementsContract, Contract!Spec
=============================================================================
