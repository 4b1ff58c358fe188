SPECIFICATION Spec
CONSTANTS
    State <- MCState
    Transitions <- MCTransitions
    Waiter = {w1, w2}
    UNINITIALIZED = "UNINITIALIZED"
    EXCEPTION = "EXCEPTION"
    None = 0
    WaitArgs <- MCWaitArgs
    MaxErrors = 2
    MaxReady = 2
INVARIANTS TypeOK NoLostWakeup
PROPERTIES EnteredIsNoticed ErrorIsNoticed ImplementsContract
