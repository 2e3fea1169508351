\* The calls and events are bounded: once they are used up and every call
\* has returned, no step is left, which is the end of the bounded run and
\* not a deadlock of the client.
CONSTANTS
    c1 = c1
    c2 = c2
    Callers <- MCCallers
    EventMethods <- MCEventMethods
    ResponseKinds <- MCResponseKinds
    MaxCalls = 3
    MaxEvents = 1
SPECIFICATION Spec
CHECK_DEADLOCK FALSE
INVARIANTS
    TypeOK
    CorrelationCorrect
    EntriesOwnedWhileConnected
    
PROPERTIES
    AwaitEventuallyReturns
