CONSTANTS
    c1 = c1
    c2 = c2
    Callers <- MCCallers
    EventMethods <- MCEventMethods
    ResponseKinds <- MCResponseKinds
    MaxCalls = 3
    MaxEvents = 1
SPECIFICATION Spec
CHECK_DEADLOCK FALSE
INVARIANT FailureOnlyIfUnanswered
