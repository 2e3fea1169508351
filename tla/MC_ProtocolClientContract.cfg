\* The pre-3.12 build of the client checked against the call contract.
\* The calls are bounded: once they are used up and every call has
\* returned, no step is left, which ends the bounded run.
CONSTANTS
    c1 = c1
    c2 = c2
    Callers <- MCCallers
    EventMethods <- MCEventMethods
    ResponseKinds <- MCResponseKinds
    MaxCalls = 3
    MaxEvents = 1
SPECIFICATION SpecPre312
CHECK_DEADLOCK FALSE
PROPERTIES
    ImplementsCallContract
