\* The bounded bus and browser run dry with the dispatcher blocked in
\* pubsub.listen(), waiting for a command that never comes: the service
\* idling, not a deadlock.
CONSTANTS
    d = d
    garbage = garbage
    Dispatcher = d
    Garbage = garbage
    Payloads <- MCPayloadsWithGarbage
    EventMethods <- MCEventMethods
    ResponseKinds <- MCResponseKinds
    MaxCalls = 4
    MaxEvents = 1
    MaxText = 2
    MaxCommands = 3
SPECIFICATION Spec
CHECK_DEADLOCK FALSE
INVARIANTS
    TypeOK
    OneResultPerParsedCommand
    SuccessMeansEveryCallAnswered
PROPERTIES
    CommandEventuallyAnswered
