CONSTANTS
    d = d
    garbage = garbage
    Dispatcher = d
    Garbage = garbage
    Payloads <- MCPayloadsWithGarbage
    EventMethods <- MCEventMethods
    ResponseKinds <- MCResponseKinds
    MaxCalls = 3
    MaxEvents = 1
    MaxText = 1
    MaxCommands = 3
SPECIFICATION Spec
CHECK_DEADLOCK FALSE
INVARIANT OneResultPerCommand
