\* A browser error response to a command call: the command must not be reported a success.
CONSTANTS
    d = d
    garbage = garbage
    Dispatcher = d
    Garbage = garbage
    Payloads <- MCPayloads
    EventMethods <- MCEventMethods
    ResponseKinds <- MCResponseKinds
    MaxCalls = 3
    MaxEvents = 1
    MaxText = 1
    MaxCommands = 3
SPECIFICATION Spec
CHECK_DEADLOCK FALSE
INVARIANT SuccessMeansNoErrorResponse
