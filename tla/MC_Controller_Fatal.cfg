CONSTANTS
    main = main
    Main = main
    EventMethods <- MCEventMethods
    ResponseKinds <- MCResponseKinds
    MaxCalls = 3
    MaxEvents = 2
    MaxTargets = 2
SPECIFICATION Spec
CHECK_DEADLOCK FALSE
INVARIANT NoFatalError
