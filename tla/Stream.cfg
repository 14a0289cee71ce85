SPECIFICATION AnsweredSpec
CONSTANTS
    MaxOutput = 2
    PollAttempts = 2
    CallbackThrows = TRUE
CHECK_DEADLOCK FALSE
INVARIANTS
    CompleteOnExit
    FinishedIsNotTimedOut
    NotLeftRunning
PROPERTIES
    CallSettles
    StreamsAreChannels
