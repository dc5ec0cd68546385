CONSTANTS
    Driver = "modem"
    MaxCalls = 2
    MaxProactive = 2
    MaxFaults = 1
    MaxSize = 2
    MaxPart = 1
SPECIFICATION Spec
INVARIANTS AnswerOfCommand ExecutedOnce
PROPERTIES ProactiveAnswered CallsReturn
CHECK_DEADLOCK FALSE
