SPECIFICATION Spec
CONSTANTS
    Steps = {"build", "test"}
    Cases <- MCCases
    MaxLines = 3
    MaxTime = 3
    Delay = 1
    Limit = 2
    PollTicks = 2
    InsertionSort = 2
    MaxFaults = 1
    MaxRequests = 1
INVARIANTS TypeOK OwnLinesInOrder CompleteAnswer
PROPERTIES Answered
CHECK_DEADLOCK FALSE
