SPECIFICATION Spec
CONSTANTS
    MaxSteps = 3
    MaxText = 1
    SignalNumbers = {}
    OkCodes <- MCOddCodes
    Exits <- MCExits
INVARIANTS FailureReported
