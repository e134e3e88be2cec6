SPECIFICATION Spec
CONSTANTS
    MaxSteps = 4
    MaxText = 1
    SignalNumbers = {}
    OkCodes <- MCOkCodes
    Exits <- MCExits
INVARIANTS Inv BytesCounted StderrInOnePlace FailureReported
