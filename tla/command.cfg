SPECIFICATION Spec
CONSTANTS
    Script = Script
    Worker = Worker
    Tool1 = Tool1
    Tool2 = Tool2
    Missing = Missing
    Undetectable = Undetectable
    Unprobed = Unprobed
    Invalid = Invalid
    NoPipe = NoPipe
    Main = Script
    Threads = {Worker}
    Binaries = {Tool1, Tool2}
    Pipes <- MCPipes
    Uses <- MCUses
    Installations <- MCInstallations
    MaxRuns = 2
    Codes <- MCCodes
    SignalNumbers <- MCSignals
INVARIANTS ImportExecutesNothing GateHolds FailsForCause ExplainsCodes
