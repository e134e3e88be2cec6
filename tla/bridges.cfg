SPECIFICATION Spec
CONSTANTS
    Newline = newline
    Unwanted = unwanted
    Return = return
    Bytes = {newline, unwanted, return, byte}
    MaxInput = 7
    Chunk = 4
    Limit = 2
    LineLimit = 5
INVARIANTS PassesOn CountsLines TailExact ShownAsWhole
