SPECIFICATION Spec
CONSTANTS
    j1 = j1  j2 = j2  s1 = s1  s2 = s2  s3 = s3
    Modes = {"lines", "grouped", "blocks"}
    Jobs = {j1, j2}
    Sources = {s1, s2, s3}
    JobOf <- TwoInOne
    Pieces <- FourTwoOne
    Keep = 1
    Height = 5
    Messages = 1
    Breaks = TRUE
INVARIANTS Inv LinesShown GroupsWhole CommitsKept ClosedClean FrameFits
