\* A draft sent again, unedited, after its answer was lost.
SPECIFICATION OrderFormSpec
CONSTANTS
    Drafts = {1, 2}
    ClientLimit = 2
    MaxOutValue = 6
    MaxSends = 3
    MaxEdits = 1
    MaxOthers = 1
INVARIANTS
    ResendIsSafe
CHECK_DEADLOCK FALSE
