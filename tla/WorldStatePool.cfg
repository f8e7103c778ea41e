SPECIFICATION Spec
CONSTANTS
    NUM_STATES = 3
    Feedback = {TRUE, FALSE}
    MaxFrames = 3
    MaxPIDs = 1
INVARIANTS ReadersUndisturbed CompleteShowsFrame AnnouncedOnce PIDsCarriedOver
CHECK_DEADLOCK FALSE
