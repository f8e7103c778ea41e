SPECIFICATION FairSpec
CONSTANTS
    Files = {f1, f2}
    MAX_SND = 2
    MAX_PLAY = 2
    max_chan = 1
    MaxHeld = 1
    MaxOwed = 1
    MaxLoads = 3
INVARIANTS RegionsAccounted RefsExact
 
