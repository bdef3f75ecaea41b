SPECIFICATION Spec
CONSTANTS
    Tasks = {1, 2}
    Handles = {1, 2}
    Depth = 1
    Batch = 2
    GenMod = 8
    Loads <- AllLoads
INVARIANTS
    HandleOnce
    SlotAccounted
    RetirePaired
    StreamInOrder
    NoSleepOnReady
