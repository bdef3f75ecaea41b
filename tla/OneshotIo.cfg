SPECIFICATION FairSpec
CONSTANTS
    t1 = t1
    t2 = t2
    Tasks = {t1, t2}
    NSlots = 2
    AcceptCap = 1
    Batch = 2
    GenMod = 65536
    Loads <- CalmLoads
INVARIANTS
    TypeOK
    KernelHoldsItsSlot
    ResultIsMine
    TokenUnique
    NoSlotLost
PROPERTIES
    DroppedSlotFreed
