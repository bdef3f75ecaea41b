SPECIFICATION Spec
CONSTANTS
    t1 = t1
    t2 = t2
    Tasks = {t1}
    NSlots = 1
    AcceptCap = 1
    Batch = 2
    GenMod = 65536
    Loads <- StaleLoads
INVARIANTS
    KernelHoldsItsSlot
