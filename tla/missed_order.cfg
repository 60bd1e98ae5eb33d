SPECIFICATION Spec
CONSTANTS
    Providers = {"p1", "p2"}
    FecSets = {"A", "B"}
    Copies = {"genuine", "broken", "altered"}
    Signed = {"genuine"}
    Rootless = {}
    DataComplete = {"A", "B"}
    LastInSlot = {"B"}
    SlotOf <- MCSlotOf
    NumData <- MCNumData
    NumCoding <- MCNumCoding
    DataHash <- MCDataHash
    Payloads <- MCPayloads
    RxTime <- MCRxTime
    MaxWaitSlots = 1
    None = None
    SlotsPerEpoch = 3
    LastEpoch = 1
    MaxShreds = 5
    MaxRotations = 0
CHECK_DEADLOCK FALSE
INVARIANTS MissedIsUndelivered
