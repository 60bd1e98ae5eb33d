\* Two sources whose windows overlap and share blocks; no transaction matches the second one.
CONSTANTS
    Windows = {"w1", "w2"}
    Quiet = {"w2"}
    SampleEvery = 1
    LagSlots = 1
    CommitmentLag = 0
    START_MARGIN = 1
    END_MARGIN = 1
    START_WITHOUT_DELIVERY_SLOTS = 1
    MAX_CURSOR_LAG_SLOTS = 0
    MAX_TASKS_PER_WINDOW = 1
    EVICT_MARGIN_SLOTS = 1
    MAX_ATTEMPTS = 2
    MAX_CALLS_PER_TICK = 1
    BLOCK_CACHE = 1
    ServerDelay = 0
    MaxTipLag = 0
    MaxSlot = 5
    None = None
SPECIFICATION Spec
INVARIANTS
    TypeOK
    SlotsAccounted
\* Everything ends at the last slot.
CHECK_DEADLOCK FALSE
