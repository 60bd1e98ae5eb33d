\* As filter_audit.
CONSTANTS
    Windows = {"w1"}
    Quiet = {}
    SampleEvery = 2
    LagSlots = 1
    CommitmentLag = 0
    START_MARGIN = 2
    END_MARGIN = 1
    START_WITHOUT_DELIVERY_SLOTS = 2
    MAX_CURSOR_LAG_SLOTS = 0
    MAX_TASKS_PER_WINDOW = 1
    EVICT_MARGIN_SLOTS = 1
    MAX_ATTEMPTS = 2
    MAX_CALLS_PER_TICK = 1
    BLOCK_CACHE = 1
    ServerDelay = 0
    MaxTipLag = 1
    MaxSlot = 7
    None = None
SPECIFICATION Spec
INVARIANTS
    MissedWereNotDelivered
\* Everything ends at the last slot.
CHECK_DEADLOCK FALSE
