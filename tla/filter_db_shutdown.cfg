\* As the part db of parts.cfg, with no assumption on when the database comes back.
CONSTANTS
    DB_QUEUE_DEPTH = 2
    BATCH_MAX = 2
    RETRY_CAP = 3
    MaxSent = 5
    MaxOutages = 2
SPECIFICATION DbSpec
PROPERTIES
    WriterDrains
\* The threads end at shutdown.
CHECK_DEADLOCK FALSE
