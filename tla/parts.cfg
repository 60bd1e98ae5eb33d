\* The sum of the parts; what each bound is for is in the README.
SPECIFICATION Spec
CONSTANTS
  a = a
  b = b
  r1 = r1
  r2 = r2
  k1 = k1
  k2 = k2
  bam = bam
  rakurai = rakurai
  vote_program = vote_program
  t1 = t1
  t2 = t2
  t3 = t3
  p1 = p1
  p2 = p2
  i1 = i1
  i2 = i2
  NoRoot = NoRoot
  Unknown = Unknown
  Absent = Absent
  Unset = Unset
  Unstated = Unstated
  Fits = Fits
  NoBlock = NoBlock
  NoPort = NoPort
  Nobody = Nobody
  Verifiers = {1, 2}
  Shreds <- MCShreds
  LeaderOf <- MCLeaderOf
  Epochs = 2
  EpochLen = 2
  EPOCHS_KEPT = 1
  SLOTS_CACHED = 2
  MAX_ROOTS_PER_SLOT = 1
  Ports = {p1, p2}
  Configs <- MCConfigs
  Arrivals <- MCArrivals
  BATCH = 2
  CHANNEL = 1
  COUNTER = 3
  MaxArrivals = 3
  QUEUE_DEPTH = 1
  MaxCount = 2
  MaxRows = 1
  MaxFlushes = 3
  ROTATE_SECS = 1
  MaxRecords = 2
  MaxSecond = 2
  Nothing = Nothing
  VOTE_PROGRAM_ID = vote_program
  MAX_FILTERS_PER_BUNDLE = 2
  Rotations <- MCRotations
  MIN_ROTATION_SECS = 2
  MaxSubscriptions = 5
  Transactions <- MCTransactions
  Bundles <- MCBundles
  MaxUpdates = 2
  DB_QUEUE_DEPTH = 2
  BATCH_MAX = 2
  RETRY_CAP = 3
  MaxSent = 5
  MaxOutages = 2
  ApiKeys = {k1, k2}
  Seeded = k1
  Strangers = {r1}
  TipOf <- MCTipOf
  Batches <- MCBatches
  Changes <- MCChanges
  Cents = {1, 2}
  CREDITS_PER_CENT = 1
  LAMPORTS_PER_SOL = 1
  MAX_SOL_PRICE_AGE = 1
  MAX_ADMIN_CREDITS_CHANGE = 2
  I64_MAX = 4
  HOUR = 1
  DAY = 2
  MaxTime = 2
  MaxHistory = 4
  Clients = {k1}
  MessageTypes = {bam, rakurai}
  Durations = {1, 9}
  Updates <- MCUpdates
  MAX_OVERRIDE_SECONDS = 2
  MaxClock = 2
  MaxRequests = 3
  FEED_CAPACITY = 2
  STREAM_CAPACITY = 1
  BATCH_SIZE = 2
  Pubkeys = {k1, k2}
  AllowedKeys = {k1}
  MaxBatches = 4
  MaxBeats = 1
  MaxNonce = 4
INVARIANTS
  PartsTypeOK
  VerdictSound
  PacketsAccounted
  IntervalsAddUp
  ArchivesKeepRows
  RotationFair
  ServerJudgedFairly
  RowsAccounted
  BalanceIsLedger
  PaymentsCreditedOnce
  ViewsAgree
  LatestRequestsHold
  StreamsContiguous
PROPERTIES
  ShutdownsEnd
  DrainsOnceUp
  TipsAreAccounted
