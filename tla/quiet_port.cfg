SPECIFICATION ReceiverSpec
CONSTANTS
  p1 = p1
  p2 = p2
  i1 = i1
  i2 = i2
  NoPort = NoPort
  Nobody = Nobody
  Ports = {p1, p2}
  Configs <- MCConfigs
  Arrivals <- MCArrivals
  BATCH = 2
  CHANNEL = 1
  COUNTER = 3
  MaxArrivals = 3
PROPERTIES
  QuietSocketNoticesExit
