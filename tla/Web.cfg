SPECIFICATION WebSpec
CONSTANTS
  Closed = Closed
  Rows <- MCRows
  ProcOf <- MCProcOf
  Exits <- MCExits
  SECOND = 2
  MINUTE = 4
  HOUR = 8
  RAW_TTL = 8
  RAW_SPAN = 8
  MINUTE_SPAN = 10
  QUARTER_SPAN = 14
  DAY = 4
  FINE_STEP = 2
  MAX_SPAN = 16
  DEFAULT_SPAN = 6
  MAX_POINTS = 8
  NICE_STEPS = {2, 4, 6}
  WARMUP = 4
  CLUSTER = 9
  TOP_PROCS = 1
  TOP_DESTS = 1
  MIN_SHARE = 300
  DEVIATION_FACTOR = 2
  DEVIATION_BUCKETS = 2
  PortOf <- MCPortOf
  DayStart <- MCDayStart
  BEACON_SPAN = 6
  LOOKBACK = 16
  IpOf <- MCIpOf
  TextOf <- MCTextOf
  NO_PEER = {9}
  LOOPBACK = {5}
  LocalAddrs <- MCLocal
  Missing = Missing
  UNKNOWN_APP = 0
  UNKNOWN_UID = 99
  THROUGHPUT_OTHER = 100
  INTERVAL = 2
  QUARTER = 4
  ZoneAt <- MCZoneAt
  HEATMAP_SPLIT_TOP = 1
  CELLS = {1, 2}
  BPC_BUCKETS = 3
  MIN_BURSTS = 2
  MAX_SPREAD = 225
  BURST_SPAN = 12
  HEAT_SPAN = 8
  HEAT_MAX_SPAN = 16
  BEACON_LIFE_SPAN = 12
  BEACON_DEST_LIMIT = 3
  BEACON_MIN_POINTS = 1
  BEACON_POINT_BUDGET = 2
  GeoTable <- MCGeoTable
  Requests <- MCRequests
  Filterings <- MCFilterings
  Now = 16
  Cuts = {4, 13}
  OFFSET = 8
  GEO_IP_LIMIT = 3
  SLOTS = 2
  RELEASE_MS = 2
  Bookmarks <- MCBookmarks
  KeyLists <- MCKeyLists
  NameLists <- MCNameLists
  PRESETS = {4}
  PAGE_SPAN = 14
  MIN_ZOOM = 2
  Zooms <- MCZooms
  Moments = {4, 9}
  MAX_NAMES = 3
  TooLong = {19}
  TooLarge = {49}
  MaxPageTime = 3
  MaxPageClicks = 2
  DECADE = 2
  OTHER_SERIES = 100
  ROOT_UID = 0
  ROOT_SLOT = 1
  VISIBLE_ROWS = 3
  ASN_BARS = 1
  MAP_CCS = {"DE"}
  MIN_DAYS = 4
  p1 = p1
  p2 = p2
  tz1 = tz1
  tz2 = tz2
  dA = dA
  dB = dB
  k1 = k1
  k2 = k2
  Procs = {p1, p2}
  Living = {p1}
  Tzs = {tz1, tz2}
  BrowserTz = tz1
  DayOf <- MCDayOf
  Parts = {k1, k2}
  CacheMs = 1
  MaxFails = 1
  FailWindow = 1
  MaxTime = 1
  MaxAsks = 2
  MaxUpsets = 1
  Calm = TRUE
  Null = Null
  Absent = Absent
  Contents <- MCContents
  Fractions <- MCFractions
  Texts <- MCTexts
  Urls <- MCUrls
  MaxWrites = 2
  MaxTurns = 1
  NoTime = NoTime
  Snapshots <- MCSnapshots
  TOP_N = 2
  RANK_EVERY_MS = 2
  HOLD_MS = 3
  Windows = {3}
  FlowSeconds = 2
  MaxClock = 4
  MaxClicks = 2
  Shapes <- MCShapes
  Clocks = {2, 4}
  MaxBars = 4
  SCHEDULED_MIN = 3
  Running = Running
  Talking = {1, 2}
  SPARK_MS = 3
  IDLE_MS = 2
  MAX_ROWS = 1
  MaxDrops = 2
  MaxTicks = 3
  MaxStripTicks = 4
  MaxToggles = 1
  NoTick = NoTick
  Addresses <- MCAddresses
  RDNS_MAX_PER_REQUEST = 1
  RDNS_BATCH = 2
  CACHE_SIZE = 2
  TTL_MS = 2
  MaxNow = 2
  MaxLookups = 3
  Nothing = Nothing
  Points <- MCPoints
  Areas <- MCAreas
  LISTED = 2
  Unset = Unset
  MaxMoves = 4
  MaxTick = 5
  MaxUsers = 2
  ServerCap = 2
  Capacity = 3
  None = None
INVARIANTS
  DeleteExact ShownBelongs BandsAddUp
  AnswersAddUp SeriesAgree FirstContacts MarkersComplete DrawnWhole ProcessPanels
  HuesTellApart LanesFit DropsCounted TalkersShown NamesFresh PanelSettles HolesMarked
PROPERTIES
  ColoursKept RequestsFollow
CHECK_DEADLOCK FALSE
