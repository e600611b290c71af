SPECIFICATION Spec
CONSTANTS
  Limit = 2
  Pipeline = {2, 4}
  MaxSpans = 4
  StaffPaths = {"s"}
  ClientPaths = {"k1", "k2"}
  Workers = {"w1", "w2"}
  MaxFiles = 2
  MaxRequests = 2
  MaxErrors = 1
  SigningKeys = {"k1"}
  Lifetime = 2
  Validators = {"v1", "v2"}
  MaxTime = 4
  MaxRotations = 3
  Publishers = {"t1", "t2"}
  Handlers = {"h1", "h2"}
  HistoryLimit = 2
  MaxEvents = 3
  MaxHandlerRaises = 1
  Typed = {"Volkov, Oleg", "Star Red", "Red Starr"}
  Normalised <- MCNormalised
  Calls <- MCCalls
  Watchlist <- MCWatchlist
  Spellings <- MCSpellings
  Editions <- MCEditions
  NotRead = NotRead
  NoEdition = NoEdition
  Screeners = {"t1", "t2"}
  CacheSize = 2
  MaxChecks = 2
  MaxDownloads = 2
  MaxReloads = 1
INVARIANTS
  TypesOK
  WaterfallWhole
  
  KeysAreFresh
  BusKeepsOrder
  
CHECK_DEADLOCK FALSE
