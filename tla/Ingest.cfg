SPECIFICATION PartsSpec
CONSTANTS
  Foci = {"torrents", "stall", "usenet", "partfile", "debrid", "submission", "plans", "releases", "links", "checks", "codes", "bot"}
  h1 = h1  f1 = f1
  Hash = {h1}  Fin = {f1}  MaxSubmit = 1  MaxStop = 1  NoHash = NoHash
  Order <- Files  Parity = "par"  Seg = {1, 2}  RetryRounds = 2
  Size = 3  Chunk = {1, 2}  ChunkFrom <- From  ChunkTo <- To  MaxAttempts = 2  MaxFetches = 2
  d1 = d1  d2 = d2
  Run = {d1, d2}  File = {"f1"}  MaxStuck = 1  MaxLapses = 1  ChainOf <- Chains
  ga = ga  gb = gb  gc = gc  gd = gd  ge = ge  gf = gf  gh = gh
  Grab = {ga, gb, gc, gd, ge, gf, gh}  Rounds <- Together  Grabber = {"u", "w"}  FacadeOf <- Facades7  GrabberOf <- Grabbers  LinkOf <- Linked  NoLink = "-"  Rolls <- Rolled  Explicit = {gd}  NoContent = "none"  NoGrab = "nobody"  MaxTurns = 4
  SaleId = {"o1"}  SubId = {"g", "b", "s"}  Announces = {"g", "s"}  SlotSubs = {"s"}  Customers = {{}, {"b"}, {"g"}, {"s"}}  NoSub = "-"  Length = 3  DayLen = 2  FreeDay = 2  MaxPauses = 1  MaxEnd = 6  MaxClock = 3
  Pages <- Posts  PartSize = 2  PlanLimit = 5  PartAttempts = 2  SeasonLength = 2  MaxEpisode = 3
  Video = {"v1", "v2"}  ItemBytes = 5  Declared = {0, 3, 5}  MaxBytes = 3  TickBytes = 1  StallTicks = 2
  Ask = {"a1", "a2"}  ProcessOf <- Served  Torrent = {"t"}  Archived = {"t"}  CacheLife = 2
  Code = {"A"}  PeriodOf <- Periods  Partner = {"p1", "p2"}  Operator = "op"  Mint = {"p1", "p2"}  MinterOf <- Minters  Quantity = 1  MaxDraws = 2  Redeem = {"r1", "r2"}  RedeemerOf <- Redeemers  MaxHits = 1  Window = 2  MaxNow = 2  NoCode = "-"  Nobody = "-"
  Forward = {"f1", "f2", "f3"}  Sender <- Senders  Parts = 3  NoFile = "-"
INVARIANTS
  IngestTypeOK
  TorrentsKept
  
  OneSourceOfFiles
  
  

  
CHECK_DEADLOCK FALSE
