SPECIFICATION PartsSpec
CONSTANTS
  Foci = {"byos", "pools", "streams", "speedtest", "ranges", "segments", "rar", "cairn", "rss", "wallet", "storage", "search", "warmer"}
  j1 = j1  j2 = j2  u1 = u1  u2 = u2  g1 = g1  g2 = g2
  Item = {j1, j2}  Customer = {u1, u2}  OwnerOf <- Owners  Go = {g1, g2}  NoItem = NoItem  Parallel = 1  PerUser = 1  MaxTry = 2  MaxUpset = 2
  r1 = r1  r2 = r2  e1 = e1  e2 = e2  t1 = t1  t2 = t2
  Reader = {r1, r2}  PoolEntry = {e1, e2}  NoEntry = NoEntry  Timer = {t1, t2}  NoTimer = NoTimer  MaxConns = 1
  q1 = q1  q2 = q2  v1 = v1  any = any  i1 = i1  n1 = n1
  Reading = {q1, q2}  Viewer = {v1, any}  Anyone = any  Content = {i1}  Place = {n1}  Nowhere = "nowhere"  Total = 1  StreamsPerUser = 1  ZipsPerUser = 1  Warmers = 1  ZipFiles = 1
  z1 = z1  z2 = z2  z3 = z3
  SpeedBudget = 3  SpeedMost = 2  SpeedSlots = 2  Tester = {z1, z2, z3}
  MaxSize = 8  RangeMost = 18  Package = 3  Overhead = 1  HeaderLen = 2  ExtraLen = 1  Marker = 7  Packed <- Zips
  k1 = k1  k2 = k2
  Parts = 3  RealSize <- Real  NzbSize <- Nzb  LostSets <- Losses  CacheMost = 2  Ahead = 2  Fetcher = {k1, k2}  RunMost = 1  PadMost = 1  ReadLens = {2}
  HeadLen = 2  Unnumbered = 100  ReadMost = 7  Archives <- Arcs
  c1 = c1  c2 = c2  w1 = w1  p1 = p1  p2 = p2  none = none
  Keeper = {c1, c2}  Wisher = {w1}  Posting = {p1, p2}  NoKeeper = none  MaxPosts = 2  MaxMoves = 3
  Feed <- RssFeed  Facts <- RssFacts  Source <- RssSource  HashOf <- RssHash  Criteria <- RssCriteria  RssMaxAttempts = 2  MaxEdits = 2  MaxMishaps = 3
  u3 = u3  u4 = u4  t3 = t3  t4 = t4  t5 = t5  t6 = t6  b1 = b1  b2 = b2  b3 = b3  b4 = b4  x4 = x4  x5 = x5  y1 = y1  s1 = s1  s2 = s2  c5 = c5  c6 = c6  v2 = v2  k3 = k3  k4 = k4  k5 = k5  k6 = k6  x1 = x1  x2 = x2  x3 = x3  o1 = o1  code = code
  User = {u3, u4}  NoUser = NoUser  Call = {t3, t4, t5, t6, b1, b2, b3, b4, x4, x5, y1, s1, s2, c5, c6, v2}  Made <- MadeSets  NoCall = NoCall  Ref = {k3, k4, k5, k6, x1, x2, x3, o1, code}  Kind <- KindOf  UserOf <- CallUser  RefOf <- CallRef  Cents <- CallCents  Recurring = {b1, b2, x4, x5}  Referrer <- WhoReferred  Period = 1  Reward = 1  MaxReward = 2  Trial = 1  Day = 1  MaxTime = 2
  rq = rq  m1 = m1  m2 = m2
  Provider = {"p"}  Blank = "blank"  Bucket = "bucket"  Pass = {"k"}  Clear = "-"  Request = {rq}  Transfer = {m1, m2}  MaxPool = 1  MaxAsk = 1  Earlier <- Had
  Search = {"q1", "q2"}  Sources <- Asked  Answers <- Lists  SearchSlots = 1  CacheTTL = 1  PerSource = 1
  ra = ra  rb = rb  qa = qa  ta = ta
  Title = {ta}  Releases <- Named  Unwanted <- Screened  Retrier = {ra, rb}  Caller = {qa}  MaxActive = 1  MaxAsked = 2  MaxRows = 3  MaxMishap = 1
INVARIANTS
  ServicesTypeOK
  SharedIsCounted
  AnswerIsFile
  
  
  BalanceIsLedger
  
  OneGrantPerCharge
  CodeGivesOnce
  RecordedIsGranted
CHECK_DEADLOCK FALSE
