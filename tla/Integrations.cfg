SPECIFICATION Spec
CONSTANTS
  None = None
  Unset = Unset
  Blank = Blank
  Base = Base
  s1 = s1
  s2 = s2
  a1 = a1
  a2 = a2
  k1 = k1
  k2 = k2
  Sessions = {s1, s2, s3}
  Conversations = {s1, s2}
  Tenants = {s1}
  Users = {u1, u2}
  Calls = {c1, c2}
  Recalls = {r1, r2}
  Exchanges = {x1, x2, x3}
  Requests <- TwoUsers
  Hits = {h1, h2}
  HitAnswers <- TwoHits
  AnyAnswers <- TwoAny
  Queries = {q1, q2}
  Spellings <- TwoSpellings
  LowerCase <- Lowered
  Texts = {x, y}
  Signals = {g1}
  Options = {o1, o2}
  Agents = {a1, a2}
  Keys = {k1, k2}
  KeyAgent <- OfAgents
  Ids = {i1}
  Senders = {p1, p2}
  BlankSenders = {p2}
  MaxSessions = 2
  ClaudeSeen = 1
  ClaudeLog = 5
  MaxTracked = 1
  WindowSize = 1
  MaxResets = 2
  OpenClawLog = 4
  MaxThreads = 1
  MastraSeen = 1
  MastraLog = 4
  CacheSize = 2
  MaxAdvances = 2
  MaxIds = 1
  FrameworkLog = 3
  MaxWindow = 1
  CrewLog = 4
  CaptureTurns <- TwoAndOne
  CaptureSessions = 1
  DedupeSize = 2
  MaxWrites = 2
  MaxMessages = 4
  N8nTurns = 2
  MaxFingerprints = 2
  CacheEntries = 1
  StopTurns = 2
  MaxEntries = 5
  MaxBuilt = 2
  Limit = 1
  MaxTexts = 2
  MaxFailures = 2
  MaxClients = 1
  PageSize = 2
  MaxRows = 6
  MaxChanges = 2
  MaxPages = 2
  MaxLines = 1
  MaxRuns = 6
INVARIANTS
  TypeOK
  ShownOnce
  HiddenOnlyIfShown
  CapturesFinishedTurn
  MemoriesAreOwn
  WrittenOnce
  NothingSwallowed
  PairsMatch
  Contained
  ReportedIsStored
  OwnStatus
  WalkMissesNothing
PROPERTIES
  FlushDrains
  StepsReuse
CHECK_DEADLOCK FALSE
