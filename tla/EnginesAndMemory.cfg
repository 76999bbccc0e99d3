\* The engines, the in-memory services and the demonstration data, each with its cases.
SPECIFICATION Spec
CONSTANTS
  Nothing = Nothing
  Requests = {r1, r2}
  MaxChanges = 2
  Rules <- MCRules
  Contexts <- MCContexts
  LookupOpensTxn = FALSE
  MaxTasks = 2
  MaxFindings = 2
  Approvers = {a1, a2}
  Nodes = 2
  ApprovalKeys = {k1, k2}
  MaxRounds = 2
  AnalysedVersions = {v1}
  StartKeys = {s1}
  RetryKeys = {k1, k2, k3}
  RetryLimit = 2
  MaxEvents = 7
  Types = {t1, t2}
  MaxDocuments = 2
  MaxReports = 3
  Contents = {c1, c2}
  MaxRecords = 2
  MaxSize = 2
  Chunks = {x1, x2}
  MaxTop = 2
  PageSize = 1
  MaxLog = 2
  Errors = {unavailable}
  People = {p1, p2}
  Self = p1
  Orgs = {o1}
  MaxAmount = 2
  MaxLines = 2
  MaxSubmissions = 2
  Threads = {h1, h2}
  MaxRecognitions = 3
  MaxText = 2
  Things = {g1, g2}
  Seeders = {b1, b2}
  MaxSeeds = 2
  Migrators = {b1, b2}
  Names = {n1}
  Address = ip
  MaxAttempts = 2
  Window = 2
  Second = 2
  Life = 3
  MaxTime = 4
  MaxAudited = 3
  MaxPermission = 2
  Files <- MCFiles
  LinkLife = 2
  MaxStored = 2
  MaxFileTime = 3
  Writers = {w1, w2}
  Owners = {p1, p2}
  Reader = p1
  MaxRows = 3
  Filters = {"all", "pending"}
  MaxPaid = 1
  MaxDetails = 2
  Dependencies = {d1, d2}
  Given = given
  Made = made
  MaxOutages = 3
  Coroutines = {u1, u2}
  MaxSessions = 3
  Hits = {x1, x2, x3}
  MaxHits = 3
  K = 60
  Reviewers = {p1, p2}
  MaxReviews = 2
  MaxDecisions = 2
  MaxFlips = 1
INVARIANTS
  TypeOK
  
  MemoryConsistent
  PagesMissNothing
  ListedIsAccessible
  SubmittedAddsUp
  FilesAccounted
  DatabaseWhole
  AnswersTrue
PROPERTY StepsAllowed
CHECK_DEADLOCK FALSE
