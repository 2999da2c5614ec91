SPECIFICATION Spec
CONSTANTS
  c1 = c1  c2 = c2  d1 = d1  j1 = j1  v1 = v1  v2 = v2  s1 = s1  s2 = s2  x1 = x1  y1 = y1
  f1 = f1  i1 = i1  i2 = i2  t1 = t1  t2 = t2  m1 = m1  g1 = g1  k1 = k1  n1 = n1  n2 = n2
  e1 = e1  p1 = p1  p2 = p2  q1 = q1  q2 = q2  r1 = r1  r2 = r2  w1 = w1  w2 = w2
  MaxFaults = 1  Client = {c1}  Caller = {c1, c2}
  Dep = {d1}  Box <- MCBox  NoDep = NoDep  NoBox = NoBox  Replicas <- MCReplicas
  Job = {j1}  Slot <- MCSlot  NoJob = NoJob
  Vol = {v1, v2}  Snap = {s1}  Restore = {r1}  NoVol = NoVol  NoSnap = NoSnap  FirstVols = {v1}
  Stack = {s1}  Res <- MCRes  Type <- MCType  Ref <- MCRef  NoRes = NoRes
  Templates <- MCTemplates  BadTemplate = BadTemplate
  Store = {x1, y1}  Cache = {y1}  NoStore = NoStore
  Fn = {f1}  Inv = {i1, i2}  NoFn = NoFn
  Topic = {t1, t2}  Name <- MCName  Sub = {s1, s2}  Endpoint <- MCEndpoint  Msg = {m1}  NoTopic = NoTopic
  Group = {g1}  Rule <- MCRule  Inst = {i1}  NoGroup = NoGroup  NoRule = NoRule  NoInst = NoInst
  RuleOf <- MCRuleOf
  Route <- MCRoute  NoRoute = NoRoute  Prefix <- MCPrefix  Paths <- MCPaths  BadTarget <- MCBad
  Key = {k1}  Upload <- MCUpload  NoKey = NoKey  NoFile = NoFile  Size <- MCSize
  VM = {v1, v2}  Task = {v2}
  Net = {n1, n2}  Disk = {d1}  Target = {t1}  FirstCounter <- MCFirst  LastCounter <- MCLast
  Secret <- MCSecret  Reader = {c1, c2}  NoSecret = NoSecret
  Owner <- MCOwner  NameOf <- MCNameOf  Plain <- MCPlain
  ApiKey <- MCApiKey
  Queue = {q1, q2}  QMsg <- MCQMsg  NoQueue = NoQueue  NoMsg = NoMsg
  QName <- MCQName  Limit <- MCLimit  Default = 2  QSize <- MCQSize
  Viewer = {c1}  Limits <- MCLimits  DefaultLimit = 1  MaxLimit = 2  MaxEvents = 2
  Role = {r1, r2}  RName = {n1}  Perm <- MCPerm  Lists <- MCLists
  NoRole = NoRole  NoName = NoName  Gone = Gone
  NumMigrations = 4  Needs <- MCNeeds  Worker = {w1, w2}  MaxStarts = 3
  Peer = {p1, p2}  NumEvents = 2  QueueCap = 2  SendCap = 1
  Address <- MCAddress  Hit <- MCHit  AddressOf <- MCAddressOf
  Burst = 1  MaxLimiters = 3  MaxTicks = 1
  Texts <- MCTexts  MaxPortsPerInstance = 2  MaxPort = 65535
INVARIANTS TypeOK   
PROPERTIES StepsSound Settles
CHECK_DEADLOCK FALSE
