\* The services around documents and approvals, each with its interleavings and faults.
SPECIFICATION FairSpec
CONSTANTS
  Nothing = Nothing
  Requests = {r1, r2}
  Users = {u1}
  Sessions = {s1, s2}
  MaxVersions = 2
  MaxChanges = 2
  Versions = {v1}
  ReportKeys = {k1}
  Tasks = {t1}
  Workers = {w1, w2}
  MaxReports = 2
  MaxRetries = 1
  MaxFaults = 2
  Templates = {x1}
  DocumentTypes = {d1, d2}
  Instances = {i1, i2}
  MaxEdits = 3
  Rules = {rule1}
  SupplierRules = {supplier1}
  Parameters = {rag, other}
  RagVersion = rag
  ConfigKeys = {k1, k2}
  Values = {x}
  Default = d
  MaxWrites = 2
  Prices = 2
  TokenUsers = {u1}
  Tokens = {t1}
  Second = 2
  Life = 4
  MaxTime = 7
  MaxPermissionVersion = 2
  Publishers = {p1, p2}
  Readers = {c1}
  Kept = 3
  MaxEvents = 4
INVARIANTS
  ServicesInv
  VersionCounts
  OneFinalReport
  InstancesKeepNodes
  ResumesWithoutGap
PROPERTIES
  StepsAllowed
  ExportsEnd
CHECK_DEADLOCK FALSE
