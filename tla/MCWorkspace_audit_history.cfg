SPECIFICATION MCSpec
CONSTANTS
  Item = {a1, a2}
  EFile = {b1, b2}
  Submission = {b1, b2}
  SubmissionKey = {k}
  Page = {p}
  MaxText = 1
  Client = {c}
  Project = {pr}
  Location = {l}
  OwnedBy <- MCOwnedBy
  SuperAdmin = {su}
  Admin = {ad}
  OpNote = {n}
  Text = {"a", "b"}
  Call = {x1, x2}
  Person = {p1, p2, p3}
  ReplacementRequest = {r}
  Message = {a1, a2}
  Memo = {m}
  Talk = {b1, b2}
  MaxEdit = 1
  Entry = {a1, a2, "team-a", "skill-s"}
  KindOf <- MCKindOf
  Name = {"x", "y"}
  Member = {"m"}
  Admins = {"m"}
  OrgCall = {b1, b2}
  RoleOf = {"EMPLOYEE", "ADMIN", "SUPER_ADMIN"}
  DaysInMonth = 2
  MonthsInYear = 2
  NinetyDays = 3
  LastDay = 3
  PageSize = 2
  AuditPageSize = 1
  MaxPage = 3
  MaxExport = 2
  MaxStock = 3
  AskedKey = {"published-allocation", "planning-unpublished", "approved-leave", "leave-balance", "audit-history"}
  AskedQuery <- MCAskedQuery
  Operator = {b1, b2}
  Latest = 3
  Adoptable = {1, 2}
  TestTarget = TRUE
  Absent = Absent
  Partial = Partial
  Foreign = Foreign
  Unknown = Unknown
  LockStep <- MCLockStep
  MaxVersion = 3
  Task = {b1, b2}
  NoTask = NoTask
SYMMETRY Symmetry
CHECK_DEADLOCK FALSE
INVARIANTS
  NextReachesEveryEvent
