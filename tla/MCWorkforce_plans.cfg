CONSTANTS
  acme = acme
  bell = bell
  ann = ann
  ben = ben
  l1 = l1
  l2 = l2
  q1 = q1
  q2 = q2
  Client = {acme, bell}
  Plan = {acme, bell}
  Site = {acme, bell}
  Employee = {ann, ben}
  Line = {l1, l2}
  Date = {1}
  Time = {8, 12, 16}
  LeaveId = {q1}
  Batch = {}
  MaxRevision = 3
  ClientOf <- MCClientOf
  OwnerOf <- MCOwnerOf
  DatesOf <- MCOneDay
  YearOf <- MCYearOf
  WorkDay = {1}
  Allowance = {22}
  ThisYear = 2026
  Leavers = {ann}
  Closing = {acme}
  Leaving = {acme}
  guard = guard
  Slices = {"plans", "revisions", "directory", "skills", "report"}
  Skill = {guard}
SPECIFICATION MCSpec
SYMMETRY Symmetry
VIEW View
INVARIANTS
  TypeOK
  NoDoubleBooking
  OneLineage
  HoursCountedOnce
  ShownConflictIsOver
PROPERTIES
  PublishedIsFinal
  PublishedFit
  DemandFollowsWork
CHECK_DEADLOCK FALSE
