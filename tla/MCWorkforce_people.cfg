CONSTANTS
  acme = acme
  bell = bell
  ann = ann
  ben = ben
  l1 = l1
  l2 = l2
  q1 = q1
  q2 = q2
  Client = {acme}
  Plan = {acme}
  Site = {acme}
  Employee = {ann, ben}
  Line = {l1}
  Date = {1, 2}
  Time = {8, 12}
  LeaveId = {q1, q2}
  Batch = {1}
  MaxRevision = 2
  ClientOf <- MCClientOf
  OwnerOf <- MCOwnerOf
  DatesOf <- MCTwoDays
  YearOf <- MCYearOf
  WorkDay = {1, 2}
  Allowance = {1, 2}
  ThisYear = 2026
  Leavers = {}
  Closing = {}
  Leaving = {}
  guard = guard
  Slices = {"people"}
  Skill = {}
SPECIFICATION MCSpec
SYMMETRY Symmetry
VIEW View
INVARIANTS
  LeaveKeepsPublishedPlan
  BookingExclusive
  AllowanceHonoured
