CONSTANTS
  acme = acme
  bell = bell
  ann = ann
  ben = ben
  l1 = l1
  l2 = l2
  q1 = q1
  q2 = q2
  Client = {acme}
  Plan = {acme}
  Site = {acme}
  Employee = {ann, ben}
  Line = {l1, l2}
  Date = {1, 2}
  Time = {8, 12, 16}
  LeaveId = {}
  Batch = {}
  MaxRevision = 2
  ClientOf <- MCClientOf
  OwnerOf <- MCOwnerOf
  DatesOf <- MCDatesOf
  YearOf <- MCYearOf
  WorkDay = {1, 2}
  Allowance = {2}
  ThisYear = 2026
  Leavers = {}
  Closing = {}
  Leaving = {}
  Rank <- MCRank
  Txn = {1, 2, 3, 4}
  Scene <- OnlyAlone
SPECIFICATION LocksSpec
CHECK_DEADLOCK FALSE
INVARIANTS
  ApprovalSparesPublication
