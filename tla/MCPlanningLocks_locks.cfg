CONSTANTS
  acme = acme
  bell = bell
  ann = ann
  ben = ben
  l1 = l1
  l2 = l2
  q1 = q1
  q2 = q2
  Client = {acme, bell}
  Plan = {acme, bell}
  Site = {acme, bell}
  Employee = {ann, ben}
  Line = {l1, l2}
  Date = {1, 2}
  Time = {8, 12, 16}
  LeaveId = {q1, q2}
  Batch = {1}
  MaxRevision = 3
  ClientOf <- MCClientOf
  OwnerOf <- MCOwnerOf
  DatesOf <- MCDatesOf
  YearOf <- MCYearOf
  WorkDay = {1, 2}
  Allowance = {1, 2}
  ThisYear = 2026
  Leavers = {}
  Closing = {}
  Leaving = {}
  Rank <- MCRank
  Txn = {1, 2, 3}
  Scene <- EveryScene
SPECIFICATION LocksSpec
CHECK_DEADLOCK FALSE
INVARIANTS
  ValidationInEveryCycle
PROPERTIES
  Atomic
  EveryCallAnswered
