CONSTANTS
  acme = acme
  ann = ann
  ben = ben
  cat = cat
  l1 = l1
  l2 = l2
  l3 = l3
  q1 = q1
  q2 = q2
  guards = guards
  NoRule = NoRule
  Nobody = Nobody
  Client = {acme}
  Plan = {acme}
  Site = {acme}
  Employee = {ann, ben, cat}
  Guards = {ann, ben, cat}
  Line = {l1, l2, l3}
  RequestId = {q1}
  Rule = {guards}
  Need = 2
  Date = {1}
  Time = {8, 12}
  LeaveId = {}
  Batch = {}
  MaxRevision = 2
  ClientOf <- MCClientOf
  OwnerOf <- MCOwnerOf
  DatesOf <- MCDatesOf
  YearOf <- MCYearOf
  RuleSites <- MCRuleSites
  Required <- MCRequired
  Skilled <- MCSkilled
  WorkDay = {1}
  Allowance = {22}
  ThisYear = 2026
  Leavers = {}
  Closing = {}
  Leaving = {}
SPECIFICATION CoverageSpec
SYMMETRY Symmetry
VIEW View
PROPERTIES
  ApprovalFitsRequest
  NoOverstaffing
  Spec
