SPECIFICATION MCSpec
CONSTANTS
  User = {ann, bob, cat}
  Super = {ann, bob}
  Late = {cat}
  Guessed = {bob}
  Session = {s1, s2}
  Request = {r1, r2}
  MaxFailures = 2
  LockTime = 2
  Role = {"EMPLOYEE", "SUPER_ADMIN"}
  MockAllowed = TRUE
  Approved <- MCApproved
  Nobody = Nobody
  StartUser <- MCStartUser
  StartCredential <- MCStartCredential
  StartManager <- MCStartManager
CHECK_DEADLOCK FALSE
SYMMETRY Symmetry
INVARIANTS
  SessionsDieWithAccess
  FreshStartAfterLock
  SuperAdminRemainsAlone
  HierarchyEndsAlone

