SPECIFICATION MCSpec
CONSTANTS
  boss = boss
  emp = emp
  eva = eva
  red = red
  w1 = w1
  Person <- MCPerson
  Team = {red}
  Space = {w1}
  Board = {b1}
  BoardSpace <- MCBoardSpace
  Ticket = {t1}
  TFile = {f1}
  Writer = {x, y}
  Reader = {r}
  MaxAttempts = 2
  Operator <- MCOperators
  Changing <- MCOperators
  Invited <- MCEmployees
  StartPerson <- MCStartPerson
  NoOne = NoOne
CHECK_DEADLOCK FALSE
SYMMETRY Symmetry
INVARIANTS
  CommandsStayPermitted
  AnswersAreCurrent
  ParticipantsHaveHeard
PROPERTY TicketFilesAreKept
