SPECIFICATION ConsultationSpec
CONSTANTS
  Links = {l1, l2, l3}
  Loops = {w1, w2}
  Amounts = {1}
  ErpAmount = 1
  ErpMoves <- ConfirmingErp
  MaxRequests = 4
  MaxFailures = 1
  None = None
  Codes = {"t", "o"}
  Target = "t"
  Kinds <- SmallKinds
  Histories <- ShortHistories
  PageSize = 2
  MaxPages = 2
  MaxChanges = 1
  c1 = c1
  c2 = c2
  p1 = p1
  p2 = p2
  Consulters = {c1, c2}
  Persisters = {p1, p2}
  MaxItems = 4
  MaxBuffered = 3
INVARIANTS
  AnswerWasTrue
  AnswerAgrees
  Drained
  CompletedLinksMirror
PROPERTY ConfirmationStands
PROPERTY MirrorsConverge
PROPERTY Settles
CHECK_DEADLOCK FALSE
