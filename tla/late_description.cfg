SPECIFICATION DetailsSpec
CONSTANTS
  Links = {l1, l2}
  Loops = {w1, w2}
  Amounts = {1}
  ErpAmount = 1
  ErpMoves <- ConfirmingErp
  MaxRequests = 2
  MaxFailures = 0
  None = None
INVARIANT ConfirmedAsDescribed
CHECK_DEADLOCK FALSE
