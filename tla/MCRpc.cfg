SPECIFICATION Spec
CONSTANTS
  Services = {"s"}
  Methods = {"m"}
  MaxSend = 3
  MaxChange = 2
  MaxTorn = 1
  PayloadSizes = {1, 2}
  InitialSize = 3
  max_request_size = 4
INVARIANTS RepliesInOrder OwnReply
PROPERTY CallReturns
CHECK_DEADLOCK FALSE
