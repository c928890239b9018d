SPECIFICATION Spec
CONSTANT MaxLines = 5
INVARIANT ParsesBraces
CHECK_DEADLOCK FALSE
