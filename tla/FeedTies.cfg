SPECIFICATION Spec
CONSTANT None = None
INVARIANT NoLineIsSkipped
CHECK_DEADLOCK FALSE
