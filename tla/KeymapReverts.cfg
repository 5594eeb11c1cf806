SPECIFICATION Spec
CONSTANT None = None
INVARIANT RevertsDoNotClash
CHECK_DEADLOCK FALSE
