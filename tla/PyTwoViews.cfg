SPECIFICATION PyTwoViewsSpec
INVARIANTS PyLedByVotes
CHECK_DEADLOCK FALSE
