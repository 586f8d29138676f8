SPECIFICATION SpecRewind
INVARIANT FileAppliedCoversSnapshot
CHECK_DEADLOCK FALSE
