SPECIFICATION SpecStaleMatch
INVARIANT GeoTwoCommittedOnMajority
CHECK_DEADLOCK FALSE
