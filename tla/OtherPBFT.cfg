SPECIFICATION Spec
INVARIANTS PyAgreesAcrossViews SimpleQuorumsHold ThreadExecutesInOrder GoViewChangeStops
CHECK_DEADLOCK FALSE
