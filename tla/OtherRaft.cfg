SPECIFICATION Spec
INVARIANTS GeoRaftRelaysSafely FileRaftSurvivesCrashes PlainLeaderIsInformed
PROPERTIES MyRaftServesWhatIsCommitted PlainIsOneLog ChanFirstComeFirst
CHECK_DEADLOCK FALSE
