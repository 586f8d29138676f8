SPECIFICATION Spec
INVARIANTS NetworkTellsTruth BenchJudgesRightly PorcupineExact LocksNeverBlock CoinBooksAgree PowMinersAgree
PROPERTY PyChainBreaksOnlyWhereNamed
CHECK_DEADLOCK FALSE
