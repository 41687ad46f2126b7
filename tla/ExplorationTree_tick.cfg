SPECIFICATION FairSpec
CONSTANT MaxTries = 1
INVARIANTS TypeOK ExhaustionIsConsumed HomeOnlyWhenDecided RepositioningIsFlagged
PROPERTIES SearchIsGivenUp HomingIsGivenUp
