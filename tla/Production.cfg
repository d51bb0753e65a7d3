SPECIFICATION Spec
INVARIANTS TypeOK NothingIsDoneTwice WorkIsDriven ResultsRestOnInputs ShownIsTrue NothingComesBack
PROPERTIES StartsInTurn WritesAreKept
CHECK_DEADLOCK FALSE
