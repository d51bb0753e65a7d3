SPECIFICATION FairSpec
PROPERTIES WorkSettles
CHECK_DEADLOCK FALSE
