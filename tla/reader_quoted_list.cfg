SPECIFICATION FairSpec
CONSTANT Sources <- Quoted
INVARIANT AbbreviationsAreExpanded
CHECK_DEADLOCK FALSE
