SPECIFICATION FairSpec
CONSTANT Sources <- MCSources
INVARIANTS TypeOK TokensKept ReadsWhatIsWritten
PROPERTY ReadEnds
CHECK_DEADLOCK FALSE
