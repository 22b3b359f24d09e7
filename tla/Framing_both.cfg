SPECIFICATION FairSpec
CONSTANT Cases <- Both
INVARIANTS TypeOK OnlyWholeMessages InStep
PROPERTY AllHandedOn
CHECK_DEADLOCK FALSE
