SPECIFICATION Spec
CONSTANT Cases <- Wild
INVARIANT ReadyForProcessing
CHECK_DEADLOCK FALSE
