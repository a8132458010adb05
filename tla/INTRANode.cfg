CONSTANT Calls = {c1, c2, c3}
SPECIFICATION FairSpec
INVARIANTS TypeOK SoleOwner NotStranded FreshInitialization
PROPERTIES OperationalStateEnds ImplementsOwnership
\* main() ends: the process stops for good.
CHECK_DEADLOCK FALSE
