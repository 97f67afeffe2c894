SPECIFICATION FairSpec
CONSTANTS
    LastDoorbell = 3
    Namespace = {1, 2}
    Refusals <- MCRefusals
INVARIANTS AdminReady PairsBacked NeverOutOfOrder NamespacesReal
PROPERTY CallsEnd
CHECK_DEADLOCK FALSE
