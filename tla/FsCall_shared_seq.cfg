SPECIFICATION Spec
CONSTANTS
    Routed = {"a", "b"}
    Direct = {"login"}
    Uid <- MCUid
    Opens <- MCOpens
    Mkdirs <- MCMkdirs
    Requests <- MCRequests
    Sids = {1, 2, 3}
    FirstSid <- MCFirstSid
    Fds = {4}
    MaxPending = 2
    MaxQ = 2
    MaxBound = 2
    Calls <- MCCalls
    Lives <- MCLives
INVARIANTS
    RoutedRepliesAreOwn
CHECK_DEADLOCK FALSE
