\* Finding: a page that learns of automatic sync from another tab sets no timer.
SPECIFICATION SyncPageSpec
CONSTANTS
    UserActions = {"configure"}
    Interval = 3
    MinDelay = 2
    FollowLimit = 1
    MaxStatus = 2
    MaxLane = 1
INVARIANTS
    AutomaticIsScheduled
\* A stopped page with nothing left to learn may stay as it is.
CHECK_DEADLOCK FALSE
