SPECIFICATION FairSpec
CONSTANTS
  MaxAttempts = 3
INVARIANT ConfirmedIsLive
INVARIANT ConfirmAfterCanary
INVARIANT StagedNotLive
INVARIANT RecoveryIsTrue
PROPERTY TaskEnds
CHECK_DEADLOCK FALSE
