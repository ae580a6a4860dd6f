\* One name registered twice, or two names; two failures trip the breaker.
SPECIFICATION FairSpec
CONSTANTS
    Names = {camera, microphone}
    Alerts = {smoke}
    MaxErrors = 2
    Window = 1
    MaxRegistrations = 2
    NoName = NoName
INVARIANTS
    NoAlertLost
    BreakerIsExact
    StartedRuns
PROPERTIES
    EnabledArePolled
CHECK_DEADLOCK FALSE
