SPECIFICATION Spec
CONSTANTS
    None = None
    Robots = {r1}
    DefaultRobot = r1
    Script <- RetryScript
    PlanFrame <- RetryFrame
    Roles = {"ADMIN"}
    Feeds = {"telemetry"}
    MaxRefreshes = 2
    MaxFetches = 1
    MaxInbox = 3
    MaxEvents <- RetryEvents
PROPERTY LatestPlanShown
CHECK_DEADLOCK FALSE
