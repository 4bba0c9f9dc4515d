SPECIFICATION ConsoleSpec
CONSTANTS
    r1 = r1
    r2 = r2
    None = None
    Robots = {r1, r2}
    DefaultRobot = r1
    Script <- MCScript
    Roles = {"ADMIN", "USER"}
    Feeds = {"telemetry", "navigation_feedback", "map", "diagnostics"}
    PlanFrame <- MCPlanFrame
    MaxRefreshes = 2
    MaxFetches = 1
    MaxInbox = 2
    MaxEvents <- MCMaxEvents
    Users = {admin, user}
    Admin = admin
    NoUser = nobody
    MaxLogins = 2
INVARIANTS
    PathOfShownLeg
    
CHECK_DEADLOCK FALSE
PROPERTIES
    
    ViewSettles
    LostSessionLeaves
