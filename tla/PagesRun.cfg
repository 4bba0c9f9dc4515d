SPECIFICATION PagesSpec
CONSTANTS
    Robots = {r1, r2}
    NoRobot = noRobot
    Maps = {m1, m2}
    NoMap = noMap
    MaxPresses = 4
    MaxQueue = 4
    MaxHolds = 6
    MaxDrives = 3
    MaxCatalogs = 5
    MaxMapRevision = 4
    MaxSessions = 2
    MaxViews = 3
    MaxFrames = 3
    Users = {admin, user}
    Admin = admin
    NoUser = nobody
    MaxLogins = 2
    Filters = {all, unread}
    NoFilter = noFilter
    MaxRequests = 6
    MaxListings = 3
    Routes = {ab, ba}
    NoRoute = noRoute
    MaxRuns = 3
    MaxRevision = 2
    MaxCommands = 2
    Purposes = {"station", "point", "pose"}
    Plans <- MCPlans
    Widths = {436, 636}
    Places <- MCPlaces
    Spots <- MCSpots
    NoPlace = noPlace
    MaxLooks = 3
    MaxLoads = 7
    MaxMissions = 1
    MaxRetries = 1
    MaxWaiting = 1
    Tasks = {t1, t2}
    NoTask = noTask
    Recent = {t1}
    MaxPending = 2
    Distances = {0, 3}
    MaxAttempts = 2
    MaxSocket = 1
    MaxAnswers = 2
INVARIANTS
    MotionEndsWithStop
    AssistedMotionEndsWithStop
    LibraryOfOneRobot
    OldMapNeverDrawn
    LiveIsOfShownRobot
    ActsAsShownUser
    ListFitsFilter
    CreatedAsReviewed
    SuccessIsConfirmed
    StationsOfOneRobot
    OperatesAsConfirmed
PROPERTIES
    PointsAtWhatIsDrawn
    ActsAsConfirmed
    ShowsOneTask
    BarFollowsMission
CHECK_DEADLOCK FALSE
