-------------------------------- MODULE Pages --------------------------------
(***************************************************************************)
(* The pages of the dashboard, one open at a time: src/src/app and the      *)
(* components they mount.  The page is chosen once; every page's own state  *)
(* is in its module, and a page that is not open does not move.            *)
(***************************************************************************)
EXTENDS ManualDrive, RecoveryDrive, MapLibrary, MappingView, CameraView, BrowserSession,
        NotificationsPage, QuickDelivery, LocalizationPage, MapCanvas, StationsPage,
        OperatorActions, TasksPage, MissionProgress, RegistryPage

VARIABLE page

driveVars == <<mdVars, rdVars>>
mapVars == <<mlVars, mvVars, mcVars, spVars>>
viewVars == <<cvVars, abVars, npVars, loVars, rpVars>>
taskVars == <<dpVars, oaVars, tkVars, mpVars>>
pagesVars == <<page, driveVars, mapVars, viewVars, taskVars>>

DriveNext ==
    \/ page = "manual"        /\ MDNext /\ UNCHANGED rdVars
    \/ page = "mappingDrive"  /\ DMNext /\ UNCHANGED <<mdVars, rdScan, rdBound>>
    \/ page = "recoveryDrive" /\ RDNext /\ UNCHANGED mdVars

MapNext ==
    \/ page = "library"  /\ MLNext /\ UNCHANGED <<mvVars, mcVars, spVars>>
    \/ page = "mapping"  /\ MVNext /\ UNCHANGED <<mlVars, mcVars, spVars>>
    \/ page = "canvas"   /\ MCNext /\ UNCHANGED <<mlVars, mvVars, spVars>>
    \/ page = "stations" /\ SPNext /\ UNCHANGED <<mlVars, mvVars, mcVars>>

ViewNext ==
    \/ page = "camera"        /\ CVNext /\ UNCHANGED <<abVars, npVars, loVars, rpVars>>
    \/ page = "session"       /\ ABNext /\ UNCHANGED <<cvVars, npVars, loVars, rpVars>>
    \/ page = "notifications" /\ NPNext /\ UNCHANGED <<cvVars, abVars, loVars, rpVars>>
    \/ page = "localization"  /\ LONext /\ UNCHANGED <<cvVars, abVars, npVars, rpVars>>
    \/ page = "registry"      /\ RPNext /\ UNCHANGED <<cvVars, abVars, npVars, loVars>>

TaskNext ==
    \/ page = "delivery"      /\ DPNext /\ UNCHANGED <<oaVars, tkVars, mpVars>>
    \/ page = "quickDelivery" /\ QDNext /\ UNCHANGED <<oaVars, tkVars, mpVars>>
    \/ page = "operations"    /\ OANext /\ UNCHANGED <<dpVars, tkVars, mpVars>>
    \/ page = "tasks"         /\ TKNext /\ UNCHANGED <<dpVars, oaVars, mpVars>>
    \/ page = "progress"      /\ MPNext /\ UNCHANGED <<dpVars, oaVars, tkVars>>

PageNames == {"manual", "mappingDrive", "recoveryDrive", "library", "mapping", "canvas",
              "stations", "camera", "session", "notifications", "localization",
              "delivery", "quickDelivery", "operations", "tasks", "progress",
              "registry"}

\* What a page may start from is chosen for the page that is open only.
PagesInit ==
    /\ page \in PageNames
    /\ MDInit /\ RDInit /\ MLInit /\ MVInit /\ MCInit /\ SPInit /\ CVInit /\ ABInit /\ NPInit
    /\ LOInit /\ RPInit /\ OAInit /\ TKInit /\ MPInit
    /\ IF page = "quickDelivery" THEN QDInit ELSE DPInit
    /\ page # "manual" => mdSelected = CHOOSE r \in Robots : TRUE
    /\ page # "canvas" => mcPurpose = CHOOSE purpose \in Purposes : TRUE
    /\ page \notin {"delivery", "quickDelivery"} => dpAdmin
    /\ page # "operations" => oaPage = "home"
    /\ page # "tasks" => tkSelected = NoTask
    /\ page # "progress" => mpRoute.pickup = 0 /\ mpRoute.delivery = 0

PagesNext ==
    /\ UNCHANGED page
    /\ \/ DriveNext /\ UNCHANGED <<mapVars, viewVars, taskVars>>
       \/ MapNext   /\ UNCHANGED <<driveVars, viewVars, taskVars>>
       \/ ViewNext  /\ UNCHANGED <<driveVars, mapVars, taskVars>>
       \/ TaskNext  /\ UNCHANGED <<driveVars, mapVars, viewVars>>

PagesSpec == PagesInit /\ [][PagesNext]_pagesVars
=============================================================================
