------------------------------ MODULE MapLibrary ------------------------------
(***************************************************************************)
(* The library view of the maps page (src/src/app/maps/page.tsx, MapsPage): *)
(* the catalogue of the selected robot, loaded again and again by requests *)
(* that may overtake one another and outlive the selection, and the        *)
(* operations on its maps, each ordered once and then polled to its end.   *)
(***************************************************************************)
EXTENDS Integers, FiniteSets, PageConstants

CONSTANTS MaxCatalogs      \* bounds the requests

VARIABLES
    mlSelected,                \* selectedRobotIdRef
    mlRequest, mlLoads,        \* catalogRequestRef, the catalogue requests out
    mlCatalog,                 \* the catalogue shown
    mlLoading,                 \* the skeleton is drawn instead of the inventory
    mlDialog,                  \* the dialog open and the map it is about
    mlJobs,                    \* the operations whose end the page waits for
    mlSync,                    \* requestRefresh: the request, then the timer
    mlActive                   \* the robots' own active maps

mlVars == <<mlSelected, mlRequest, mlLoads, mlCatalog, mlLoading, mlDialog,
            mlJobs, mlSync, mlActive>>

Modes == {"switch", "metadata", "rename", "delete"}
NoCatalog == [robot |-> NoMap, active |-> NoMap, online |-> FALSE]
NoDialog  == [mode |-> "none", map |-> NoMap, robot |-> NoMap]

\* load(): answered only for the latest request (lines 84-99).
Load(showLoading) ==
    /\ mlRequest < MaxCatalogs
    /\ mlRequest' = mlRequest + 1
    /\ mlLoads' = mlLoads \cup {[id |-> mlRequest + 1, robot |-> mlSelected,
                                 first |-> showLoading]}

\* The interval of ten seconds.
MLTick == Load(FALSE) /\ UNCHANGED <<mlSelected, mlCatalog, mlLoading, mlDialog,
                                     mlJobs, mlSync, mlActive>>

MLLoaded(load, failed) ==
    LET current == load.id = mlRequest IN
    /\ mlLoads' = mlLoads \ {load}
    /\ \E online \in BOOLEAN :
         mlCatalog' = IF current /\ ~failed
                      THEN [robot |-> load.robot, active |-> mlActive[load.robot],
                            online |-> online]
                      ELSE mlCatalog
    /\ mlLoading' = (mlLoading /\ ~(load.first /\ current))
    /\ UNCHANGED <<mlSelected, mlRequest, mlDialog, mlJobs, mlSync, mlActive>>

\* Seeded fault: the answers still out are not disowned.
MLSelect_KeepsRequests(r) ==
    /\ r # mlSelected /\ mlSelected' = r
    /\ mlCatalog' = NoCatalog /\ mlDialog' = NoDialog
    /\ UNCHANGED <<mlRequest, mlLoads, mlLoading, mlJobs, mlSync, mlActive>>

\* The selection effect forgets what was shown and disowns what is out.
MLSelect(r) ==
    /\ r # mlSelected /\ mlRequest < MaxCatalogs
    /\ mlSelected' = r /\ mlRequest' = mlRequest + 1
    /\ mlCatalog' = NoCatalog /\ mlDialog' = NoDialog
    /\ UNCHANGED <<mlLoads, mlLoading, mlJobs, mlSync, mlActive>>

\* requestRefresh(): the catalogue is read half a second after the answer.
MLSync ==
    /\ mlSync = "idle" /\ mlSync' = "out"
    /\ UNCHANGED <<mlSelected, mlRequest, mlLoads, mlCatalog, mlLoading, mlDialog,
                   mlJobs, mlActive>>

MLSynced ==
    /\ mlSync = "out" /\ mlSync' \in {"timer", "idle"}
    /\ UNCHANGED <<mlSelected, mlRequest, mlLoads, mlCatalog, mlLoading, mlDialog,
                   mlJobs, mlActive>>

MLSyncTimer ==
    /\ mlSync = "timer" /\ mlSync' = "idle" /\ Load(FALSE)
    /\ UNCHANGED <<mlSelected, mlCatalog, mlLoading, mlDialog, mlJobs, mlActive>>

Managing  == {job \in mlJobs : job.mode # "switch"}
Switching == {job \in mlJobs : job.mode = "switch"}

\* The buttons of the inventory: the active map is only described.
MayOpen(mode, map) ==
    /\ mlCatalog # NoCatalog /\ mlCatalog.online
    /\ mode # "metadata" => map # mlCatalog.active
    /\ IF mode = "switch" THEN Switching = {} ELSE Managing = {}

MLOpen(mode, map) ==
    /\ mlDialog = NoDialog /\ ~mlLoading /\ MayOpen(mode, map)
    /\ mlDialog' = [mode |-> mode, map |-> map, robot |-> mlCatalog.robot]
    /\ UNCHANGED <<mlSelected, mlRequest, mlLoads, mlCatalog, mlLoading, mlJobs,
                   mlSync, mlActive>>

MLCancel ==
    /\ mlDialog # NoDialog /\ (mlDialog.mode = "switch" \/ Managing = {})
    /\ mlDialog' = NoDialog
    /\ UNCHANGED <<mlSelected, mlRequest, mlLoads, mlCatalog, mlLoading, mlJobs,
                   mlSync, mlActive>>

\* switchMap() closes its dialog at once, applyManagement() when it is done.
MLConfirm ==
    /\ mlDialog # NoDialog
    /\ IF mlDialog.mode = "switch" THEN Switching = {} ELSE Managing = {}
    /\ mlJobs' = mlJobs \cup {[mode |-> mlDialog.mode, map |-> mlDialog.map,
                               about |-> mlDialog.robot, target |-> mlSelected,
                               done |-> FALSE]}
    /\ mlDialog' = IF mlDialog.mode = "switch" THEN NoDialog ELSE mlDialog
    /\ UNCHANGED <<mlSelected, mlRequest, mlLoads, mlCatalog, mlLoading, mlSync, mlActive>>

\* The polled operation has ended; a success is followed by a load.
MLJobEnds(job, succeeded) ==
    /\ ~job.done
    /\ mlJobs' = (mlJobs \ {job}) \cup
                 (IF succeeded THEN {[job EXCEPT !.done = TRUE]} ELSE {})
    /\ mlDialog' = IF succeeded /\ "switch" \notin {job.mode, mlDialog.mode}
                   THEN NoDialog ELSE mlDialog
    /\ mlActive' = IF succeeded /\ job.mode = "switch"
                   THEN [mlActive EXCEPT ![job.target] = job.map] ELSE mlActive
    /\ UNCHANGED <<mlSelected, mlRequest, mlLoads, mlCatalog, mlLoading, mlSync>>

MLReload(job) ==
    /\ job.done /\ mlJobs' = mlJobs \ {job} /\ Load(FALSE)
    /\ UNCHANGED <<mlSelected, mlCatalog, mlLoading, mlDialog, mlSync, mlActive>>

MLInit ==
    /\ mlSelected = CHOOSE r \in Robots : TRUE
    /\ mlRequest = 2                          \* both effects of the first render
    /\ mlLoads = {[id |-> 2, robot |-> mlSelected, first |-> TRUE]}
    /\ mlCatalog = NoCatalog /\ mlLoading = TRUE /\ mlDialog = NoDialog
    /\ mlJobs = {} /\ mlSync = "idle"
    /\ mlActive = [r \in Robots |-> CHOOSE m \in Maps : TRUE]

MLNext ==
    \/ MLTick \/ MLSync \/ MLSynced \/ MLSyncTimer \/ MLCancel \/ MLConfirm
    \/ \E load \in mlLoads, failed \in BOOLEAN : MLLoaded(load, failed)
    \/ \E r \in Robots : MLSelect(r)
    \/ \E mode \in Modes, map \in Maps : MLOpen(mode, map)
    \/ \E job \in mlJobs : MLReload(job) \/ \E ok \in BOOLEAN : MLJobEnds(job, ok)

-----------------------------------------------------------------------------
\* What the page shows, and what it orders, is about one robot: the catalogue
\* and the open dialog are the selected robot's, and an operation goes to the
\* robot whose catalogue its map was picked from (lines 84-112, 152-213).
LibraryOfOneRobot ==
    /\ mlCatalog # NoCatalog => mlCatalog.robot = mlSelected
    /\ mlDialog # NoDialog => mlDialog.robot = mlSelected
    /\ \A job \in mlJobs : job.target = job.about
=============================================================================
