-------------------------- MODULE RobotPages_proofs ---------------------------
(***************************************************************************)
(* What the pages that watch and move a robot promise, for every fleet,      *)
(* catalogue and number of requests: a page that is not open does not move,  *)
(* so each proof is about the steps of one module.                           *)
(*                                                                           *)
(* None of the properties is inductive.  What is added is, every time, what  *)
(* the page's guard compares: the newest request of a kind is the one that   *)
(* was made for what is selected now (CurrentLoadIsSelected, ShownIsOwn),    *)
(* the newest frame is drawn, decoding or next (NewestIsKept), a baseline    *)
(* is no older than the last map seen without a session (BaselineIsKept), a  *)
(* request of the present hold is for the robot held (DMInv), and a command  *)
(* has one robot and one end (StoreAgrees, FlowIsOwn).                       *)
(***************************************************************************)
EXTENDS Pages, ManualDrive_proofs, FiniteSetTheorems, TLAPS

\* What a step of a drive page is to the callbacks that both of them share.
LEMMA DriveStep ==
    ASSUME DriveNext
    PROVE  \/ [RDStep \/ DMPress]_dmVars
           \/ StopDrive /\ UNCHANGED <<dmProps, dmClosed, dmOut>>
  <1>1. DMNext => RDStep \/ DMPress
    BY Zenon DEF DMNext, RDStep
  <1>2. RDNext => \/ RDStep \/ DMPress \/ UNCHANGED dmVars
                  \/ StopDrive /\ UNCHANGED <<dmProps, dmClosed, dmOut>>
    BY DEF RDNext, RDPress, RDScan, RDBind
  <1>3. UNCHANGED rdVars => UNCHANGED dmVars
    BY DEF rdVars
  <1> QED BY <1>1, <1>2, <1>3 DEF DriveNext

\* What a step of the dashboard is to each page: a step of its own or none.
LEMMA PagesStep ==
    ASSUME [PagesNext]_pagesVars
    PROVE  /\ [MLNext]_mlVars
           /\ [SPNext]_spVars
           /\ [MVNext]_mvVars
           /\ [CVNext]_cvVars
           /\ [LONext]_loVars
           /\ \/ [RDStep \/ DMPress]_dmVars
              \/ StopDrive /\ UNCHANGED <<dmProps, dmClosed, dmOut>>
  <1> USE DEF pagesVars, driveVars, mapVars, viewVars, taskVars
  <1>1. CASE UNCHANGED pagesVars
    BY <1>1 DEF mdVars, rdVars, dmVars
  <1>2. CASE DriveNext /\ UNCHANGED <<mapVars, viewVars, taskVars>>
    BY <1>2, DriveStep DEF rdVars
  <1>3. CASE MapNext /\ UNCHANGED <<driveVars, viewVars, taskVars>>
    BY <1>3 DEF MapNext, rdVars
  <1>4. CASE ViewNext /\ UNCHANGED <<driveVars, mapVars, taskVars>>
    BY <1>4 DEF ViewNext, rdVars
  <1>5. CASE TaskNext /\ UNCHANGED <<driveVars, mapVars, viewVars>>
    BY <1>5 DEF TaskNext, rdVars
  <1> QED BY <1>1, <1>2, <1>3, <1>4, <1>5 DEF PagesNext

-----------------------------------------------------------------------------
\* app/maps: the map library.
\* The catalogue request that counts was made for the robot selected now.
MLTypeOK ==
    /\ mlSelected \in Robots /\ mlRequest \in Nat
    /\ mlDialog \in {NoDialog} \cup [mode: Modes, map: Maps, robot: Robots]
    /\ mlJobs \subseteq [mode: Modes, map: Maps, about: Robots, target: Robots, done: BOOLEAN]

CurrentLoadIsSelected ==
    \A load \in mlLoads :
        /\ load.id \in Nat /\ load.id <= mlRequest
        /\ load.id = mlRequest => load.robot = mlSelected

MLInv == MLTypeOK /\ CurrentLoadIsSelected /\ LibraryOfOneRobot

LEMMA CatalogLoadKeeps ==
    ASSUME MLInv, NEW showLoading, Load(showLoading), UNCHANGED mlSelected
    PROVE  mlRequest' \in Nat /\ CurrentLoadIsSelected'
  BY DEF MLInv, MLTypeOK, CurrentLoadIsSelected, Load

LEMMA MLInitial == MLInit => MLInv
  BY PageAssumption DEF MLInit, MLInv, MLTypeOK, CurrentLoadIsSelected, LibraryOfOneRobot

LEMMA MLStep == MLInv /\ [MLNext]_mlVars => MLInv'
  <1> SUFFICES ASSUME MLInv, [MLNext]_mlVars PROVE MLInv'
    OBVIOUS
  <1> USE DEF MLInv, LibraryOfOneRobot
  <1>1. CASE UNCHANGED mlVars
    BY <1>1 DEF mlVars, MLTypeOK, CurrentLoadIsSelected
  <1>2. CASE MLTick
    BY <1>2, CatalogLoadKeeps DEF MLTick, MLTypeOK
  <1>3. CASE MLSync \/ MLSynced
    BY <1>3 DEF MLSync, MLSynced, MLTypeOK, CurrentLoadIsSelected
  <1>4. CASE MLSyncTimer
    BY <1>4, CatalogLoadKeeps DEF MLSyncTimer, MLTypeOK
  <1>5. CASE MLCancel
    BY <1>5 DEF MLCancel, MLTypeOK, CurrentLoadIsSelected
  <1>6. CASE MLConfirm
    <2>1. mlDialog \in [mode: Modes, map: Maps, robot: Robots] /\ mlDialog.robot = mlSelected
      BY <1>6 DEF MLConfirm, MLTypeOK
    <2>2. [mode |-> mlDialog.mode, map |-> mlDialog.map, about |-> mlDialog.robot,
           target |-> mlSelected, done |-> FALSE]
             \in [mode: Modes, map: Maps, about: Robots, target: Robots, done: BOOLEAN]
      BY <2>1
    <2>3. mlJobs' \subseteq [mode: Modes, map: Maps, about: Robots, target: Robots,
                             done: BOOLEAN]
      BY <1>6, <2>2 DEF MLConfirm, MLTypeOK
    <2>4. \A job \in mlJobs' : job.target = job.about
      BY <1>6, <2>1 DEF MLConfirm
    <2>5. mlDialog' \in {mlDialog, NoDialog}
      BY <1>6 DEF MLConfirm
    <2> QED BY <1>6, <2>3, <2>4, <2>5 DEF MLConfirm, MLTypeOK, CurrentLoadIsSelected
  <1>7. ASSUME NEW load \in mlLoads, NEW failed \in BOOLEAN, MLLoaded(load, failed)
        PROVE  MLInv'
    BY <1>7 DEF MLLoaded, MLTypeOK, CurrentLoadIsSelected
  <1>8. ASSUME NEW r \in Robots, MLSelect(r)
        PROVE  MLInv'
    BY <1>8 DEF MLSelect, MLTypeOK, CurrentLoadIsSelected
  <1>9. ASSUME NEW mode \in Modes, NEW map \in Maps, MLOpen(mode, map)
        PROVE  MLInv'
    BY <1>9 DEF MLOpen, MayOpen, MLTypeOK, CurrentLoadIsSelected
  <1>10. ASSUME NEW job \in mlJobs, MLReload(job)
         PROVE  MLInv'
    BY <1>10, CatalogLoadKeeps DEF MLReload, MLTypeOK
  <1>11. ASSUME NEW job \in mlJobs, NEW ok \in BOOLEAN, MLJobEnds(job, ok)
         PROVE  MLInv'
    <2>1. [job EXCEPT !.done = TRUE]
             \in [mode: Modes, map: Maps, about: Robots, target: Robots, done: BOOLEAN]
          /\ [job EXCEPT !.done = TRUE].target = [job EXCEPT !.done = TRUE].about
      BY DEF MLTypeOK
    <2> QED BY <1>11, <2>1 DEF MLJobEnds, MLTypeOK, CurrentLoadIsSelected
  <1> QED BY <1>1, <1>2, <1>3, <1>4, <1>5, <1>6, <1>7, <1>8, <1>9, <1>10, <1>11 DEF MLNext

\* The library's catalogue, dialog and operations are one robot's, however its
\* reloads and their answers interleave with changes of the robot
\* (maps/page.tsx 84-112, 152-213).
THEOREM LibraryOfOneRobotHolds == PagesSpec => []LibraryOfOneRobot
  <1>1. PagesInit => MLInv
    BY MLInitial DEF PagesInit
  <1>2. MLInv /\ [PagesNext]_pagesVars => MLInv'
    BY PagesStep, MLStep
  <1>3. MLInv => LibraryOfOneRobot
    BY DEF MLInv
  <1> QED BY <1>1, <1>2, <1>3, PTL DEF PagesSpec

-----------------------------------------------------------------------------
\* app/stations.
Own(place, r) == place = Nowhere \/ place.robot = r

IsLoad(load) ==
    load \in [kind: {"catalog", "stations"}, id: Nat, of: {load.of}, again: BOOLEAN]

\* Numbers are given once, so the request that counts is the newest of its kind.
LoadsNumbered ==
    /\ spNext \in Nat /\ spCat \in Nat /\ spSta \in Nat /\ spCat < spNext /\ spSta < spNext
    /\ spOld \in BOOLEAN /\ spCarried \in BOOLEAN
    /\ \A load \in spLoads :
         /\ load.id \in Nat /\ load.id < spNext
         /\ IsLoad(load)

\* Whatever counts, is shown or was ordered belongs to its robot.
ShownIsOwn ==
    ~spOld =>
      /\ Own(spCatalog, spSelected) /\ Own(spMap, spSelected)
      /\ Own(spStations, spSelected) /\ Own(spRemove, spSelected)
      /\ \A load \in spLoads :
           /\ load.kind = "catalog" /\ load.id = spCat => load.of.robot = spSelected
           /\ load.kind = "stations" /\ load.id = spSta => Own(load.of, spSelected)

FormIsOfMap == ~spOld /\ spForm # Nowhere /\ ~spCarried => spForm = spMap

OrderedIsOwn ==
    \A job \in spJobs :
      /\ job.old \in BOOLEAN
      /\ ~job.old => Own(job.map, job.robot)
      /\ ~job.old /\ job.kind = "activate" => job.at.robot = job.robot

SPInv == LoadsNumbered /\ ShownIsOwn /\ FormIsOfMap /\ OrderedIsOwn

LEMMA NewLoads ==
    ASSUME NEW id \in Nat, NEW r, NEW place
    PROVE  /\ IsLoad(CatalogLoad(id, r)) /\ CatalogLoad(id, r).id = id
           /\ CatalogLoad(id, r).kind = "catalog" /\ CatalogLoad(id, r).of.robot = r
           /\ IsLoad(StationLoad(id, place)) /\ StationLoad(id, place).id = id
           /\ StationLoad(id, place).kind = "stations" /\ StationLoad(id, place).of = place
  <1>1. CatalogLoad(id, r).id = id /\ CatalogLoad(id, r).kind = "catalog"
        /\ CatalogLoad(id, r).of = Place(r, NoMap) /\ CatalogLoad(id, r).of.robot = r
    BY DEF CatalogLoad, Place
  <1>2. IsLoad(CatalogLoad(id, r))
    BY <1>1 DEF CatalogLoad, IsLoad
  <1>3. StationLoad(id, place).id = id /\ StationLoad(id, place).kind = "stations"
        /\ StationLoad(id, place).of = place
    BY DEF StationLoad
  <1>4. IsLoad(StationLoad(id, place))
    BY <1>3 DEF StationLoad, IsLoad
  <1> QED BY <1>1, <1>2, <1>3, <1>4

LEMMA SPImplies == SPInv => StationsOfOneRobot
  BY DEF SPInv, ShownIsOwn, FormIsOfMap, OrderedIsOwn, StationsOfOneRobot, Own, Nowhere

LEMMA SPInitial == SPInit => SPInv
  <1> SUFFICES ASSUME SPInit PROVE SPInv
    OBVIOUS
  <1>1. LoadsNumbered
    <2>1. spCat = 1 /\ spSta = 2 /\ spNext = 3
      BY Zenon DEF SPInit
    <2>2. spOld \in BOOLEAN /\ spCarried \in BOOLEAN
      BY DEF SPInit
    <2>3. ASSUME NEW load \in spLoads PROVE load.id \in Nat /\ load.id < spNext /\ IsLoad(load)
      <3>1. load = CatalogLoad(1, spSelected)
        BY Zenon DEF SPInit
      <3>2. load.id = 1 /\ IsLoad(load)
        BY <3>1, NewLoads
      <3> QED BY <2>1, <3>2
    <2> QED BY <2>1, <2>2, <2>3 DEF LoadsNumbered
  <1>2. ShownIsOwn
    BY DEF SPInit, ShownIsOwn, Own, CatalogLoad, Place
  <1>3. FormIsOfMap /\ OrderedIsOwn
    BY DEF SPInit, FormIsOfMap, OrderedIsOwn
  <1> QED BY <1>1, <1>2, <1>3 DEF SPInv

LEMMA LoadStationsKeeps ==
    ASSUME LoadsNumbered, NEW place, NEW others, others \subseteq spLoads,
           LoadStations(place, others), UNCHANGED spCat,
           spOld' \in BOOLEAN, spCarried' \in BOOLEAN
    PROVE  /\ LoadsNumbered'
           /\ \A load \in spLoads' :
                \/ load \in others /\ load.id # spSta'
                \/ load.kind = "stations" /\ load.of = place
  <1>1. /\ IsLoad(StationLoad(spNext, place)) /\ StationLoad(spNext, place).id = spNext
        /\ StationLoad(spNext, place).kind = "stations" /\ StationLoad(spNext, place).of = place
    BY NewLoads DEF LoadsNumbered
  <1>2. \A load \in spLoads' : load \in others \/ load = StationLoad(spNext, place)
    BY DEF LoadStations
  <1>3. spNext' = spNext + 1 /\ spSta' = spNext
    BY DEF LoadStations
  <1> QED BY <1>1, <1>2, <1>3 DEF LoadsNumbered

LEMMA CatalogKeeps ==
    ASSUME SPInv, NEW load \in spLoads, SPCatalog(load)
    PROVE  SPInv'
  <1> DEFINE active == Place(load.of.robot, spActive[load.of.robot])
             map == IF spMap.robot = load.of.robot /\ ~load.again THEN spMap ELSE active
  <1>1. /\ load.kind = "catalog" /\ load.id = spCat
        /\ spCatalog' = active /\ spMap' = map
        /\ spCarried' = (spForm # Nowhere /\ (spCarried \/ map # spMap))
        /\ IF map # spMap THEN LoadStations(map, spLoads \ {load})
           ELSE spLoads' = spLoads \ {load} /\ UNCHANGED <<spSta, spNext>>
        /\ UNCHANGED <<spSelected, spCat, spStations, spForm, spRemove, spJobs,
                       spActive, spOld>>
    BY DEF SPCatalog
  <1>2. ~spOld => active.robot = spSelected /\ Own(map, spSelected)
    BY <1>1 DEF SPInv, ShownIsOwn, Own, Place
  <1>3. spCarried' \in BOOLEAN /\ spOld' \in BOOLEAN
    BY <1>1 DEF SPInv, LoadsNumbered
  <1> HIDE DEF active, map
  <1>4. LoadsNumbered'
    BY <1>1, <1>3, LoadStationsKeeps DEF SPInv, LoadsNumbered
  <1>5. \A other \in spLoads' :
          \/ other \in spLoads /\ (other.kind = "stations" /\ other.id = spSta'
                                     => other.id = spSta)
          \/ other.kind = "stations" /\ other.of = map
    BY <1>1, <1>3, LoadStationsKeeps DEF SPInv
  <1>6. ShownIsOwn'
    BY <1>1, <1>2, <1>5 DEF SPInv, ShownIsOwn, Own
  <1>7. FormIsOfMap' /\ OrderedIsOwn'
    BY <1>1 DEF SPInv, FormIsOfMap, OrderedIsOwn, LoadsNumbered
  <1> QED BY <1>4, <1>6, <1>7 DEF SPInv

LEMMA DoneKeeps ==
    ASSUME SPInv, NEW job \in spJobs, SPDone(job)
    PROVE  SPInv'
  <1>1. /\ spOld' = (spOld \/ job.old \/ job.robot # spSelected)
        /\ spJobs' = spJobs \ {job}
        /\ UNCHANGED <<spSelected, spCatalog, spMap, spStations>>
    BY DEF SPDone
  <1>2. spOld' \in BOOLEAN /\ (~spOld' => ~spOld /\ Own(job.map, spSelected) /\ job.robot = spSelected)
    BY <1>1 DEF SPInv, LoadsNumbered, OrderedIsOwn
  <1>3. OrderedIsOwn'
    BY <1>1 DEF SPInv, OrderedIsOwn
  <1>4. CASE job.kind = "activate"
    <2>1. /\ spCat' = spNext + 1 /\ spSta' = spNext /\ spNext' = spNext + 2
          /\ spLoads' = spLoads \cup {CatalogLoad(spNext + 1, job.robot),
                                      StationLoad(spNext, job.map)}
          /\ UNCHANGED <<spForm, spRemove, spCarried>>
      BY <1>4 DEF SPDone
    <2>2. LoadsNumbered'
      <3>1. IsLoad(CatalogLoad(spNext + 1, job.robot)) /\ IsLoad(StationLoad(spNext, job.map))
            /\ CatalogLoad(spNext + 1, job.robot).id = spNext + 1
            /\ StationLoad(spNext, job.map).id = spNext
        <4>1. spNext \in Nat /\ spNext + 1 \in Nat
          BY DEF SPInv, LoadsNumbered
        <4> QED BY <4>1, NewLoads
      <3> QED BY <1>2, <2>1, <3>1 DEF SPInv, LoadsNumbered
    <2>3. \A load \in spLoads' :
            \/ load.id # spCat' /\ load.id # spSta'
            \/ load = CatalogLoad(spNext + 1, job.robot)
            \/ load = StationLoad(spNext, job.map)
      BY <2>1 DEF SPInv, LoadsNumbered
    <2>4. ShownIsOwn'
      BY <1>1, <1>2, <2>1, <2>3 DEF SPInv, ShownIsOwn, Own, CatalogLoad, StationLoad, Place
    <2>5. FormIsOfMap'
      BY <1>1, <1>2, <2>1 DEF SPInv, FormIsOfMap
    <2> QED BY <1>3, <2>2, <2>4, <2>5 DEF SPInv
  <1>5. CASE job.kind # "activate"
    <2>1. /\ LoadStations(job.map, spLoads)
          /\ spRemove' \in {spRemove, Nowhere} /\ spForm' \in {spForm, Nowhere}
          /\ spCarried' \in BOOLEAN /\ (spForm' # Nowhere => spCarried' = spCarried)
          /\ UNCHANGED spCat
      BY <1>5 DEF SPDone, SPInv, LoadsNumbered
    <2>2. /\ LoadsNumbered'
          /\ \A load \in spLoads' :
                \/ load \in spLoads /\ load.id # spSta'
                \/ load.kind = "stations" /\ load.of = job.map
      BY <1>2, <2>1, LoadStationsKeeps DEF SPInv
    <2>3. ShownIsOwn'
      BY <1>1, <1>2, <2>1, <2>2 DEF SPInv, ShownIsOwn, Own
    <2>4. FormIsOfMap'
      BY <1>1, <1>2, <2>1 DEF SPInv, FormIsOfMap
    <2> QED BY <1>3, <2>2, <2>3, <2>4 DEF SPInv
  <1> QED BY <1>4, <1>5

LEMMA SPStep == SPInv /\ [SPNext]_spVars => SPInv'
  <1> SUFFICES ASSUME SPInv, [SPNext]_spVars PROVE SPInv'
    OBVIOUS
  <1> USE DEF SPInv
  <1>1. CASE UNCHANGED spVars
    BY <1>1 DEF spVars, LoadsNumbered, ShownIsOwn, FormIsOfMap, OrderedIsOwn
  <1>2. CASE SPDraft \/ SPAsk
    <2>1. LoadsNumbered' /\ OrderedIsOwn'
      BY <1>2 DEF SPDraft, SPAsk, LoadsNumbered, OrderedIsOwn
    <2>2. ShownIsOwn' /\ FormIsOfMap'
      BY <1>2 DEF SPDraft, SPAsk, ShownIsOwn, FormIsOfMap, Own
    <2> QED BY <2>1, <2>2
  <1>3. ASSUME NEW r \in Robots, SPSelect(r)
        PROVE  SPInv'
    <2>1. LoadsNumbered'
      <3>1. IsLoad(CatalogLoad(spNext, r)) /\ CatalogLoad(spNext, r).id = spNext
        BY NewLoads DEF LoadsNumbered
      <3>2. /\ spCat' = spNext /\ spSta' = spNext + 1 /\ spNext' = spNext + 2
            /\ spLoads' = spLoads \cup {CatalogLoad(spNext, r)}
            /\ spOld' = FALSE /\ spCarried' = FALSE
        BY <1>3 DEF SPSelect
      <3>3. spOld' \in BOOLEAN /\ spCarried' \in BOOLEAN
        BY <3>2
      <3>4. \A load \in spLoads' : load.id \in Nat /\ load.id < spNext' /\ IsLoad(load)
        BY <3>1, <3>2 DEF LoadsNumbered
      <3> QED BY <3>2, <3>3, <3>4 DEF LoadsNumbered
    <2>2. \A load \in spLoads' : load.id \in {spCat', spSta'} => load = CatalogLoad(spNext, r)
      BY <1>3 DEF SPSelect, LoadsNumbered
    <2>3. ShownIsOwn'
      BY <1>3, <2>2 DEF SPSelect, ShownIsOwn, Own, CatalogLoad, Place
    <2>4. FormIsOfMap' /\ OrderedIsOwn'
      BY <1>3 DEF SPSelect, FormIsOfMap, OrderedIsOwn
    <2> QED BY <2>1, <2>3, <2>4
  <1>4. ASSUME NEW load \in spLoads, SPStations(load)
        PROVE  SPInv'
    BY <1>4 DEF SPStations, LoadsNumbered, ShownIsOwn, FormIsOfMap, OrderedIsOwn
  <1>5. ASSUME NEW load \in spLoads, SPDropped(load)
        PROVE  SPInv'
    <2> DEFINE new == [load EXCEPT !.again = TRUE]
    <2>0. IsLoad(load)
      BY DEF LoadsNumbered
    <2>1. /\ IsLoad(new)
          /\ new.kind = load.kind /\ new.id = load.id /\ new.of = load.of
      BY <2>0 DEF IsLoad
    <2>2. spLoads' \subseteq spLoads \cup {new}
      BY <1>5 DEF SPDropped
    <2> HIDE DEF new
    <2>3. LoadsNumbered'
      BY <1>5, <2>1, <2>2 DEF SPDropped, LoadsNumbered
    <2>4. ShownIsOwn'
      BY <1>5, <2>1, <2>2 DEF SPDropped, ShownIsOwn
    <2> QED BY <1>5, <2>3, <2>4 DEF SPDropped, FormIsOfMap, OrderedIsOwn
  <1>6. ASSUME NEW m \in Maps, SPChoose(m)
        PROVE  SPInv'
    <2>1. /\ LoadsNumbered'
          /\ \A load \in spLoads' :
                \/ load \in spLoads /\ load.id # spSta'
                \/ load.kind = "stations" /\ load.of = spMap'
      BY <1>6, LoadStationsKeeps DEF SPChoose, LoadsNumbered
    <2>2. ~spOld => Own(spMap', spSelected)
      BY <1>6 DEF SPChoose, ShownIsOwn, Own, Place
    <2>3. ShownIsOwn'
      BY <1>6, <2>1, <2>2 DEF SPChoose, ShownIsOwn, Own
    <2> QED BY <1>6, <2>1, <2>3 DEF SPChoose, FormIsOfMap, OrderedIsOwn
  <1>7. ASSUME NEW kind \in {"activate", "save", "remove"}, SPOrder(kind)
        PROVE  SPInv'
    <2>1. PICK place : spJobs' = spJobs \cup {Job(kind, place)}
                       /\ (kind = "activate" => place = spMap /\ spMap # Nowhere)
      BY <1>7 DEF SPOrder
    <2>2. OrderedIsOwn'
      BY <2>1 DEF OrderedIsOwn, Job, ShownIsOwn, Own, LoadsNumbered
    <2> QED BY <1>7, <2>2 DEF SPOrder, LoadsNumbered, ShownIsOwn, FormIsOfMap
  <1>8. ASSUME NEW job \in spJobs, SPFails(job)
        PROVE  SPInv'
    BY <1>8 DEF SPFails, LoadsNumbered, ShownIsOwn, FormIsOfMap, OrderedIsOwn, Own
  <1> QED
    BY <1>1, <1>2, <1>3, <1>4, <1>5, <1>6, <1>7, <1>8, CatalogKeeps, DoneKeeps DEF SPNext

\* Catalogue, stations, question and orders of the stations page are one
\* robot's, but for operations ordered for another robot and second attempts
\* (stations/page.tsx 41-92, 118-174).
THEOREM StationsOfOneRobotHolds == PagesSpec => []StationsOfOneRobot
  <1>1. PagesInit => SPInv
    BY SPInitial DEF PagesInit
  <1>2. SPInv /\ [PagesNext]_pagesVars => SPInv'
    BY PagesStep, SPStep
  <1>3. SPInv => StationsOfOneRobot
    BY SPImplies
  <1> QED BY <1>1, <1>2, <1>3, PTL DEF PagesSpec

-----------------------------------------------------------------------------
\* The map that is drawn while mapping.
\* A baseline is a map the page had once it last saw no session, or one from
\* before; without a session the page's present map is what it was seen with.
BaselineIsKept ==
    /\ mvMap \in Nat /\ mvSeenIdle \in Nat /\ mvBase \in Nat \cup {Unset}
    /\ mvSeenIdle <= mvMap
    /\ mvSession.phase \in Ended => mvSeenIdle = mvMap
    /\ mvBase # Unset => mvSeenIdle <= mvBase

LEMMA MVImplies == BaselineIsKept => OldMapNeverDrawn
  BY DEF BaselineIsKept, OldMapNeverDrawn, Drawn, Live, Ended, Unset

LEMMA MVInitial == MVInit => BaselineIsKept
  BY DEF MVInit, BaselineIsKept, Idle, Ended, Unset

LEMMA RenderedKeeps ==
    ASSUME BaselineIsKept, NEW session, NEW revision \in Nat, revision >= mvMap,
           Rendered(session, revision, mvBase)
    PROVE  BaselineIsKept'
  <1>1. mvSession' = session /\ mvMap' = revision
        /\ mvSeenIdle' = IF session.phase \in Ended THEN revision ELSE mvSeenIdle
    BY DEF Rendered
  <1>2. CASE <<session, revision>> = <<mvSession, mvMap>>
    BY <1>1, <1>2 DEF Rendered, BaselineIsKept
  <1>3. CASE <<session, revision>> # <<mvSession, mvMap>>
    BY <1>1, <1>3 DEF Rendered, BaseFor, BaselineIsKept, Unset
  <1> QED BY <1>2, <1>3

LEMMA MVStep == BaselineIsKept /\ [MVNext]_mvVars => BaselineIsKept'
  <1> SUFFICES ASSUME BaselineIsKept, [MVNext]_mvVars PROVE BaselineIsKept'
    OBVIOUS
  <1>1. ASSUME UNCHANGED <<mvSession, mvMap, mvBase, mvSeenIdle>>
        PROVE  BaselineIsKept'
    BY <1>1 DEF BaselineIsKept
  <1>2. ASSUME NEW session, Rendered(session, mvMap, mvBase)
        PROVE  BaselineIsKept'
    BY <1>2, RenderedKeeps DEF BaselineIsKept
  <1>3. CASE MVMap
    BY <1>3, RenderedKeeps DEF MVMap, BaselineIsKept
  <1>4. CASE MVStart
    BY <1>4 DEF MVStart, BaselineIsKept, Ended
  <1>5. ASSUME NEW reload \in BOOLEAN, MVForget(reload)
        PROVE  BaselineIsKept'
    BY <1>5 DEF MVForget, BaselineIsKept, Idle
  <1>6. ASSUME NEW failed \in BOOLEAN, MVStatus(failed)
        PROVE  BaselineIsKept'
    BY <1>1, <1>2, <1>6 DEF MVStatus
  <1>7. ASSUME NEW answer, NEW failed \in BOOLEAN, MVRunDone(answer, failed)
        PROVE  BaselineIsKept'
    BY <1>1, <1>2, <1>7 DEF MVRunDone
  <1>8. CASE UNCHANGED mvVars \/ MVPoll \/ MVOperate \/ \E phase : MVRobot(phase)
    BY <1>1, <1>8 DEF mvVars, MVPoll, MVOperate, MVRobot
  <1> QED BY <1>3, <1>4, <1>5, <1>6, <1>7, <1>8 DEF MVNext

\* No map from before a mapping session is drawn as its map, in whatever order
\* statuses, maps, answers and reloads come (maps/page.tsx 285-314).
THEOREM OldMapNeverDrawnHolds == PagesSpec => []OldMapNeverDrawn
  <1>1. PagesInit => BaselineIsKept
    BY MVInitial DEF PagesInit
  <1>2. BaselineIsKept /\ [PagesNext]_pagesVars => BaselineIsKept'
    BY PagesStep, MVStep
  <1>3. BaselineIsKept => OldMapNeverDrawn
    BY MVImplies
  <1> QED BY <1>1, <1>2, <1>3, PTL DEF PagesSpec

-----------------------------------------------------------------------------
\* The camera view.
\* The newest frame of the view is waiting, decoding, drawn or lost with a failure.
NewestIsKept ==
    /\ cvSequence \in Nat
    /\ cvPending # 0 => cvDecoding # 0 /\ cvPending = cvSequence
    /\ cvDecoding # 0 /\ cvPending = 0 => cvDecoding = cvSequence
    /\ cvDecoding = 0 /\ cvSequence > 0 /\ ~cvFailed =>
         cvCanvas.view = cvView /\ cvCanvas.frame = cvSequence
    /\ cvLoaded => cvCanvas.view = cvView /\ cvCanvas.robot = cvRobot

LEMMA CVImplies == NewestIsKept => LiveIsOfShownRobot
  BY DEF NewestIsKept, LiveIsOfShownRobot

LEMMA CVInitial == CVInit => NewestIsKept
  BY DEF CVInit, NewestIsKept

LEMMA CVStep == NewestIsKept /\ [CVNext]_cvVars => NewestIsKept'
  <1> SUFFICES ASSUME NewestIsKept, [CVNext]_cvVars PROVE NewestIsKept'
    OBVIOUS
  <1> USE DEF NewestIsKept
  <1>1. CASE UNCHANGED cvVars
    BY <1>1 DEF cvVars
  <1>2. ASSUME NEW robot, NEW enabled, NewView(robot, enabled)
        PROVE  NewestIsKept'
    BY <1>2 DEF NewView
  <1>3. CASE CVOpen \/ CVBadMessage \/ CVOldFails \/ CVClosed
    BY <1>3 DEF CVOpen, CVBadMessage, CVOldFails, CVClosed
  <1>4. CASE CVFrame
    BY <1>4 DEF CVFrame
  <1>5. CASE CVDecoded
    BY <1>5 DEF CVDecoded
  <1>6. CASE CVDecodeFails
    BY <1>6 DEF CVDecodeFails
  <1>7. ASSUME NEW image \in cvOld, CVOldDecoded(image)
        PROVE  NewestIsKept'
    BY <1>7 DEF CVOldDecoded
  <1> QED BY <1>1, <1>2, <1>3, <1>4, <1>5, <1>6, <1>7 DEF CVNext, CVShow, CVRetry

\* What the camera view calls live is the shown robot's newest frame, drawn or
\* on its way, for any number of views and frames (LiveCamera.tsx 58-128).
THEOREM LiveIsOfShownRobotHolds == PagesSpec => []LiveIsOfShownRobot
  <1>1. PagesInit => NewestIsKept
    BY CVInitial DEF PagesInit
  <1>2. NewestIsKept /\ [PagesNext]_pagesVars => NewestIsKept'
    BY PagesStep, CVStep
  <1>3. NewestIsKept => LiveIsOfShownRobot
    BY CVImplies
  <1> QED BY <1>1, <1>2, <1>3, PTL DEF PagesSpec

-----------------------------------------------------------------------------
\* Giving the robot its pose.
\* Commands are numbered in the order they come, so a new one is nobody's.
CommandsNumbered ==
    /\ DOMAIN loEnd = Commands
    /\ \E n \in 0..MaxCommands : Created = 1..n

\* The backend's store: a pending command is one robot's alone, and the last one
\* has ended the way the store says.
StoreAgrees ==
    /\ loStore \in [Robots -> [pending: {0} \cup Commands, last: {0} \cup Commands, ok: BOOLEAN]]
    /\ \A r \in Robots : loStore[r].pending # 0 => loEnd[loStore[r].pending] = "pending"
    /\ \A r \in Robots : loStore[r].last # 0 =>
         loEnd[loStore[r].last] = IF loStore[r].ok THEN "ok" ELSE "failed"
    /\ \A r, s \in Robots :
         loStore[r].pending # 0 /\ loStore[r].pending = loStore[s].pending => r = s

Flows == [stage: {"none", "order", "await", "ready"}, kind: {"none", "pose", "global"},
          robot: {"none"} \cup Robots, id: {0} \cup Commands]

\* The page: its flow is about its target, and a command it no longer waits for
\* was confirmed, as long as nobody left; a status of another robot is pending.
FlowIsOwn ==
    /\ loTarget \in Robots /\ loFlow \in Flows
    /\ loFlow # NoFlow => loFlow.robot \in Robots /\ (~loLeft => loFlow.robot = loTarget)
    /\ loFlow.stage \in {"await", "ready"} => loFlow # NoFlow /\ loFlow.id \in Commands
    /\ loFlow.stage = "ready" /\ ~loLeft => loEnd[loFlow.id] = "ok"
    /\ loToast \in {Nothing, Failure} \cup Commands
    /\ loStatus # NoStatus => loStatus.robot = loTarget \/ loStatus.pending # 0

LOInv == CommandsNumbered /\ StoreAgrees /\ FlowIsOwn /\ SuccessIsConfirmed

NextCommand == Cardinality(Created) + 1

LEMMA NewCommand ==
    ASSUME CommandsNumbered, NEW r \in Robots, StoreRequest(r)
    PROVE  NextCommand \in Commands /\ loEnd[NextCommand] = "none" /\ CommandsNumbered'
  <1>1. PICK n \in 0..MaxCommands : Created = 1..n
    BY DEF CommandsNumbered
  <1>2. Cardinality(Created) = n
    BY <1>1, FS_Interval
  <1>3. n < MaxCommands
    BY <1>1, CommandsAssumption DEF StoreRequest, Commands
  <1>4. NextCommand = n + 1 /\ NextCommand \in Commands /\ NextCommand \notin Created
    BY <1>1, <1>2, <1>3, CommandsAssumption DEF NextCommand, Commands
  <1>5. loEnd[NextCommand] = "none"
    BY <1>4 DEF Created
  <1>6. loEnd' = [loEnd EXCEPT ![NextCommand] = "pending"]
    BY DEF StoreRequest, NextCommand
  <1>7. Created' = Created \cup {NextCommand}
    BY <1>4, <1>6 DEF Created, CommandsNumbered
  <1>8. Created' = 1..(n + 1) /\ n + 1 \in 0..MaxCommands
    BY <1>1, <1>3, <1>4, <1>7, CommandsAssumption
  <1> QED BY <1>4, <1>5, <1>6, <1>8 DEF CommandsNumbered

LEMMA RequestKeeps ==
    ASSUME CommandsNumbered, StoreAgrees, NEW r \in Robots, StoreRequest(r)
    PROVE  StoreAgrees' /\ \A c \in Commands : loEnd[c] = "ok" => loEnd'[c] = "ok"
  <1>1. NextCommand \in Commands /\ loEnd[NextCommand] = "none" /\ DOMAIN loEnd = Commands
    BY NewCommand DEF CommandsNumbered
  <1>2. /\ loStore' = [loStore EXCEPT ![r].pending = NextCommand]
        /\ loEnd' = [loEnd EXCEPT ![NextCommand] = "pending"]
    BY DEF StoreRequest, NextCommand
  <1>3. NextCommand # 0 /\ 0 \notin Commands
    BY <1>1 DEF Commands
  <1>4. loStore' \in [Robots -> [pending: {0} \cup Commands, last: {0} \cup Commands, ok: BOOLEAN]]
    BY <1>1, <1>2 DEF StoreAgrees
  <1>5. \A s \in Robots : /\ loStore'[s].pending = IF s = r THEN NextCommand ELSE loStore[s].pending
                          /\ loStore'[s].last = loStore[s].last
                          /\ loStore'[s].ok = loStore[s].ok
    BY <1>2 DEF StoreAgrees
  <1>6. \A s \in Robots : loStore[s].pending # NextCommand /\ loStore[s].last # NextCommand
    BY <1>1, <1>3 DEF StoreAgrees
  <1>7. \A c \in Commands : loEnd'[c] = IF c = NextCommand THEN "pending" ELSE loEnd[c]
    BY <1>1, <1>2
  <1>8. \A s \in Robots : loStore[s].pending \in {0} \cup Commands
                          /\ loStore[s].last \in {0} \cup Commands
    BY DEF StoreAgrees
  <1>9. \A s \in Robots : loStore'[s].pending # 0 => loEnd'[loStore'[s].pending] = "pending"
    BY <1>1, <1>5, <1>7, <1>8 DEF StoreAgrees
  <1>10. \A s \in Robots : loStore'[s].last # 0 =>
           loEnd'[loStore'[s].last] = IF loStore'[s].ok THEN "ok" ELSE "failed"
    BY <1>5, <1>6, <1>7, <1>8 DEF StoreAgrees
  <1>11. \A s, t \in Robots :
           loStore'[s].pending # 0 /\ loStore'[s].pending = loStore'[t].pending => s = t
    BY <1>5, <1>6 DEF StoreAgrees
  <1>12. \A c \in Commands : loEnd[c] = "ok" => loEnd'[c] = "ok"
    BY <1>1, <1>7
  <1> QED BY <1>4, <1>9, <1>10, <1>11, <1>12 DEF StoreAgrees

LEMMA EndsKeeps ==
    ASSUME CommandsNumbered, StoreAgrees, NEW r \in Robots, NEW accepted \in BOOLEAN, LOEnds(r,
           accepted)
    PROVE  CommandsNumbered' /\ StoreAgrees' /\ \A c \in Commands : loEnd[c] = "ok" => loEnd'[c] = "ok"
  <1> DEFINE ended == loStore[r].pending
             result == IF accepted THEN "ok" ELSE "failed"
  <1>1. ended \in Commands /\ ended # 0 /\ loEnd[ended] = "pending" /\ DOMAIN loEnd = Commands
        /\ 0 \notin Commands
    BY DEF LOEnds, StoreAgrees, CommandsNumbered, Commands
  <1>2. loStore' = [loStore EXCEPT ![r] = [pending |-> 0, last |-> ended, ok |-> accepted]]
        /\ loEnd' = [loEnd EXCEPT ![ended] = result]
    BY DEF LOEnds
  <1>3. \A c \in Commands : loEnd'[c] = IF c = ended THEN result ELSE loEnd[c]
    BY <1>1, <1>2
  <1>4. CommandsNumbered'
    <2>1. DOMAIN loEnd' = Commands
      BY <1>1, <1>2
    <2>2. Created' = Created
      BY <1>1, <1>3 DEF Created
    <2> QED BY <2>1, <2>2 DEF CommandsNumbered
  <1>5. loStore' \in [Robots -> [pending: {0} \cup Commands, last: {0} \cup Commands, ok: BOOLEAN]]
    BY <1>1, <1>2 DEF StoreAgrees
  <1>6. \A s \in Robots : s # r => loStore'[s] = loStore[s] /\ loStore[s].pending # ended
    BY <1>1, <1>2 DEF StoreAgrees
  <1>7. loStore'[r].pending = 0 /\ loStore'[r].last = ended /\ loStore'[r].ok = accepted
    BY <1>2 DEF StoreAgrees
  <1>8. \A s \in Robots : loStore[s].pending \in {0} \cup Commands
                          /\ loStore[s].last \in {0} \cup Commands
                          /\ loStore[s].last # ended
    BY <1>1 DEF StoreAgrees
  <1> HIDE DEF ended
  <1>9. \A s \in Robots : loStore'[s].pending # 0 => loEnd'[loStore'[s].pending] = "pending"
    BY <1>3, <1>6, <1>7, <1>8 DEF StoreAgrees
  <1>10. \A s \in Robots : loStore'[s].last # 0 =>
           loEnd'[loStore'[s].last] = IF loStore'[s].ok THEN "ok" ELSE "failed"
    BY <1>1, <1>3, <1>6, <1>7, <1>8 DEF StoreAgrees
  <1>11. \A s, t \in Robots :
           loStore'[s].pending # 0 /\ loStore'[s].pending = loStore'[t].pending => s = t
    BY <1>6, <1>7 DEF StoreAgrees
  <1> QED BY <1>1, <1>3, <1>4, <1>5, <1>9, <1>10, <1>11 DEF StoreAgrees

\* What the backend does leaves the page as it was.
LEMMA PageKeeps ==
    ASSUME LOInv, UNCHANGED <<loTarget, loStatus, loFlow, loToast, loLeft>>,
           \A c \in Commands : loEnd[c] = "ok" => loEnd'[c] = "ok"
    PROVE  FlowIsOwn' /\ SuccessIsConfirmed'
  <1>1. FlowIsOwn'
    BY DEF LOInv, FlowIsOwn
  <1>2. SuccessIsConfirmed'
    BY DEF LOInv, SuccessIsConfirmed
  <1> QED BY <1>1, <1>2

LEMMA LOInitial == LOInit => LOInv
  <1> SUFFICES ASSUME LOInit PROVE LOInv
    OBVIOUS
  <1>1. CommandsNumbered
    <2>1. Created = 1..0 /\ 0 \in 0..MaxCommands /\ DOMAIN loEnd = Commands
      BY CommandsAssumption DEF LOInit, Created
    <2> QED BY <2>1 DEF CommandsNumbered
  <1>2. StoreAgrees
    BY DEF LOInit, StoreAgrees
  <1>3. FlowIsOwn /\ SuccessIsConfirmed
    BY PageAssumption DEF LOInit, FlowIsOwn, SuccessIsConfirmed, NoFlow, Flows, Nothing,
       Commands
  <1> QED BY <1>1, <1>2, <1>3 DEF LOInv

LEMMA LOStep == LOInv /\ [LONext]_loVars => LOInv'
  <1> SUFFICES ASSUME LOInv, [LONext]_loVars PROVE LOInv'
    OBVIOUS
  <1>1. ASSUME UNCHANGED <<loStore, loEnd>>
        PROVE  CommandsNumbered' /\ StoreAgrees'
    BY <1>1 DEF LOInv, CommandsNumbered, Created, StoreAgrees
  <1>2. ASSUME UNCHANGED <<loTarget, loStatus, loFlow, loToast, loLeft, loStore, loEnd>>
        PROVE  LOInv'
    BY <1>1, <1>2, PageKeeps DEF LOInv
  <1>3. ASSUME NEW r \in Robots, NEW ok \in BOOLEAN, LOEnds(r, ok)
        PROVE  LOInv'
    BY <1>3, EndsKeeps, PageKeeps DEF LOInv, LOEnds
  <1>4. ASSUME NEW r \in Robots, LOOther(r)
        PROVE  LOInv'
    BY <1>4, NewCommand, RequestKeeps, PageKeeps DEF LOInv, LOOther
  <1>5. ASSUME NEW r \in loLoads, LOLoaded(r) \/ LOLoadFails(r)
        PROVE  LOInv'
    BY <1>1, <1>5 DEF LOInv, LOLoaded, LOLoadFails, FlowIsOwn, SuccessIsConfirmed, StatusOf,
       Failure, Commands
  <1>6. ASSUME NEW r \in Robots, LOTarget(r)
        PROVE  LOInv'
    <2>1. /\ loTarget' = r /\ loStatus' = NoStatus /\ loToast' = Nothing
          /\ ~loLeft' => loFlow = NoFlow /\ ~loLeft
          /\ UNCHANGED <<loFlow, loStore, loEnd>>
      BY <1>6 DEF LOTarget
    <2>2. FlowIsOwn'
      BY <2>1 DEF LOInv, FlowIsOwn, NoFlow
    <2>3. SuccessIsConfirmed'
      BY <2>1 DEF SuccessIsConfirmed, Nothing, Commands
    <2> QED BY <1>1, <2>1, <2>2, <2>3 DEF LOInv
  <1>7. ASSUME NEW kind \in {"pose", "global"}, LOOrder(kind)
        PROVE  LOInv'
    BY <1>1, <1>7 DEF LOInv, LOOrder, FlowIsOwn, SuccessIsConfirmed, NoStatus, NoFlow, Flows,
       Nothing, Commands
  <1>8. CASE LOOrdered
    <2> DEFINE shown == [StatusOf(loFlow.robot) EXCEPT !.pending = NextCommand]
               flow  == [loFlow EXCEPT !.stage = "await", !.id = NextCommand]
    <2>1. /\ loFlow.stage = "order" /\ StoreRequest(loFlow.robot)
          /\ loStatus' = shown /\ loFlow' = flow
          /\ UNCHANGED <<loTarget, loToast, loLeft>>
      BY <1>8 DEF LOOrdered, NextCommand
    <2>2. loFlow \in Flows /\ loFlow # NoFlow /\ loFlow.robot \in Robots
      BY <2>1 DEF LOInv, FlowIsOwn, NoFlow
    <2>3. NextCommand \in Commands /\ CommandsNumbered' /\ StoreAgrees'
          /\ \A c \in Commands : loEnd[c] = "ok" => loEnd'[c] = "ok"
      BY <2>1, <2>2, NewCommand, RequestKeeps DEF LOInv
    <2>4. shown.robot = loFlow.robot /\ shown.pending = NextCommand /\ NextCommand # 0
      BY <2>3 DEF StatusOf, Commands
    <2>5. flow \in Flows /\ flow.stage = "await" /\ flow.id = NextCommand
          /\ flow.robot = loFlow.robot /\ flow # NoFlow
      BY <2>2, <2>3 DEF Flows, NoFlow
    <2> HIDE DEF shown, flow
    <2>6. FlowIsOwn'
      BY <2>1, <2>2, <2>3, <2>4, <2>5 DEF LOInv, FlowIsOwn
    <2>7. SuccessIsConfirmed'
      BY <2>1, <2>2, <2>3, <2>4 DEF LOInv, FlowIsOwn, SuccessIsConfirmed
    <2> QED BY <2>3, <2>6, <2>7 DEF LOInv
  <1>9. CASE LOGivesUp
    BY <1>1, <1>9 DEF LOInv, LOGivesUp, FlowIsOwn, SuccessIsConfirmed, NoFlow, Flows, Failure,
       Commands
  <1>10. CASE LOAwait
    <2>1. /\ loFlow.stage = "await" /\ loFlow \in Flows /\ loFlow # NoFlow
          /\ loFlow.robot \in Robots /\ loFlow.id \in Commands
          /\ UNCHANGED <<loTarget, loLeft, loStore, loEnd>>
      BY <1>10 DEF LOAwait, LOInv, FlowIsOwn
    <2>2. ASSUME Succeeds, loStatus' \in {loStatus, StatusOf(loTarget)},
                 ~loLeft => loEnd[loFlow.id] = "ok"
          PROVE  LOInv'
      <3> DEFINE flow == IF loFlow.kind = "pose" THEN [loFlow EXCEPT !.stage = "ready"] ELSE NoFlow
      <3>1. loToast' = loFlow.id /\ loFlow' = flow
        BY <2>2 DEF Succeeds
      <3>2. /\ flow \in Flows /\ flow.stage # "await"
            /\ flow # NoFlow \/ flow.stage = "ready" => flow.robot = loFlow.robot /\ flow.id = loFlow.id
                                                      /\ flow # NoFlow
        BY <2>1 DEF Flows, NoFlow
      <3> HIDE DEF flow
      <3>3. StatusOf(loTarget).robot = loTarget
        BY DEF StatusOf
      <3>4. FlowIsOwn'
        BY <2>1, <2>2, <3>1, <3>2, <3>3 DEF LOInv, FlowIsOwn
      <3>5. SuccessIsConfirmed'
        BY <2>1, <2>2, <3>1, <3>3 DEF LOInv, SuccessIsConfirmed
      <3> QED BY <1>1, <2>1, <3>4, <3>5 DEF LOInv
    <2>3. CASE loFlow.robot # loTarget
      BY <1>10, <2>1, <2>2, <2>3 DEF LOAwait, LOInv, FlowIsOwn
    <2>4. CASE loFlow.robot = loTarget /\ ~(loStore[loTarget].pending = 0 /\ loStore[loTarget].last = loFlow.id)
      <3>1. loStatus' = StatusOf(loTarget) /\ UNCHANGED <<loToast, loFlow>>
        BY <1>10, <2>4 DEF LOAwait, Acknowledged, StatusOf
      <3>2. StatusOf(loTarget).robot = loTarget
        BY DEF StatusOf
      <3> QED BY <1>1, <2>1, <3>1, <3>2 DEF LOInv, FlowIsOwn, SuccessIsConfirmed
    <2>5. CASE loFlow.robot = loTarget /\ loStore[loTarget].pending = 0
               /\ loStore[loTarget].last = loFlow.id
      <3>1. loStatus' = StatusOf(loTarget) /\ StatusOf(loTarget).robot = loTarget
            /\ IF loStore[loTarget].ok THEN Succeeds ELSE loToast' = Failure /\ loFlow' = NoFlow
        BY <1>10, <2>5 DEF LOAwait, Acknowledged, StatusOf
      <3>2. loStore[loTarget].ok => loEnd[loFlow.id] = "ok"
        BY <2>1, <2>5 DEF LOInv, StoreAgrees, FlowIsOwn, Commands
      <3>3. CASE loStore[loTarget].ok
        BY <2>2, <3>1, <3>2, <3>3
      <3>4. CASE ~loStore[loTarget].ok
        BY <1>1, <2>1, <3>1, <3>4 DEF LOInv, FlowIsOwn, SuccessIsConfirmed, NoFlow, Flows,
           Failure, Commands
      <3> QED BY <3>3, <3>4
    <2> QED BY <2>3, <2>4, <2>5
  <1>11. CASE LOReady
    BY <1>1, <1>11 DEF LOInv, LOReady, FlowIsOwn, SuccessIsConfirmed, NoFlow, Flows, StatusOf,
       Commands
  <1>12. CASE LOLoad \/ UNCHANGED loVars
    BY <1>2, <1>12 DEF LOLoad, loVars
  <1> QED
    BY <1>3, <1>4, <1>5, <1>6, <1>7, <1>8, <1>9, <1>10, <1>11, <1>12 DEF LONext

\* A localization command is called done only when the robot confirmed that very
\* command, whatever others order meanwhile (LocalizationWorkspace.tsx 39-133).
THEOREM SuccessIsConfirmedHolds == PagesSpec => []SuccessIsConfirmed
  <1>1. PagesInit => LOInv
    BY LOInitial DEF PagesInit
  <1>2. LOInv /\ [PagesNext]_pagesVars => LOInv'
    BY PagesStep, LOStep
  <1>3. LOInv => SuccessIsConfirmed
    BY DEF LOInv
  <1> QED BY <1>1, <1>2, <1>3, PTL DEF PagesSpec

-----------------------------------------------------------------------------
\* Driving by hand while mapping and while the robot searches its pose.
\* A number belongs to one press: the requests out that carry the present one
\* are for the robot the callbacks drive now.
DMInv ==
    /\ dmGeneration \in Nat
    /\ DOMAIN dmLast = Robots
    /\ dmDriving => dmClosed.active
    /\ \A request \in dmOut :
         /\ request.gen \in Nat /\ request.gen <= dmGeneration
         /\ dmDriving /\ request.gen = dmGeneration => request = OwnHold
    /\ AssistedMotionEndsWithStop

LEMMA DMInitial == DMInit => DMInv
  <1> SUFFICES ASSUME DMInit PROVE DMInv
    OBVIOUS
  <1>1. /\ ~dmDriving /\ dmGeneration = 0 /\ dmTimer = NoHold /\ dmOut = {}
        /\ dmLast = [r \in Robots |-> "stop"]
    BY Zenon DEF DMInit
  <1> QED BY <1>1 DEF DMInv, AssistedMotionEndsWithStop

LEMMA StopKeeps ==
    ASSUME DMInv, StopDrive, dmOut' \subseteq dmOut
    PROVE  DMInv'
  <1>1. dmGeneration' = dmGeneration + 1 /\ dmTimer' = NoHold /\ dmDriving' = FALSE
        /\ dmLast' = IF dmClosed.active THEN [dmLast EXCEPT ![dmClosed.robot] = "stop"] ELSE dmLast
    BY DEF StopDrive, ClearDriveTimers, Issue
  <1>2. \A r \in Robots : dmLast'[r] # "drive"
    BY <1>1 DEF DMInv, AssistedMotionEndsWithStop
  <1> QED BY <1>1, <1>2 DEF DMInv, AssistedMotionEndsWithStop

LEMMA RDKeeps ==
    ASSUME DMInv,
           [RDStep \/ DMPress]_dmVars \/ (StopDrive /\ UNCHANGED <<dmProps, dmClosed, dmOut>>)
    PROVE  DMInv'
  <1> USE DEF DMInv, dmProps
  <1>1. CASE UNCHANGED dmVars
    BY <1>1 DEF dmVars, AssistedMotionEndsWithStop, OwnHold
  <1>2. CASE DMPress
    <2> DEFINE new == [robot |-> dmClosed.robot, gen |-> dmGeneration + 1]
    <2>1. /\ dmGeneration' = dmGeneration + 1 /\ dmTimer' = NoHold /\ dmDriving' = TRUE
          /\ dmOut' = dmOut \cup {new} /\ dmLast' = [dmLast EXCEPT ![dmClosed.robot] = "drive"]
          /\ dmClosed' = dmClosed /\ dmClosed.active
      BY <1>2 DEF DMPress, ClearDriveTimers, Issue
    <2>2. new = OwnHold' /\ new.gen = dmGeneration + 1
      BY <2>1 DEF OwnHold
    <2> HIDE DEF new
    <2> QED BY <2>1, <2>2 DEF AssistedMotionEndsWithStop
  <1>3. CASE DMRelease
    BY <1>3 DEF DMRelease, AssistedMotionEndsWithStop
  <1>4. CASE DMStopTimer
    BY <1>4 DEF DMStopTimer, Issue, AssistedMotionEndsWithStop, OwnHold
  <1>5. CASE DMStop
    BY <1>5, StopKeeps DEF DMStop
  <1>6. CASE DMRepeat
    <2>1. dmDriving /\ dmTimer = OwnHold /\ dmClosed.active
      BY <1>6 DEF DMRepeat, AssistedMotionEndsWithStop
    <2>2. OwnHold.gen = dmGeneration /\ OwnHold.robot = dmClosed.robot
      BY DEF OwnHold
    <2>3. /\ dmTimer' = NoHold /\ dmOut' = dmOut \cup {OwnHold}
          /\ dmLast' = [dmLast EXCEPT ![dmClosed.robot] = "drive"]
          /\ UNCHANGED <<dmClosed, dmDriving, dmGeneration, dmStopTimer>>
      BY <1>6, <2>1, <2>2 DEF DMRepeat, Issue
    <2>5. OwnHold' = OwnHold
      BY <2>3 DEF OwnHold
    <2>4. \A r \in Robots : dmLast'[r] = "drive" => dmLast[r] = "drive" \/ r = dmClosed.robot
      BY <2>3
    <2> QED BY <2>1, <2>2, <2>3, <2>4, <2>5 DEF AssistedMotionEndsWithStop
  <1>7. CASE DMCommit \/ DMLeave
    BY <1>7, StopKeeps DEF DMCommit, DMLeave
  <1>8. ASSUME NEW request \in dmOut, DMAnswered(request)
        PROVE  DMInv'
    BY <1>8 DEF DMAnswered, Repeats, AssistedMotionEndsWithStop, OwnHold
  <1>9. ASSUME NEW request \in dmOut, DMFailed(request)
        PROVE  DMInv'
    <2>1. CASE request.gen = dmGeneration
      BY <1>9, <2>1, StopKeeps DEF DMFailed
    <2>2. CASE request.gen # dmGeneration
      BY <1>9, <2>2 DEF DMFailed, AssistedMotionEndsWithStop, OwnHold
    <2> QED BY <2>1, <2>2
  <1>10. ASSUME NEW robot \in Robots, NEW active \in BOOLEAN, DMRender(robot, active)
         PROVE  DMInv'
    BY <1>10 DEF DMRender, AssistedMotionEndsWithStop, OwnHold
  <1>11. CASE StopDrive /\ UNCHANGED <<dmProps, dmClosed, dmOut>>
    BY <1>11, StopKeeps
  <1> QED
    BY <1>1, <1>2, <1>3, <1>4, <1>5, <1>6, <1>7, <1>8, <1>9, <1>10, <1>11 DEF RDStep

\* Both pages that drive by hand leave no robot driving: the last thing it was
\* told is to stop, or it is held or its stop is armed (maps/page.tsx 337-381,
\* LocalizationWorkspace.tsx).
THEOREM AssistedMotionEndsHolds == PagesSpec => []AssistedMotionEndsWithStop
  <1>1. PagesInit => DMInv
    BY DMInitial DEF PagesInit, RDInit
  <1>2. DMInv /\ [PagesNext]_pagesVars => DMInv'
    BY PagesStep, RDKeeps
  <1>3. DMInv => AssistedMotionEndsWithStop
    BY DEF DMInv
  <1> QED BY <1>1, <1>2, <1>3, PTL DEF PagesSpec

\* The manual page among the others is the manual page alone: the dashboard's
\* steps are its own, or leave it as it is (manual/page.tsx).
THEOREM ManualDriveImplemented == PagesSpec => MDSpec
  <1>1. PagesInit => MDInit
    BY DEF PagesInit
  <1>2. [PagesNext]_pagesVars => [MDNext]_mdVars
    <2> SUFFICES ASSUME [PagesNext]_pagesVars PROVE [MDNext]_mdVars
      OBVIOUS
    <2> USE DEF pagesVars, driveVars
    <2>1. CASE UNCHANGED pagesVars
      BY <2>1
    <2>2. CASE DriveNext
      BY <2>2 DEF DriveNext
    <2>3. CASE UNCHANGED driveVars
      BY <2>3
    <2> QED BY <2>1, <2>2, <2>3 DEF PagesNext
  <1> QED BY <1>1, <1>2, PTL DEF PagesSpec, MDSpec

\* So the dashboard leaves no robot driving either by the manual page.
THEOREM MotionEndsOnPages == PagesSpec => []MotionEndsWithStop
  BY ManualDriveImplemented, MotionEndsWithStopHolds, PTL
=============================================================================
