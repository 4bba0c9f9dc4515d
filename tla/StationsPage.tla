----------------------------- MODULE StationsPage -----------------------------
(***************************************************************************)
(* The stations page (src/src/app/stations/page.tsx): the selected robot's *)
(* map catalogue, the stations of the map chosen from it, a form for one   *)
(* station, and the three operations (activate, save, remove) that reload  *)
(* with the callbacks they closed over when they were ordered.             *)
(***************************************************************************)
EXTENDS Integers, FiniteSets, PageConstants

CONSTANTS MaxLoads          \* bounds the requests

VARIABLES
    spSelected,            \* selectedRobotId
    spCat, spSta, spNext,  \* the requests that count, and the number of the next
    spLoads,               \* catalogue and station requests out
    spCatalog, spMap,      \* catalog, selectedMapId
    spStations,            \* mapStations: the map they were read for
    spForm, spRemove,      \* the maps of the draft station and of pendingRemove
    spJobs,                \* operations out; the flags activating and busy
    spActive,              \* the robots' active maps
    spOld,                 \* an operation of another robot reloaded the page
                           \* (or one that was ordered from such a page)
    spCarried              \* a reload chose another map under the open form

spVars == <<spSelected, spCat, spSta, spNext, spLoads, spCatalog, spMap, spStations,
            spForm, spRemove, spJobs, spActive, spOld, spCarried>>

Nowhere == [robot |-> NoMap, map |-> NoMap]
Place(r, m) == [robot |-> r, map |-> m]

CatalogLoad(id, r) == [kind |-> "catalog", id |-> id, of |-> Place(r, NoMap), again |-> FALSE]
StationLoad(id, place) == [kind |-> "stations", id |-> id, of |-> place, again |-> FALSE]

\* loadStations(): another number, and a request when there is a map.
LoadStations(place, others) ==
    /\ spNext < MaxLoads /\ spNext' = spNext + 1 /\ spSta' = spNext
    /\ spLoads' = others \cup (IF place = Nowhere THEN {} ELSE {StationLoad(spNext, place)})

\* Seeded fault: what was asked for the robot before still counts.
SPSelect_KeepsRequests(r) ==
    /\ r # spSelected /\ spNext + 1 < MaxLoads /\ spSelected' = r
    /\ spLoads' = spLoads \cup {CatalogLoad(spCat, r)}
    /\ spCatalog' = Nowhere /\ spMap' = Nowhere /\ spStations' = Nowhere
    /\ spForm' = Nowhere /\ spRemove' = Nowhere /\ spOld' = FALSE /\ spCarried' = FALSE
    /\ UNCHANGED <<spCat, spSta, spNext, spJobs, spActive>>

\* Another robot: everything shown is forgotten and every request disowned.
SPSelect(r) ==
    /\ r # spSelected /\ spNext + 1 < MaxLoads /\ spSelected' = r
    /\ spCat' = spNext /\ spSta' = spNext + 1 /\ spNext' = spNext + 2
    /\ spLoads' = spLoads \cup {CatalogLoad(spNext, r)}
    /\ spCatalog' = Nowhere /\ spMap' = Nowhere /\ spStations' = Nowhere
    /\ spForm' = Nowhere /\ spRemove' = Nowhere /\ spOld' = FALSE /\ spCarried' = FALSE
    /\ UNCHANGED <<spJobs, spActive>>

\* The catalogue arrives: the chosen map stays if it is listed, but a second
\* attempt always goes to the active one; another map brings its stations.
SPCatalog(load) ==
    LET active == Place(load.of.robot, spActive[load.of.robot])
        map == IF spMap.robot = load.of.robot /\ ~load.again THEN spMap ELSE active
    IN  /\ load.kind = "catalog" /\ load.id = spCat
        /\ spCatalog' = active /\ spMap' = map
        /\ spCarried' = (spForm # Nowhere /\ (spCarried \/ map # spMap))
        /\ IF map # spMap THEN LoadStations(map, spLoads \ {load})
           ELSE spLoads' = spLoads \ {load} /\ UNCHANGED <<spSta, spNext>>
        /\ UNCHANGED <<spSelected, spCat, spStations, spForm, spRemove, spJobs,
                       spActive, spOld>>

SPStations(load) ==
    /\ load.kind = "stations" /\ load.id = spSta
    /\ spLoads' = spLoads \ {load} /\ spStations' = load.of
    /\ UNCHANGED <<spSelected, spCat, spSta, spNext, spCatalog, spMap, spForm, spRemove,
                   spJobs, spActive, spOld, spCarried>>

\* It fails, or is disowned by now: a catalogue that counts is tried once more.
SPDropped(load) ==
    /\ spLoads' = (spLoads \ {load}) \cup
         (IF load.kind = "catalog" /\ load.id = spCat /\ ~load.again
          THEN {[load EXCEPT !.again = TRUE]} ELSE {})
    /\ UNCHANGED <<spSelected, spCat, spSta, spNext, spCatalog, spMap, spStations, spForm,
                   spRemove, spJobs, spActive, spOld, spCarried>>

\* selectMap() forgets the form and the question.
SPChoose(m) ==
    /\ spCatalog # Nowhere /\ Place(spCatalog.robot, m) # spMap
    /\ spMap' = Place(spCatalog.robot, m) /\ LoadStations(spMap', spLoads)
    /\ spForm' = Nowhere /\ spRemove' = Nowhere /\ spCarried' = FALSE
    /\ UNCHANGED <<spSelected, spCat, spCatalog, spStations, spJobs, spActive, spOld>>

\* choosePose() on the active map, and beginEdit().
SPDraft ==
    /\ spMap # Nowhere /\ spMap = spCatalog /\ spForm' = spMap /\ spRemove' = Nowhere
    /\ spCarried' = FALSE
    /\ UNCHANGED <<spSelected, spCat, spSta, spNext, spLoads, spCatalog, spMap, spStations,
                   spJobs, spActive, spOld>>

SPAsk ==
    /\ spStations # Nowhere /\ spRemove' = spStations
    /\ UNCHANGED <<spSelected, spCat, spSta, spNext, spLoads, spCatalog, spMap, spStations,
                   spForm, spJobs, spActive, spOld, spCarried>>

InFlight(kinds) == \E job \in spJobs : job.kind \in kinds
Job(kind, place) ==
    [kind |-> kind, robot |-> spSelected, map |-> spMap, at |-> place, old |-> spOld]

SPOrder(kind) ==
    /\ CASE kind = "activate" -> ~InFlight({"activate"}) /\ spMap # Nowhere /\ spMap # spCatalog
         [] kind = "save" -> ~InFlight({"save", "remove"}) /\ spForm # Nowhere /\ spMap = spCatalog
         [] kind = "remove" -> ~InFlight({"save", "remove"}) /\ spRemove # Nowhere
    /\ spJobs' = spJobs \cup {Job(kind, CASE kind = "activate" -> spMap
                                          [] kind = "save" -> spForm
                                          [] kind = "remove" -> spRemove)}
    /\ UNCHANGED <<spSelected, spCat, spSta, spNext, spLoads, spCatalog, spMap, spStations,
                   spForm, spRemove, spActive, spOld, spCarried>>

SPFails(job) ==
    /\ spJobs' = spJobs \ {job}
    /\ spRemove' = IF job.kind = "remove" THEN Nowhere ELSE spRemove
    /\ UNCHANGED <<spSelected, spCat, spSta, spNext, spLoads, spCatalog, spMap, spStations,
                   spForm, spActive, spOld, spCarried>>

\* The reloads that follow a success are those of the page that ordered it.
SPDone(job) ==
    /\ spJobs' = spJobs \ {job} /\ spOld' = (spOld \/ job.old \/ job.robot # spSelected)
    /\ IF job.kind = "activate"
       THEN /\ spCat' = spNext + 1 /\ spSta' = spNext /\ spNext' = spNext + 2
            /\ spNext + 1 < MaxLoads
            /\ spLoads' = spLoads \cup {CatalogLoad(spNext + 1, job.robot),
                                        StationLoad(spNext, job.map)}
            /\ spActive' = [spActive EXCEPT ![job.map.robot] = job.map.map]
            /\ UNCHANGED <<spForm, spRemove, spCarried>>
       ELSE /\ LoadStations(job.map, spLoads)
            /\ IF job.kind = "save"
               THEN spForm' = Nowhere /\ spCarried' = FALSE /\ UNCHANGED spRemove
               ELSE /\ spRemove' = Nowhere       \* and the form, if it edits the station
                    /\ spForm' \in {spForm, Nowhere}
                    /\ spCarried' = (spCarried /\ spForm' # Nowhere)
            /\ UNCHANGED <<spCat, spActive>>
    /\ UNCHANGED <<spSelected, spCatalog, spMap, spStations>>

SPInit ==
    /\ spSelected = (CHOOSE r \in Robots : TRUE)
    /\ spCat = 1 /\ spSta = 2 /\ spNext = 3 /\ spLoads = {CatalogLoad(1, spSelected)}
    /\ spCatalog = Nowhere /\ spMap = Nowhere /\ spStations = Nowhere
    /\ spForm = Nowhere /\ spRemove = Nowhere /\ spJobs = {}
    /\ spActive = [r \in Robots |-> CHOOSE m \in Maps : TRUE]
    /\ spOld = FALSE /\ spCarried = FALSE

SPNext ==
    \/ SPDraft \/ SPAsk
    \/ \E r \in Robots : SPSelect(r)
    \/ \E load \in spLoads : SPCatalog(load) \/ SPStations(load) \/ SPDropped(load)
    \/ \E m \in Maps : SPChoose(m)
    \/ \E kind \in {"activate", "save", "remove"} : SPOrder(kind)
    \/ \E job \in spJobs : SPFails(job) \/ SPDone(job)

-----------------------------------------------------------------------------
\* The page is about one robot and one map: the catalogue, the stations and
\* the question are the selected robot's, and a station goes to the map it was
\* drawn on, although requests overtake one another.  Only an operation that
\* was ordered for another robot can break it (it reloads with its own old
\* callbacks, and what is ordered from what it shows does so again), or a
\* second attempt that changes the map under the form (lines 41-92, 118-174).
StationsOfOneRobot ==
    /\ ~spOld =>
         /\ {spCatalog.robot, spStations.robot, spRemove.robot} \subseteq {spSelected, NoMap}
         /\ spForm # Nowhere /\ ~spCarried => spForm = spMap
    /\ \A job \in spJobs : job.kind = "activate" /\ ~job.old => job.at.robot = job.robot
=============================================================================
