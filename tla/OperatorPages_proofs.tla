------------------------- MODULE OperatorPages_proofs -------------------------
(***************************************************************************)
(* What the pages that act on an operator's word promise, for every fleet,   *)
(* number of users, missions and requests.                                   *)
(*                                                                           *)
(* The invariants say what a request still out may assume: it was asked      *)
(* for at the stage, with the filter or for the task shown then              *)
(* (EventOfItsStage, AsksFit, WantedIsOpen), the session it carries is the   *)
(* shown user's (CookieIsOwned), and only one load keeps the registry busy   *)
(* (OneLastLoad).                                                            *)
(***************************************************************************)
EXTENDS Pages, TLAPS

\* What a step of the dashboard is to each page: a step of its own or none.
LEMMA PagesStep ==
    ASSUME [PagesNext]_pagesVars
    PROVE  /\ [OANext]_oaVars
           /\ [RPNext]_rpVars
           /\ [ABNext]_abVars
           /\ [NPNext]_npVars
           /\ [TKNext]_tkVars
  <1> USE DEF pagesVars, driveVars, mapVars, viewVars, taskVars
  <1>1. CASE UNCHANGED pagesVars
    BY <1>1
  <1>2. CASE DriveNext /\ UNCHANGED <<mapVars, viewVars, taskVars>>
    BY <1>2
  <1>3. CASE MapNext /\ UNCHANGED <<driveVars, viewVars, taskVars>>
    BY <1>3 DEF MapNext
  <1>4. CASE ViewNext /\ UNCHANGED <<driveVars, mapVars, taskVars>>
    BY <1>4 DEF ViewNext
  <1>5. CASE TaskNext /\ UNCHANGED <<driveVars, mapVars, viewVars>>
    BY <1>5 DEF TaskNext
  <1> QED BY <1>1, <1>2, <1>3, <1>4, <1>5 DEF PagesNext

-----------------------------------------------------------------------------
\* The operator's buttons on a mission.
MissionStages == {"pickup", "loading", "delivery", "unloading", "failed", "recovered", "done"}
Missions == [id: Int, attempt: Int, stage: MissionStages]
Views == [robot: Robots \cup {NoRobot}, id: Int, attempt: Int, stage: MissionStages \cup {"none"}]
Requests == [kind: {"event", "cancel", "recover"},
             event: {"CONFIRM_LOADED", "CONFIRM_RECEIVED", "none"},
             control: {"workflow", "stopping"}, mounted: BOOLEAN, shown: BOOLEAN, seen: Views]

OATypeOK ==
    /\ oaTask \in [Robots -> Missions]
    /\ oaSelected \in Robots
    /\ oaView \in Views
    /\ oaWaiting \subseteq Requests

\* An event is asked for at its stage only.
EventOfItsStage ==
    \A request \in oaWaiting : request.kind = "event" =>
        request.seen.stage \in DOMAIN EventOf /\ request.event = EventOf[request.seen.stage]

OAInv == OATypeOK /\ EventOfItsStage

Acts ==
    \A request \in oaWaiting \ oaWaiting', r \in Robots :
          oaTask'[r] # oaTask[r] /\ request.shown =>
            /\ request.seen.robot = r
            /\ request.kind # "recover" => request.seen.id = oaTask[r].id
            /\ request.kind = "event" => request.seen.stage = oaTask[r].stage

LEMMA OAInitial == OAInit => OAInv
  BY PageAssumption DEF OAInit, OAInv, OATypeOK, EventOfItsStage, NoView, Views, Missions,
     MissionStages

LEMMA UnmountKeeps ==
    ASSUME OAInv, NEW controls, Unmount(controls)
    PROVE  oaWaiting' \subseteq Requests /\ EventOfItsStage'
  <1>1. ASSUME NEW request \in Requests
        PROVE  LET left == [request EXCEPT !.mounted = FALSE]
               IN  left \in Requests /\ left.kind = request.kind
                   /\ left.event = request.event /\ left.seen = request.seen
    BY DEF Requests
  <1>2. \A new \in oaWaiting' : \E request \in oaWaiting :
           new \in Requests /\ new.kind = request.kind /\ new.event = request.event
           /\ new.seen = request.seen
    <2> SUFFICES ASSUME NEW new \in oaWaiting'
                 PROVE  \E request \in oaWaiting :
                          new \in Requests /\ new.kind = request.kind
                          /\ new.event = request.event /\ new.seen = request.seen
      OBVIOUS
    <2>1. PICK request \in oaWaiting : new \in {request, [request EXCEPT !.mounted = FALSE]}
      BY DEF Unmount
    <2>2. request \in Requests
      BY DEF OAInv, OATypeOK
    <2> QED BY <1>1, <2>1, <2>2
  <1> QED BY <1>2 DEF OAInv, EventOfItsStage

LEMMA AsksKeeps ==
    ASSUME OAInv, NEW shown \in BOOLEAN,
           NEW kind \in {"event", "cancel", "recover"},
           NEW event \in {"CONFIRM_LOADED", "CONFIRM_RECEIVED", "none"},
           NEW control \in {"workflow", "stopping"},
           kind = "event" => oaView.stage \in DOMAIN EventOf /\ event = EventOf[oaView.stage],
           Asks(kind, event, control, shown)
    PROVE  OAInv'
  <1> DEFINE new == [kind |-> kind, event |-> event, control |-> control,
                     mounted |-> TRUE, shown |-> shown, seen |-> oaView]
  <1>1. new \in Requests
    BY DEF Requests, OAInv, OATypeOK
  <1>2. oaWaiting' = oaWaiting \cup {new} /\ UNCHANGED <<oaTask, oaSelected, oaView>>
    BY DEF Asks
  <1>3. new.kind = "event" =>
           new.seen.stage \in DOMAIN EventOf /\ new.event = EventOf[new.seen.stage]
    OBVIOUS
  <1> HIDE DEF new
  <1> QED BY <1>1, <1>2, <1>3 DEF OAInv, OATypeOK, EventOfItsStage

LEMMA AdvancesKeeps ==
    ASSUME OAInv, NEW shown \in BOOLEAN, Advances(shown)
    PROVE  OAInv'
  <1>1. EventOf[oaView.stage] \in {"CONFIRM_LOADED", "CONFIRM_RECEIVED", "none"}
    BY DEF Advances, EventOf
  <1> QED BY <1>1, AsksKeeps DEF Advances

LEMMA SuccessorsAreMissions ==
    ASSUME NEW task \in Missions, NEW next \in Successors(task)
    PROVE  next \in Missions
  <1> DEFINE to(stage) == [task EXCEPT !.stage = stage]
  <1>1. \A stage \in MissionStages : to(stage) \in Missions
    BY DEF Missions
  <1>2. [to("pickup") EXCEPT !.attempt = to("pickup").attempt + 1] \in Missions
    <2>1. to("pickup") \in Missions
      BY <1>1 DEF MissionStages
    <2> HIDE DEF to
    <2> QED BY <2>1 DEF Missions
  <1>3. [id |-> task.id + 1, attempt |-> 1, stage |-> "pickup"] \in Missions
    BY DEF Missions, MissionStages
  <1>4. \/ \E stage \in MissionStages : next = to(stage)
        \/ next = [to("pickup") EXCEPT !.attempt = to("pickup").attempt + 1]
        \/ next = [id |-> task.id + 1, attempt |-> 1, stage |-> "pickup"]
    <2>1. task.stage \in MissionStages
      BY DEF Missions
    <2> QED BY <2>1 DEF Successors, MissionStages
  <1> HIDE DEF to
  <1> QED BY <1>1, <1>2, <1>3, <1>4

\* A request that is answered.
LEMMA DeliveredKeeps ==
    ASSUME OAInv, NEW request \in oaWaiting, OADelivered(request)
    PROVE  OAInv'
  <1> DEFINE robot == request.seen.robot
             stage == CASE request.kind = "event"   -> Transition(oaTask[robot], request)
                        [] request.kind = "cancel"  -> Cancelled(oaTask[robot], request)
                        [] request.kind = "recover" -> Recovered(oaTask[robot])
  <1>1. oaTask' = [oaTask EXCEPT ![robot].stage = stage]
    BY DEF OADelivered
  <1>2. robot \in Robots => stage \in MissionStages
    BY DEF OAInv, OATypeOK, Requests, MissionStages, Missions, Transition, Cancelled,
       Recovered, EventOf,
           AfterEvent
  <1> HIDE DEF robot, stage
  <1>3. oaTask' \in [Robots -> Missions]
    BY <1>1, <1>2 DEF OAInv, OATypeOK, Missions
  <1> QED BY <1>3 DEF OADelivered, OAInv, OATypeOK, EventOfItsStage

LEMMA OAStep == OAInv /\ [OANext]_oaVars => OAInv'
  <1> SUFFICES ASSUME OAInv, [OANext]_oaVars PROVE OAInv'
    OBVIOUS
  <1>1. CASE UNCHANGED oaVars
    BY <1>1 DEF oaVars, OAInv, OATypeOK, EventOfItsStage
  <1>2. CASE OARefresh
    <2>1. Unmount(IF oaPage = "home" /\ oaTask[oaSelected].stage \notin ActiveStages
                  THEN {"workflow"} ELSE {})
      BY <1>2 DEF OARefresh
    <2>2. oaView' \in Views /\ UNCHANGED <<oaTask, oaSelected>>
      BY <1>2 DEF OARefresh, OAInv, OATypeOK, Views, Missions
    <2> QED BY <2>1, <2>2, UnmountKeeps DEF OAInv, OATypeOK
  <1>3. CASE OAConfirm \/ OAHandover
    BY <1>3, AdvancesKeeps DEF OAConfirm, OAHandover
  <1>4. CASE OARecover \/ OAStop
    BY <1>4, AsksKeeps DEF OARecover, OAStop
  <1>5. ASSUME NEW to \in {"home", "tasks"}, OANavigate(to)
        PROVE  OAInv'
    BY <1>5, UnmountKeeps DEF OANavigate, OAInv, OATypeOK
  <1>6. ASSUME NEW r \in Robots, OAMission(r)
        PROVE  OAInv'
    BY <1>6, SuccessorsAreMissions DEF OAMission, OAInv, OATypeOK, EventOfItsStage, Missions
  <1>7. ASSUME NEW r \in Robots, OASelect(r)
        PROVE  OAInv'
    BY <1>7 DEF OASelect, OAInv, OATypeOK, EventOfItsStage
  <1> QED BY <1>1, <1>2, <1>3, <1>4, <1>5, <1>6, <1>7, DeliveredKeeps DEF OANext

LEMMA TransitionIsAsked ==
    ASSUME NEW task \in Missions, NEW request \in Requests,
           request.seen.stage \in DOMAIN EventOf, request.event = EventOf[request.seen.stage],
           Transition(task, request) # task.stage
    PROVE  request.seen.id = task.id /\ request.seen.stage = task.stage
  BY DEF Transition, EventOf

LEMMA OAStepActs == OAInv /\ [OANext]_oaVars => Acts
  <1> SUFFICES ASSUME OAInv, [OANext]_oaVars PROVE Acts
    OBVIOUS
  <1>1. ASSUME UNCHANGED oaTask
        PROVE  Acts
    BY <1>1 DEF Acts
  <1>2. ASSUME NEW r \in Robots, OAMission(r)
        PROVE  Acts
    BY <1>2 DEF OAMission, Acts
  <1>3. ASSUME NEW asked \in oaWaiting, OADelivered(asked)
        PROVE  Acts
    <2> SUFFICES ASSUME NEW r \in Robots, oaTask'[r] # oaTask[r]
                 PROVE  /\ asked.seen.robot = r
                        /\ asked.kind # "recover" => asked.seen.id = oaTask[r].id
                        /\ asked.kind = "event" => asked.seen.stage = oaTask[r].stage
      BY <1>3 DEF OADelivered, Acts
    <2> DEFINE robot == asked.seen.robot
               stage == CASE asked.kind = "event"   -> Transition(oaTask[robot], asked)
                          [] asked.kind = "cancel"  -> Cancelled(oaTask[robot], asked)
                          [] asked.kind = "recover" -> Recovered(oaTask[robot])
    <2>1. oaTask' = [oaTask EXCEPT ![robot].stage = stage]
      BY <1>3 DEF OADelivered
    <2> HIDE DEF stage
    <2>2. robot = r
      BY <2>1 DEF OAInv, OATypeOK
    <2>3. stage # oaTask[r].stage
      BY <2>1, <2>2 DEF OAInv, OATypeOK, Missions
    <2> USE DEF stage
    <2>4. asked.kind # "recover" => asked.seen.id = oaTask[r].id
      BY <2>2, <2>3 DEF Transition, Cancelled, OAInv, OATypeOK, Requests
    <2>5. asked.kind = "event" => asked.seen.stage = oaTask[r].stage
      BY <2>2, <2>3, TransitionIsAsked DEF OAInv, OATypeOK, EventOfItsStage
    <2> QED BY <2>2, <2>4, <2>5
  <1> QED
    BY <1>1, <1>2, <1>3 DEF OANext, oaVars, OARefresh, OAConfirm, OAHandover, Advances, Asks,
       OARecover, OAStop, OANavigate, OASelect

\* A mission moves, ends or is freed on an operator's word only as that operator
\* saw it, however late the request is delivered (WorkflowControls.tsx 25-48).
THEOREM ActsAsConfirmedHolds == PagesSpec => ActsAsConfirmed
  <1>1. PagesInit => OAInv
    BY OAInitial DEF PagesInit
  <1>2. OAInv /\ [PagesNext]_pagesVars => OAInv'
    BY PagesStep, OAStep
  <1>3. OAInv /\ [PagesNext]_pagesVars => Acts
    BY PagesStep, OAStepActs
  <1> QED BY <1>1, <1>2, <1>3, PTL DEF PagesSpec, ActsAsConfirmed, Acts

-----------------------------------------------------------------------------
\* The robot registry.
\* A load that an operation waits for keeps the page busy, and there is only one.
RPTypeOK ==
    /\ rpBusy \in BOOLEAN /\ rpArchived \in BOOLEAN
    /\ rpDialog = [kind |-> rpDialog.kind, robot |-> rpDialog.robot]
    /\ rpLoads \subseteq [archived: BOOLEAN, last: BOOLEAN]

OneLastLoad ==
    \A load \in rpLoads : load.last =>
        /\ rpBusy /\ rpOut = NoOperation
        /\ \A other \in rpLoads : other.last => other = load

CodeOfDialog ==
    /\ rpOut # NoOperation => rpBusy /\ rpDialog # NoOperation
    /\ rpDialog.kind = "approve" => rpCode \in {NoRobot, rpDialog.robot}

RPInv == RPTypeOK /\ OneLastLoad /\ CodeOfDialog /\ OperatesAsConfirmed

LEMMA RPInitial == RPInit => RPInv
  <1> SUFFICES ASSUME RPInit PROVE RPInv
    OBVIOUS
  <1>1. RPTypeOK
    <2>1. [archived |-> FALSE, last |-> FALSE] \in [archived: BOOLEAN, last: BOOLEAN]
      OBVIOUS
    <2> QED BY <2>1 DEF RPInit, RPTypeOK, NoOperation
  <1>2. OneLastLoad /\ CodeOfDialog /\ OperatesAsConfirmed
    BY DEF RPInit, OneLastLoad, CodeOfDialog, OperatesAsConfirmed, NoOperation
  <1> QED BY <1>1, <1>2 DEF RPInv

LEMMA RPStep == RPInv /\ [RPNext]_rpVars => RPInv'
  <1> SUFFICES ASSUME RPInv, [RPNext]_rpVars PROVE RPInv'
    OBVIOUS
  <1> USE DEF RPInv, RPTypeOK
  <1>1. CASE UNCHANGED rpVars
    BY <1>1 DEF rpVars, OneLastLoad, CodeOfDialog, OperatesAsConfirmed
  <1>2. CASE RPTick \/ RPShowArchived
    <2> DEFINE new == [archived |-> rpArchived', last |-> FALSE]
    <2>1. /\ rpArchived' \in BOOLEAN /\ rpLoads' = rpLoads \cup {new}
          /\ UNCHANGED <<rpDialog, rpCode, rpOut, rpBusy>>
      BY <1>2 DEF RPTick, RPShowArchived
    <2>2. new \in [archived: BOOLEAN, last: BOOLEAN] /\ ~new.last
      BY <2>1
    <2>3. RPTypeOK'
      BY <2>1, <2>2
    <2> HIDE DEF new
    <2> QED BY <2>1, <2>2, <2>3 DEF OneLastLoad, CodeOfDialog, OperatesAsConfirmed
  <1>3. CASE RPType
    BY <1>3 DEF RPType, OneLastLoad, CodeOfDialog, OperatesAsConfirmed, NoOperation
  <1>4. CASE RPCancel
    BY <1>4 DEF RPCancel, OneLastLoad, CodeOfDialog, OperatesAsConfirmed, NoOperation
  <1>5. CASE RPSubmit
    <2>1. OneLastLoad'
      BY <1>5 DEF RPSubmit, OneLastLoad
    <2>2. CodeOfDialog'
      BY <1>5 DEF RPSubmit, CodeOfDialog
    <2>3. OperatesAsConfirmed'
      BY <1>5 DEF RPSubmit, CodeOfDialog, OperatesAsConfirmed
    <2> QED BY <1>5, <2>1, <2>2, <2>3 DEF RPSubmit
  <1>6. CASE RPDone
    <2> DEFINE new == [archived |-> rpArchived, last |-> TRUE]
    <2>1. new \in [archived: BOOLEAN, last: BOOLEAN]
      OBVIOUS
    <2>2. RPTypeOK'
      BY <1>6, <2>1 DEF RPDone, NoOperation
    <2>3. \A load \in rpLoads : ~load.last
      BY <1>6 DEF RPDone, OneLastLoad
    <2>4. rpBusy' /\ rpOut' = NoOperation
      BY <1>6 DEF RPDone, CodeOfDialog
    <2>5. \A load \in rpLoads' : load.last => load = new
      BY <1>6, <2>3 DEF RPDone
    <2>6. OneLastLoad'
      BY <2>4, <2>5 DEF OneLastLoad
    <2>7. CodeOfDialog' /\ OperatesAsConfirmed'
      BY <1>6 DEF RPDone, CodeOfDialog, OperatesAsConfirmed, NoOperation
    <2> QED BY <2>2, <2>6, <2>7
  <1>7. CASE RPFails
    BY <1>7 DEF RPFails, OneLastLoad, CodeOfDialog, OperatesAsConfirmed
  <1>8. ASSUME NEW r \in Robots, RPRobot(r)
        PROVE  RPInv'
    BY <1>8 DEF RPRobot, OneLastLoad, CodeOfDialog, OperatesAsConfirmed
  <1>9. ASSUME NEW load \in rpLoads, NEW ok \in BOOLEAN, RPLoaded(load, ok)
        PROVE  RPInv'
    BY <1>9 DEF RPLoaded, OneLastLoad, CodeOfDialog, OperatesAsConfirmed
  <1>10. ASSUME NEW row \in rpRows, NEW kind \in Operations, RPOpen(row, kind)
         PROVE  RPInv'
    BY <1>10 DEF RPOpen, OneLastLoad, CodeOfDialog, OperatesAsConfirmed, NoOperation
  <1> QED BY <1>1, <1>2, <1>3, <1>4, <1>5, <1>6, <1>7, <1>8, <1>9, <1>10 DEF RPNext

\* The registry's operation under way is the one of its dialog, and its code was
\* typed for its robot (robots/page.tsx 54-114).
THEOREM OperatesAsConfirmedHolds == PagesSpec => []OperatesAsConfirmed
  <1>1. PagesInit => RPInv
    BY RPInitial DEF PagesInit
  <1>2. RPInv /\ [PagesNext]_pagesVars => RPInv'
    BY PagesStep, RPStep
  <1>3. RPInv => OperatesAsConfirmed
    BY DEF RPInv
  <1> QED BY <1>1, <1>2, <1>3, PTL DEF PagesSpec

-----------------------------------------------------------------------------
\* Who the tab believes is signed in.
ABRequests == [kind: {"me", "login", "logout", "data"}, user: Users \cup {NoUser},
               session: Sessions \cup {0}, answer: {"none", "ok", "401"}]

ABTypeOK ==
    /\ abLoading \in BOOLEAN
    /\ abOwner \in [Sessions -> Users \cup {NoUser}]
    /\ abOut \subseteq ABRequests

\* While the session is restored nothing else is asked.
RestoresFirst ==
    /\ abLoading => abUser = NoUser /\ \A r \in abOut : r.kind = "me" /\ r.session = abCookie
    /\ ~abLoading => \A r \in abOut : r.kind # "me"
    /\ \A r, other \in abOut : r.kind = "me" => other = r

\* The cookie, and the one an answered login brings, name a session that is owned.
OwnedSession(session) == session \in Sessions /\ abOwner[session] # NoUser
CookieIsOwned ==
    /\ abCookie # 0 => OwnedSession(abCookie)
    /\ \A r \in abOut : r.kind = "login" =>
         r.user # NoUser /\ (r.answer = "ok" => OwnedSession(r.session))

ABInv == ABTypeOK /\ RestoresFirst /\ CookieIsOwned /\ ActsAsShownUser

LEMMA ABInitial == ABInit => ABInv
  <1> SUFFICES ASSUME ABInit PROVE ABInv
    OBVIOUS
  <1>1. 1 \in Sessions
    BY SessionAssumption DEF Sessions
  <1>2. ABTypeOK
    BY <1>1, SessionAssumption DEF ABInit, ABTypeOK, ABRequests
  <1>3. RestoresFirst /\ CookieIsOwned /\ ActsAsShownUser
    BY <1>1, SessionAssumption DEF ABInit, RestoresFirst, CookieIsOwned, OwnedSession,
       ActsAsShownUser
  <1> QED BY <1>2, <1>3 DEF ABInv

\* A request that is only asked.
LEMMA AskKeeps ==
    ASSUME ABInv, ~abLoading, NEW kind \in {"login", "logout", "data"},
           NEW user \in Users \cup {NoUser},
           kind = "login" => user # NoUser,
           abOut' = abOut \cup {Ask(kind, user)},
           UNCHANGED <<abLoading, abCookie, abOwner>>, abUser' \in {abUser, NoUser}
    PROVE  ABInv'
  <1> DEFINE new == Ask(kind, user)
  <1>1. abCookie \in Sessions \cup {0}
    BY DEF ABInv, CookieIsOwned, OwnedSession
  <1>2. new \in ABRequests /\ new.kind = kind /\ new.user = user /\ new.answer = "none"
    BY <1>1 DEF Ask, ABRequests
  <1>3. abOut' = abOut \cup {new}
    BY DEF new
  <1> HIDE DEF new
  <1>4. ABTypeOK'
    BY <1>2, <1>3 DEF ABInv, ABTypeOK
  <1>5. RestoresFirst'
    BY <1>2, <1>3 DEF ABInv, RestoresFirst
  <1>6. CookieIsOwned' /\ ActsAsShownUser'
    BY <1>2, <1>3 DEF ABInv, CookieIsOwned, OwnedSession, ActsAsShownUser
  <1> QED BY <1>4, <1>5, <1>6 DEF ABInv

LEMMA ServeKeeps ==
    ASSUME ABInv, NEW r \in abOut, ABServe(r)
    PROVE  ABInv'
  <1>1. PICK session \in {s \in Sessions : abOwner[s] = NoUser} \cup {0} :
         /\ IF r.kind = "login" /\ session # 0
            THEN /\ abOwner' = [abOwner EXCEPT ![session] = r.user]
            ELSE /\ session = 0 /\ UNCHANGED abOwner
         /\ abOut' = (abOut \ {r}) \cup
              {IF r.kind = "login"
               THEN [r EXCEPT !.session = session,
                              !.answer = IF session = 0 THEN "401" ELSE "ok"]
               ELSE [r EXCEPT !.answer =
                       IF r.kind = "logout" \/ r.session \in abLive THEN "ok" ELSE "401"]}
    BY DEF ABServe
  <1> DEFINE new == IF r.kind = "login"
               THEN [r EXCEPT !.session = session,
                              !.answer = IF session = 0 THEN "401" ELSE "ok"]
               ELSE [r EXCEPT !.answer =
                       IF r.kind = "logout" \/ r.session \in abLive THEN "ok" ELSE "401"]
  <1>2. UNCHANGED <<abUser, abLoading, abPath, abCookie>> /\ r \in ABRequests
        /\ r.user \in Users \cup {NoUser}
    BY DEF ABServe, ABInv, ABTypeOK, ABRequests
  <1>3. /\ new \in ABRequests /\ new.kind = r.kind /\ new.user = r.user
        /\ r.kind # "login" => new.session = r.session
        /\ r.kind = "login" => new.session = session /\ (new.answer = "ok" => session # 0)
    BY <1>2 DEF ABRequests
  <1>4. abOut' = (abOut \ {r}) \cup {new}
    BY <1>1
  <1> HIDE DEF new
  <1>5. abOwner' \in [Sessions -> Users \cup {NoUser}]
        /\ \A s \in Sessions : abOwner[s] # NoUser => abOwner'[s] = abOwner[s]
    BY <1>1, <1>2, <1>3 DEF ABInv, ABTypeOK
  <1>6. r.kind = "login" /\ new.answer = "ok" => session \in Sessions /\ abOwner'[session] = r.user
    BY <1>1, <1>2, <1>3 DEF ABInv, ABTypeOK
  <1>7. ABTypeOK'
    BY <1>2, <1>3, <1>4, <1>5 DEF ABInv, ABTypeOK
  <1>8. RestoresFirst'
    BY <1>2, <1>3, <1>4 DEF ABInv, RestoresFirst
  <1>9. CookieIsOwned' /\ ActsAsShownUser'
    BY <1>2, <1>3, <1>4, <1>5, <1>6 DEF ABInv, CookieIsOwned, OwnedSession, ActsAsShownUser
  <1> QED BY <1>7, <1>8, <1>9 DEF ABInv

LEMMA AnswerKeeps ==
    ASSUME ABInv, NEW r \in abOut, ABAnswer(r)
    PROVE  ABInv'
  <1> USE DEF ABInv
  <1>1. ABTypeOK'
    BY DEF ABAnswer, ABTypeOK, ABRequests
  <1>2. RestoresFirst'
    <2>1. CASE abLoading
      <3>1. abOut' = {} /\ abLoading' = FALSE
        BY <2>1 DEF ABAnswer, RestoresFirst
      <3> QED BY <3>1 DEF RestoresFirst
    <2>2. CASE ~abLoading
      <3>1. abOut' \subseteq abOut /\ abLoading' = FALSE
        BY <2>2 DEF ABAnswer
      <3> QED BY <2>2, <3>1 DEF RestoresFirst
    <2> QED BY <2>1, <2>2
  <1>3. CookieIsOwned' /\ ActsAsShownUser'
    <2>1. CASE r.kind = "me"
      BY <2>1 DEF ABAnswer, RestoresFirst, CookieIsOwned, OwnedSession, ActsAsShownUser
    <2>2. CASE r.kind # "me"
      <3>1. UNCHANGED abOwner /\ abOut' \subseteq abOut
        BY DEF ABAnswer
      <3>2. CookieIsOwned'
        BY <2>2, <3>1 DEF ABAnswer, CookieIsOwned, OwnedSession
      <3>3. ActsAsShownUser'
        BY <2>2, <3>1 DEF ABAnswer, ABTypeOK, ABRequests, ActsAsShownUser
      <3> QED BY <3>2, <3>3
    <2> QED BY <2>1, <2>2
  <1> QED BY <1>1, <1>2, <1>3

LEMMA ABStep == ABInv /\ [ABNext]_abVars => ABInv'
  <1> SUFFICES ASSUME ABInv, [ABNext]_abVars PROVE ABInv'
    OBVIOUS
  <1>1. CASE UNCHANGED abVars
    BY <1>1 DEF abVars, ABInv, ABTypeOK, RestoresFirst, CookieIsOwned, OwnedSession,
       ActsAsShownUser
  <1>2. CASE ABLogout
    BY <1>2, AskKeeps DEF ABLogout, ABInv, RestoresFirst
  <1>3. CASE ABPoll
    BY <1>3, AskKeeps DEF ABPoll, Shown
  <1>4. CASE ABRoute
    BY <1>4 DEF ABRoute, ABInv, ABTypeOK, RestoresFirst, CookieIsOwned, OwnedSession,
       ActsAsShownUser
  <1>5. ASSUME NEW user \in Users, ABLogin(user)
        PROVE  ABInv'
    BY <1>5, AskKeeps, SessionAssumption DEF ABLogin
  <1>6. ASSUME NEW path \in Paths, ABNavigate(path)
        PROVE  ABInv'
    BY <1>6 DEF ABNavigate, ABInv, ABTypeOK, RestoresFirst, CookieIsOwned, OwnedSession,
       ActsAsShownUser
  <1>7. ASSUME NEW session \in Sessions, ABRevoke(session)
        PROVE  ABInv'
    BY <1>7 DEF ABRevoke, ABInv, ABTypeOK, RestoresFirst, CookieIsOwned, OwnedSession,
       ActsAsShownUser
  <1>8. ASSUME NEW r \in abOut, ABLost(r)
        PROVE  ABInv'
    BY <1>8 DEF ABLost, ABInv, ABTypeOK, RestoresFirst, CookieIsOwned, OwnedSession,
       ActsAsShownUser
  <1> QED BY <1>1, <1>2, <1>3, <1>4, <1>5, <1>6, <1>7, <1>8, ServeKeeps, AnswerKeeps DEF ABNext

\* The tab never acts as another user than it shows, for any number of users and
\* logins, revoked sessions and lost answers (AuthContext.tsx 20-45).
THEOREM ActsAsShownUserHolds == PagesSpec => []ActsAsShownUser
  <1>1. PagesInit => ABInv
    BY ABInitial DEF PagesInit
  <1>2. ABInv /\ [PagesNext]_pagesVars => ABInv'
    BY PagesStep, ABStep
  <1>3. ABInv => ActsAsShownUser
    BY DEF ABInv
  <1> QED BY <1>1, <1>2, <1>3, PTL DEF PagesSpec

-----------------------------------------------------------------------------
\* The list of notifications.
ListedAs(listed, filter) == listed = [filter |-> filter, more |-> listed.more]

\* An answer that will be taken was asked for with the filter chosen, and a page
\* of back then is of the filter it was shown with.
AsksFit ==
    /\ npSequence \in Nat
    /\ \A request \in npOut :
         /\ request.kind = "load" => request.seq \in Nat /\ request.seq <= npSequence
         /\ request.kind # "load" /\ ~npCrossed => ListedAs(request.page, request.filter)
         /\ request.kind = "load" /\ request.seq = npSequence /\ ~npCrossed
              => request.filter = npFilter

PagesFit ==
    /\ DOMAIN npCache = Filters
    /\ ~npCrossed =>
         /\ npPage # NoPage => ListedAs(npPage, npFilter)
         /\ \A f \in Filters : npCache[f] # NoPage => ListedAs(npCache[f], f)

NPInv == AsksFit /\ PagesFit

LEMMA NPImplies == NPInv => ListFitsFilter
  <1>1. \A listed, filter : ListedAs(listed, filter) => listed.filter = filter
    BY DEF ListedAs
  <1> QED BY <1>1 DEF NPInv, PagesFit, ListFitsFilter

LEMMA NPInitial == NPInit => NPInv
  BY DEF NPInit, NPInv, AsksFit, PagesFit

\* Nothing but a load that is the newest by now is put out.
LEMMA ListLoadKeeps ==
    ASSUME AsksFit, NEW new, NEW rest, rest \subseteq npOut,
           NEW seq \in {npSequence + 1, npSequence + 2},
           new.kind = "load", new.seq = seq, npSequence' = seq, npOut' = rest \cup {new},
           ~npCrossed' => ~npCrossed /\ new.filter = npFilter'
    PROVE  AsksFit'
  BY DEF AsksFit

LEMMA Remarked ==
    ASSUME NEW filter, NEW more, NEW all
    PROVE  LET listed == [filter |-> filter, more |-> more]
           IN  ListedAs([listed EXCEPT !.more = @ \/ all], filter)
  BY DEF ListedAs

LEMMA NPStep == NPInv /\ [NPNext]_npVars => NPInv'
  <1> SUFFICES ASSUME NPInv, [NPNext]_npVars PROVE NPInv'
    OBVIOUS
  <1> USE DEF NPInv
  <1>1. CASE UNCHANGED npVars
    BY <1>1 DEF npVars, AsksFit, PagesFit
  <1>2. CASE NPAnnounced
    BY <1>2 DEF NPAnnounced, AsksFit, PagesFit
  <1>3. CASE NPRefresh
    <2>1. LoadAs(npFilter, FALSE).kind = "load" /\ LoadAs(npFilter, FALSE).filter = npFilter
          /\ LoadAs(npFilter, FALSE).seq = npSequence + 1
      BY DEF LoadAs
    <2>2. AsksFit'
      BY <1>3, <2>1, ListLoadKeeps DEF NPRefresh
    <2> QED BY <1>3, <2>2 DEF NPRefresh, PagesFit
  <1>4. ASSUME NEW kind \in {"more", "markIds", "markAll"}, npPage # NoPage,
               npOut' = npOut \cup {Request(kind, 0, FALSE)},
               UNCHANGED <<npFilter, npPage, npCache, npSequence, npCrossed>>
        PROVE  NPInv'
    <2> DEFINE new == Request(kind, 0, FALSE)
    <2>1. new.kind = kind /\ new.page = npPage /\ new.filter = npFilter
      BY DEF Request
    <2> HIDE DEF new
    <2>2. ~npCrossed => ListedAs(new.page, new.filter)
      BY <1>4, <2>1 DEF PagesFit
    <2>3. npOut' = npOut \cup {new}
      BY <1>4 DEF new
    <2> QED BY <1>4, <2>1, <2>2, <2>3 DEF AsksFit, PagesFit
  <1>5. ASSUME NEW filter \in Filters, NPChoose(filter)
        PROVE  NPInv'
    <2> DEFINE new == [LoadAs(filter, npCache[filter] = NoPage) EXCEPT !.seq = npSequence + 2]
    <2>1. new.kind = "load" /\ new.filter = filter /\ new.seq = npSequence + 2
      BY DEF LoadAs
    <2>2. npOut' = npOut \cup {new}
      BY <1>5 DEF NPChoose
    <2> HIDE DEF new
    <2>3. AsksFit'
      BY <1>5, <2>1, <2>2, ListLoadKeeps DEF NPChoose
    <2>4. PagesFit'
      BY <1>5 DEF NPChoose, PagesFit
    <2> QED BY <2>3, <2>4
  <1>6. ASSUME NEW kind \in {"markIds", "markAll"}, NPMark(kind)
        PROVE  NPInv'
    BY <1>4, <1>6 DEF NPMark
  <1>7. ASSUME NEW request \in npOut, NPMarked(request)
        PROVE  NPInv'
    <2> DEFINE new == LoadAs(request.filter, FALSE)
    <2>1. new.kind = "load" /\ new.filter = request.filter /\ new.seq = npSequence + 1
      BY DEF LoadAs
    <2>2. npOut' = (npOut \ {request}) \cup {new}
      BY <1>7 DEF NPMarked
    <2> HIDE DEF new
    <2>3. AsksFit'
      BY <1>7, <2>1, <2>2, ListLoadKeeps DEF NPMarked
    <2> QED BY <1>7, <2>3 DEF NPMarked, PagesFit
  <1>8. ASSUME NEW request \in npOut, NPReplace(request)
        PROVE  NPInv'
    <2>1. AsksFit'
      BY <1>8 DEF NPReplace, AsksFit
    <2>2. ASSUME ~npCrossed'
          PROVE  ~npCrossed /\ request.filter = npFilter
                 /\ ListedAs([request.page EXCEPT !.more = @ \/ request.kind = "more"], request.filter)
      <3>1. ~npCrossed /\ request.filter = npFilter /\ ListedAs(request.page, request.filter)
        BY <1>8, <2>2 DEF NPReplace, AsksFit
      <3> QED BY <3>1, Remarked DEF ListedAs
    <2>3. PagesFit'
      BY <1>8, <2>2 DEF NPReplace, PagesFit
    <2> QED BY <2>1, <2>3
  <1>9. ASSUME NEW request \in npOut, NPFailed(request)
        PROVE  NPInv'
    BY <1>9 DEF NPFailed, AsksFit, PagesFit
  <1>10. ASSUME NEW request \in npOut, NEW failed \in BOOLEAN, NPLoaded(request, failed)
         PROVE  NPInv'
    <2>1. AsksFit'
      BY <1>10 DEF NPLoaded, AsksFit
    <2>2. ListedAs([filter |-> request.filter, more |-> FALSE], request.filter)
      BY DEF ListedAs
    <2>3. PagesFit'
      BY <1>10, <2>2 DEF NPLoaded, Counts, AsksFit, PagesFit
    <2> QED BY <2>1, <2>3
  <1>11. CASE NPMore
    BY <1>4, <1>11 DEF NPMore
  <1> QED BY <1>1, <1>2, <1>3, <1>5, <1>6, <1>7, <1>8, <1>9, <1>10, <1>11 DEF NPNext

\* The list shown, and the one kept for each filter, was asked for with it, but
\* for unguarded answers that crossed a change of it (notifications/page.tsx 77-149).
THEOREM ListFitsFilterHolds == PagesSpec => []ListFitsFilter
  <1>1. PagesInit => NPInv
    BY NPInitial DEF PagesInit
  <1>2. NPInv /\ [PagesNext]_pagesVars => NPInv'
    BY PagesStep, NPStep
  <1>3. NPInv => ListFitsFilter
    BY NPImplies
  <1> QED BY <1>1, <1>2, <1>3, PTL DEF PagesSpec

-----------------------------------------------------------------------------
\* The list of tasks, its drawer and its history.
Asked(request) == request \in [task: {request.task}, live: BOOLEAN]

\* A request that is still wanted is for what is open now.
WantedIsOpen ==
    /\ \A fetch \in tkFetches : Asked(fetch) /\ (fetch.live => fetch.task = tkSelected)
    /\ \A request \in tkHistories : Asked(request) /\ (request.live => request.task = tkHistoryOf)
    /\ tkHistory \in {NoTask, tkHistoryOf}

LEMMA SilencedAre ==
    ASSUME NEW requests, \A request \in requests : Asked(request)
    PROVE  \A quiet \in Silenced(requests) : \E request \in requests :
             Asked(quiet) /\ ~quiet.live /\ quiet.task = request.task
             /\ (~request.live => quiet = request)
  <1> SUFFICES ASSUME NEW quiet \in Silenced(requests)
               PROVE  \E request \in requests :
                        Asked(quiet) /\ ~quiet.live /\ quiet.task = request.task
                        /\ (~request.live => quiet = request)
    OBVIOUS
  <1>1. PICK request \in requests : quiet = [request EXCEPT !.live = FALSE]
    BY DEF Silenced
  <1>2. request \in [task: {request.task}, live: BOOLEAN]
    BY DEF Asked
  <1> QED BY <1>1, <1>2 DEF Asked

LEMMA QuietStay ==
    ASSUME NEW requests, \A request \in requests : Asked(request)
    PROVE  \A request \in requests : ~request.live => request \in Silenced(requests)
  <1> SUFFICES ASSUME NEW request \in requests, ~request.live
               PROVE  request = [request EXCEPT !.live = FALSE]
    BY DEF Silenced
  <1>1. request \in [task: {request.task}, live: BOOLEAN]
    BY DEF Asked
  <1> QED BY <1>1

LEMMA NewAsk ==
    ASSUME NEW task
    PROVE  LET new == [task |-> task, live |-> TRUE] IN Asked(new) /\ new.task = task
  BY DEF Asked

LEMMA FetchesKept ==
    ASSUME WantedIsOpen, NEW fetches, fetches \subseteq tkFetches, FetchEffect(fetches)
    PROVE  /\ \A fetch \in tkFetches' : Asked(fetch) /\ (fetch.live => fetch.task = tkSelected')
           /\ \A fetch \in fetches \ tkFetches' : fetch.live
  <1>1. CASE tkSelected' = tkSelected /\ tkFetches' = fetches
    BY <1>1 DEF WantedIsOpen
  <1>2. CASE tkFetches' = Silenced(fetches) \/
             tkFetches' = Silenced(fetches) \cup {[task |-> tkSelected', live |-> TRUE]}
    BY <1>2, SilencedAre, QuietStay, NewAsk DEF WantedIsOpen
  <1> QED BY <1>1, <1>2 DEF FetchEffect

LEMMA HistoriesKept ==
    ASSUME WantedIsOpen, HistoryEffect(tkHistories)
    PROVE  \A request \in tkHistories' :
             Asked(request) /\ (request.live => request.task = tkHistoryOf')
  <1>1. CASE tkHistoryOf' = tkHistoryOf /\ tkHistories' = tkHistories
    BY <1>1 DEF WantedIsOpen
  <1>2. CASE tkHistories' = Silenced(tkHistories) \/
             tkHistories' = Silenced(tkHistories) \cup {[task |-> tkHistoryOf', live |-> TRUE]}
    BY <1>2, SilencedAre, NewAsk DEF WantedIsOpen
  <1> QED BY <1>1, <1>2 DEF HistoryEffect

OneTaskShown ==
    /\ tkHistory' \in {NoTask, tkHistoryOf'}
    /\ \A fetch \in tkFetches \ tkFetches' :
         tkSelected # NoTask /\ tkSelected' = NoTask => fetch.task = tkSelected

\* A step whose effects have run; "gone" is the request it answers.
LEMMA EffectsKeep ==
    ASSUME WantedIsOpen, NEW gone, EffectsAfter(tkFetches \ gone),
           tkHistory' \in {NoTask, tkHistoryOf'},
           tkSelected' # tkSelected => \A fetch \in gone \cap tkFetches : fetch.live
    PROVE  WantedIsOpen' /\ OneTaskShown
  <1>1. FetchEffect(tkFetches \ gone) /\ HistoryEffect(tkHistories)
    BY DEF EffectsAfter
  <1>2. /\ \A fetch \in tkFetches' : Asked(fetch) /\ (fetch.live => fetch.task = tkSelected')
        /\ \A fetch \in (tkFetches \ gone) \ tkFetches' : fetch.live
    BY <1>1, FetchesKept
  <1>3. WantedIsOpen'
    BY <1>1, <1>2, HistoriesKept DEF WantedIsOpen
  <1>4. \A fetch \in tkFetches \ tkFetches' : tkSelected' # tkSelected => fetch.live
    BY <1>2
  <1>5. OneTaskShown
    BY <1>4 DEF WantedIsOpen, OneTaskShown
  <1> QED BY <1>3, <1>5

LEMMA TKInitial == TKInit => WantedIsOpen
  BY NewAsk DEF TKInit, WantedIsOpen

LEMMA TKStep == WantedIsOpen /\ [TKNext]_tkVars => WantedIsOpen' /\ OneTaskShown
  <1> SUFFICES ASSUME WantedIsOpen, [TKNext]_tkVars
               PROVE  WantedIsOpen' /\ OneTaskShown
    OBVIOUS
  <1>1. ASSUME Effects, tkHistory' \in {NoTask, tkHistoryOf'}
        PROVE  WantedIsOpen' /\ OneTaskShown
    <2>1. EffectsAfter(tkFetches \ {})
      BY <1>1 DEF Effects
    <2> QED BY <1>1, <2>1, EffectsKeep
  <1>2. ASSUME UNCHANGED <<tkFetches, tkSelected, tkHistories, tkHistoryOf, tkHistory>>
        PROVE  WantedIsOpen' /\ OneTaskShown
    BY <1>2 DEF WantedIsOpen, OneTaskShown
  <1>3. CASE TKRefreshed \/ TKClose \/ TKHistoryOpens \/ TKHistoryCloses
    BY <1>1, <1>3 DEF TKRefreshed, TKClose, TKHistoryOpens, TKHistoryCloses, WantedIsOpen
  <1>4. ASSUME NEW load \in tkLoads, NEW ok \in BOOLEAN, TKLoaded(load, ok)
        PROVE  WantedIsOpen' /\ OneTaskShown
    BY <1>1, <1>4 DEF TKLoaded, WantedIsOpen
  <1>5. ASSUME NEW row \in tkRows, TKOpen(row)
        PROVE  WantedIsOpen' /\ OneTaskShown
    BY <1>1, <1>5 DEF TKOpen, WantedIsOpen
  <1>6. ASSUME NEW fetch \in tkFetches, TKFetched(fetch) \/ TKFetchFails(fetch)
        PROVE  WantedIsOpen' /\ OneTaskShown
    <2>1. EffectsAfter(tkFetches \ {fetch}) /\ tkHistory' \in {NoTask, tkHistoryOf'}
      BY <1>6 DEF TKFetched, TKFetchFails, WantedIsOpen
    <2>2. tkSelected' # tkSelected => fetch.live
      BY <1>6 DEF TKFetched, TKFetchFails, StillWanted
    <2> QED BY <2>1, <2>2, EffectsKeep
  <1>7. ASSUME NEW request \in tkHistories, NEW ok \in BOOLEAN, TKHistoryAnswer(request, ok)
        PROVE  WantedIsOpen' /\ OneTaskShown
    BY <1>7 DEF TKHistoryAnswer, StillWanted, WantedIsOpen, OneTaskShown
  <1>8. ASSUME \/ \E t \in Tasks : TKStatus(t)
               \/ \E filter \in TaskFilters : TKFilter(filter)
               \/ \E row : TKAct(row)
               \/ \E action \in tkActions : TKActed(action)
               \/ UNCHANGED tkVars
        PROVE  WantedIsOpen' /\ OneTaskShown
    BY <1>2, <1>8 DEF TKStatus, TKFilter, TKAct, TKActed, tkVars
  <1> QED BY <1>3, <1>4, <1>5, <1>6, <1>7, <1>8 DEF TKNext

\* The history shown is the named task's, and a failed request closes its own
\* task's drawer only (app/tasks/page.tsx 90-95, 119-130).
THEOREM ShowsOneTaskHolds == PagesSpec => ShowsOneTask
  <1>1. PagesInit => WantedIsOpen
    BY TKInitial DEF PagesInit
  <1>2. WantedIsOpen /\ [PagesNext]_pagesVars => WantedIsOpen'
    BY PagesStep, TKStep
  <1>3. WantedIsOpen /\ [PagesNext]_pagesVars => OneTaskShown
    BY PagesStep, TKStep
  <1> QED BY <1>1, <1>2, <1>3, PTL DEF PagesSpec, ShowsOneTask, OneTaskShown
=============================================================================
