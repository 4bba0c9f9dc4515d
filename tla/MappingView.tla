----------------------------- MODULE MappingView -----------------------------
(***************************************************************************)
(* The mapping session as the maps page shows it (src/src/app/maps/page.tsx, *)
(* the status poll of MapsPage and the first half of MappingWorkspace):    *)
(* which of the live maps may be drawn as the map of the running session.  *)
(***************************************************************************)
EXTENDS Integers

CONSTANTS MaxMapRevision, MaxSessions          \* bounds

VARIABLES
    mvReal,          \* the robot's session: phase and id
    mvSession,       \* the session the page last got
    mvPoll,          \* the status request out, with the answer it will carry
    mvRun,           \* an operation of the page that is out (busy)
    mvMap,           \* occupancyMap.revision of the provider, 0 for no map
    mvBase,          \* mappingStartRevision, Unset for undefined
    mvSeenIdle       \* the map the page had when it last saw no session

mvVars == <<mvReal, mvSession, mvPoll, mvRun, mvMap, mvBase, mvSeenIdle>>

Unset == -1
Ended == {"IDLE", "FAILED"}
Live  == {"STARTING", "MAPPING"}
Idle  == [phase |-> "IDLE", id |-> 0]
NoAnswer == [phase |-> "none", id |-> 0]

\* Seeded fault: an ended session does not reset the baseline.
BaseFor_Kept(session, revision, base) ==
    IF base # Unset \/ session.phase \in Ended THEN base
    ELSE IF revision = 0 THEN Unset ELSE revision

\* The baseline effect: nothing without a session, else the first map there is.
BaseFor(session, revision, base) ==
    IF session.phase \in Ended THEN Unset
    ELSE IF base # Unset \/ revision = 0 THEN base ELSE revision

\* A render with a new phase, session id or map revision runs the effect.
Rendered(session, revision, base) ==
    /\ mvSession' = session /\ mvMap' = revision
    /\ mvBase' = IF <<session, revision>> = <<mvSession, mvMap>> THEN base
                 ELSE BaseFor(session, revision, base)
    /\ mvSeenIdle' = IF session.phase \in Ended THEN revision ELSE mvSeenIdle

\* minimumMapRevisionExclusive: with no baseline no map qualifies.
Drawn == mvSession.phase \notin Live \/ (mvBase # Unset /\ mvMap > mvBase)

\* The robot's session moves on, by an operator or by itself.
MVRobot(phase) ==
    /\ phase \in
         CASE mvReal.phase = "IDLE"     -> {"STARTING"}
           [] mvReal.phase = "STARTING" -> {"MAPPING", "FAILED"}
           [] mvReal.phase = "MAPPING"  -> {"REVIEW", "FAILED", "IDLE"}
           [] OTHER                     -> {"IDLE"}
    /\ phase = "STARTING" => mvReal.id < MaxSessions
    /\ mvReal' = [phase |-> phase,
                  id |-> mvReal.id + IF phase = "STARTING" THEN 1 ELSE 0]
    /\ UNCHANGED <<mvSession, mvPoll, mvRun, mvMap, mvBase, mvSeenIdle>>

\* A new occupancy map reaches the provider.
MVMap ==
    /\ mvMap < MaxMapRevision /\ Rendered(mvSession, mvMap + 1, mvBase)
    /\ UNCHANGED <<mvReal, mvPoll, mvRun>>

\* One status request at a time (the flag refreshing), every second.
MVPoll ==
    /\ mvPoll = NoAnswer /\ mvPoll' = mvReal
    /\ UNCHANGED <<mvReal, mvSession, mvRun, mvMap, mvBase, mvSeenIdle>>

MVStatus(failed) ==
    /\ mvPoll # NoAnswer /\ mvPoll' = NoAnswer
    /\ IF failed THEN UNCHANGED <<mvSession, mvMap, mvBase, mvSeenIdle>>
       ELSE Rendered(mvPoll, mvMap, mvBase)
    /\ UNCHANGED <<mvReal, mvRun>>

\* The start button takes the present map as the baseline before it asks.
MVStart ==
    /\ mvSession.phase = "IDLE" /\ mvRun = NoAnswer
    /\ mvRun' = [phase |-> "start", id |-> 0] /\ mvBase' = mvMap
    /\ UNCHANGED <<mvReal, mvSession, mvPoll, mvMap, mvSeenIdle>>

\* Stop, save and discard.
MVOperate ==
    /\ mvSession.phase \in {"MAPPING", "REVIEW", "FAILED"} /\ mvRun = NoAnswer
    /\ mvRun' = [phase |-> "other", id |-> 0]
    /\ UNCHANGED <<mvReal, mvSession, mvPoll, mvMap, mvBase, mvSeenIdle>>

\* The session the backend answers an operation with.
AnswerTo(run) ==
    IF run.phase = "start" /\ mvReal.phase = "IDLE"
    THEN [phase |-> "STARTING", id |-> mvReal.id + 1] ELSE mvReal

\* run(): the backend's answer replaces the session, unguarded.
MVRunDone(answer, failed) ==
    /\ mvRun # NoAnswer /\ mvRun' = NoAnswer
    /\ answer = AnswerTo(mvRun)
    /\ answer.id <= MaxSessions
    /\ mvReal' = IF failed THEN mvReal ELSE answer
    /\ IF failed THEN UNCHANGED <<mvSession, mvMap, mvBase, mvSeenIdle>>
       ELSE Rendered(answer, mvMap, mvBase)
    /\ UNCHANGED mvPoll

\* Another robot is selected, or the page is loaded again: session and map are
\* forgotten and the poll is cancelled, an operation only by the reload.
MVForget(reload) ==
    /\ mvPoll' = NoAnswer /\ mvRun' = IF reload THEN NoAnswer ELSE mvRun
    /\ mvSession' = Idle /\ mvMap' = 0 /\ mvBase' = Unset /\ mvSeenIdle' = 0
    /\ UNCHANGED mvReal

MVInit ==
    /\ mvReal = Idle /\ mvSession = Idle /\ mvPoll = NoAnswer /\ mvRun = NoAnswer
    /\ mvMap = 0 /\ mvBase = Unset /\ mvSeenIdle = 0

MVNext ==
    \/ MVMap \/ MVPoll \/ MVStart \/ MVOperate
    \/ \E phase \in {"IDLE", "STARTING", "MAPPING", "REVIEW", "FAILED"} : MVRobot(phase)
    \/ \E failed \in BOOLEAN :
         MVStatus(failed) \/ MVForget(failed)
         \/ \E phase \in {"IDLE", "STARTING", "MAPPING", "REVIEW", "FAILED"},
               id \in 0..MaxSessions :
              MVRunDone([phase |-> phase, id |-> id], failed)

-----------------------------------------------------------------------------
\* While a session runs the page never draws, as that session's map, one that
\* it already had when it last saw no session: neither the last delivery map
\* nor the map of an earlier session, whoever started this one, whichever of
\* status poll, map and answer comes first, and after a reload (lines 285-314).
OldMapNeverDrawn ==
    mvSession.phase \in Live /\ Drawn => mvMap > mvSeenIdle
=============================================================================
