----------------------------- MODULE AssistedDrive ----------------------------
(***************************************************************************)
(* Driving the robot while it maps (src/src/app/maps/page.tsx, the drive    *)
(* callbacks of MappingWorkspace).  Unlike the manual page nothing puts the *)
(* requests in line: a repeat waits for its own answer, a stop for none.   *)
(***************************************************************************)
EXTENDS Integers, FiniteSets, PageConstants

CONSTANTS MaxHolds, MaxDrives        \* bounds

VARIABLES
    dmMounted,
    dmRobot, dmPhaseActive,        \* the props rendered: robot, phase MAPPING
    dmClosed,                      \* the same, as the callbacks closed over them
    dmDriving, dmGeneration,       \* the refs driving and driveGeneration
    dmTimer, dmStopTimer,          \* driveTimer (with its hold), driveStopTimer
    dmOut,                         \* drive requests not answered yet
    dmLast                         \* the last request issued to each robot

dmVars == <<dmMounted, dmRobot, dmPhaseActive, dmClosed, dmDriving, dmGeneration,
            dmTimer, dmStopTimer, dmOut, dmLast>>
dmProps == <<dmMounted, dmRobot, dmPhaseActive>>

NoHold == [robot |-> NoRobot, gen |-> 0]
OwnHold == [robot |-> dmClosed.robot, gen |-> dmGeneration]

Issue(robot, kind) == dmLast' = [dmLast EXCEPT ![robot] = kind]
ClearDriveTimers ==
    /\ dmGeneration' = dmGeneration + 1
    /\ dmTimer' = NoHold /\ dmStopTimer' = FALSE

\* stopDrive(): everything armed is cleared, and a stop is sent while mapping.
StopDrive ==
    /\ dmGeneration < MaxHolds
    /\ ClearDriveTimers /\ dmDriving' = FALSE
    /\ IF dmClosed.active THEN Issue(dmClosed.robot, "stop") ELSE UNCHANGED dmLast

\* startDrive()
DMPress ==
    /\ dmMounted /\ dmClosed.active
    /\ dmGeneration < MaxHolds /\ Cardinality(dmOut) < MaxDrives
    /\ ClearDriveTimers /\ dmDriving' = TRUE
    /\ dmOut' = dmOut \cup {[robot |-> dmClosed.robot, gen |-> dmGeneration + 1]}
    /\ Issue(dmClosed.robot, "drive")
    /\ UNCHANGED <<dmProps, dmClosed>>

\* releaseDrive(): the stop follows at the latest 300 ms after the start.
DMRelease ==
    /\ dmMounted /\ dmDriving /\ dmGeneration < MaxHolds
    /\ dmDriving' = FALSE /\ dmGeneration' = dmGeneration + 1
    /\ dmTimer' = NoHold /\ dmStopTimer' = TRUE
    /\ UNCHANGED <<dmProps, dmClosed, dmOut, dmLast>>

DMStopTimer ==
    /\ dmStopTimer /\ dmStopTimer' = FALSE
    /\ IF dmClosed.active THEN Issue(dmClosed.robot, "stop") ELSE UNCHANGED dmLast
    /\ UNCHANGED <<dmProps, dmClosed, dmDriving, dmGeneration, dmTimer, dmOut>>

\* The stop button, the space bar, focus lost, pointer cancelled.
DMStop ==
    /\ dmMounted /\ StopDrive /\ UNCHANGED <<dmProps, dmClosed, dmOut>>

\* Seeded fault: an answered request repeats for whatever hold there is.
Repeats_AnyHold(request) == dmDriving

Repeats(request) == dmDriving /\ request.gen = dmGeneration

\* The request is answered: its own hold goes on in 180 ms.
DMAnswered(request) ==
    /\ dmOut' = dmOut \ {request}
    /\ dmTimer' = IF Repeats(request) THEN request ELSE dmTimer
    /\ UNCHANGED <<dmProps, dmClosed, dmDriving, dmGeneration, dmStopTimer, dmLast>>

\* The request fails: a hold that still goes on is stopped.
DMFailed(request) ==
    /\ dmOut' = dmOut \ {request}
    /\ IF request.gen = dmGeneration THEN StopDrive
       ELSE UNCHANGED <<dmDriving, dmGeneration, dmTimer, dmStopTimer, dmLast>>
    /\ UNCHANGED <<dmProps, dmClosed>>

DMRepeat ==
    /\ dmTimer # NoHold /\ Cardinality(dmOut) < MaxDrives
    /\ dmTimer' = NoHold /\ dmOut' = dmOut \cup {dmTimer}
    /\ Issue(dmTimer.robot, "drive")
    /\ UNCHANGED <<dmProps, dmClosed, dmDriving, dmGeneration, dmStopTimer>>

\* Another robot, or another phase of the session, is rendered.
DMRender(robot, active) ==
    /\ dmMounted /\ dmRobot' = robot /\ dmPhaseActive' = active
    /\ UNCHANGED <<dmMounted, dmClosed, dmDriving, dmGeneration, dmTimer,
                   dmStopTimer, dmOut, dmLast>>

\* The effects of that render: cleaned up with the old stopDrive.
DMCommit ==
    /\ dmMounted /\ dmClosed # [robot |-> dmRobot, active |-> dmPhaseActive]
    /\ StopDrive
    /\ dmClosed' = [robot |-> dmRobot, active |-> dmPhaseActive]
    /\ UNCHANGED <<dmProps, dmOut>>

DMLeave ==
    /\ dmMounted /\ dmMounted' = FALSE /\ StopDrive
    /\ UNCHANGED <<dmRobot, dmPhaseActive, dmClosed, dmOut>>

DMInit ==
    /\ dmMounted = TRUE /\ dmRobot = (CHOOSE r \in Robots : TRUE) /\ dmPhaseActive = FALSE
    /\ dmClosed = [robot |-> dmRobot, active |-> FALSE]
    /\ dmDriving = FALSE /\ dmGeneration = 0 /\ dmTimer = NoHold /\ dmStopTimer = FALSE
    /\ dmOut = {} /\ dmLast = [r \in Robots |-> "stop"]

DMNext ==
    \/ DMPress \/ DMRelease \/ DMStopTimer \/ DMStop \/ DMRepeat \/ DMCommit \/ DMLeave
    \/ \E request \in dmOut : DMAnswered(request) \/ DMFailed(request)
    \/ \E robot \in Robots, active \in BOOLEAN : DMRender(robot, active)

-----------------------------------------------------------------------------
\* The last thing any robot was told is to stop, unless the operator holds a
\* button for it or its stop is armed: whatever ends the hold (release, a failed
\* request, another robot, the end of the session, leaving the page) while
\* requests are out or a repeat is armed (lines 337-381).
AssistedMotionEndsWithStop ==
    /\ \A r \in Robots : dmLast[r] = "drive" =>
         (dmDriving \/ dmStopTimer) /\ dmClosed.robot = r /\ dmClosed.active
    /\ dmTimer # NoHold => dmDriving /\ dmTimer = OwnHold
=============================================================================
