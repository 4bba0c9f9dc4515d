----------------------------- MODULE ManualDrive -----------------------------
(***************************************************************************)
(* The manual driving page (src/src/app/manual/page.tsx): a held button    *)
(* repeats a drive request, every release sends a stop, and one promise    *)
(* chain lets only one request of the page out at a time.  The first       *)
(* element of mdQueue is the request in flight.                            *)
(***************************************************************************)
EXTENDS Integers, Sequences, PageConstants

CONSTANTS MaxPresses, MaxQueue      \* bounds

VARIABLES
    mdMounted,
    mdSelected, mdBusy,        \* the context: selected robot, a delivery is active
    mdRobot, mdLocked,         \* the same, as the live callbacks closed over them
    mdDriving, mdGeneration,   \* the refs driving and generation
    mdTimer,                   \* the next repetition, armed 180 ms ahead
    mdQueue,                   \* the requests of the chain
    mdLast                     \* the last request each robot was sent

mdVars == <<mdMounted, mdSelected, mdBusy, mdRobot, mdLocked, mdDriving,
            mdGeneration, mdTimer, mdQueue, mdLast>>
mdContext == <<mdMounted, mdSelected, mdBusy, mdRobot, mdLocked>>

Stopping(r)   == [robot |-> r, kind |-> "stop",  gen |-> 0]
Driving(r, g) == [robot |-> r, kind |-> "drive", gen |-> g]
NoTimer == [robot |-> NoRobot, gen |-> 0]

MDRoom(n) == mdGeneration < MaxPresses /\ Len(mdQueue) + n <= MaxQueue

\* stop(): the hold ends and a stop joins the chain.
StopWith(requests) ==
    /\ mdGeneration' = mdGeneration + 1
    /\ mdTimer' = NoTimer
    /\ mdQueue' = Append(mdQueue, Stopping(mdRobot)) \o requests

\* start(): whatever was held before is stopped first.
MDPress ==
    /\ mdMounted /\ ~mdLocked /\ MDRoom(2)
    /\ mdDriving' = TRUE
    /\ StopWith(<<Driving(mdRobot, mdGeneration + 1)>>)
    /\ UNCHANGED <<mdContext, mdLast>>

\* Button or key released, focus lost, tab hidden, space bar.
MDRelease ==
    /\ mdMounted /\ MDRoom(1)
    /\ mdDriving' = FALSE /\ StopWith(<<>>)
    /\ UNCHANGED <<mdContext, mdLast>>

\* Seeded fault: a loop goes on as long as anything is held.
Continues_AnyHold(request) == request.kind = "drive" /\ mdDriving

\* A repeat goes on only while its own hold lasts.
Continues(request) ==
    request.kind = "drive" /\ mdDriving /\ request.gen = mdGeneration

\* The request in flight is answered, or fails: the chain goes on either way.
MDSettle ==
    /\ mdQueue # <<>> /\ mdQueue' = Tail(mdQueue)
    /\ mdLast' = [mdLast EXCEPT ![Head(mdQueue).robot] = Head(mdQueue).kind]
    /\ mdTimer' = IF Continues(Head(mdQueue))
                  THEN [robot |-> Head(mdQueue).robot, gen |-> Head(mdQueue).gen]
                  ELSE mdTimer
    /\ UNCHANGED <<mdContext, mdDriving, mdGeneration>>

MDRepeat ==
    /\ mdTimer # NoTimer /\ Len(mdQueue) < MaxQueue
    /\ mdTimer' = NoTimer
    /\ mdQueue' = Append(mdQueue, Driving(mdTimer.robot, mdTimer.gen))
    /\ UNCHANGED <<mdContext, mdDriving, mdGeneration, mdLast>>

\* The operator selects another robot, or a delivery starts or ends.
MDSelect(r) ==
    /\ mdMounted /\ mdSelected' = r
    /\ UNCHANGED <<mdMounted, mdBusy, mdRobot, mdLocked, mdDriving, mdGeneration,
                   mdTimer, mdQueue, mdLast>>

MDTask ==
    /\ mdMounted /\ mdBusy' = ~mdBusy
    /\ UNCHANGED <<mdMounted, mdSelected, mdRobot, mdLocked, mdDriving,
                   mdGeneration, mdTimer, mdQueue, mdLast>>

\* New callbacks: the old effect is cleaned up with the old stop.
MDCommit ==
    /\ mdMounted /\ <<mdRobot, mdLocked>> # <<mdSelected, mdBusy>> /\ MDRoom(1)
    /\ mdRobot' = mdSelected /\ mdLocked' = mdBusy
    /\ mdDriving' = FALSE /\ StopWith(<<>>)
    /\ UNCHANGED <<mdMounted, mdSelected, mdBusy, mdLast>>

MDLeave ==
    /\ mdMounted /\ MDRoom(1) /\ mdMounted' = FALSE
    /\ mdDriving' = FALSE /\ StopWith(<<>>)
    /\ UNCHANGED <<mdSelected, mdBusy, mdRobot, mdLocked, mdLast>>

MDInit ==
    /\ mdMounted = TRUE /\ mdSelected \in Robots /\ mdRobot = mdSelected
    /\ mdBusy = FALSE /\ mdLocked = FALSE /\ mdDriving = FALSE
    /\ mdGeneration = 0 /\ mdTimer = NoTimer /\ mdQueue = <<>>
    /\ mdLast = [r \in Robots |-> "stop"]

MDNext ==
    \/ MDPress \/ MDRelease \/ MDSettle \/ MDRepeat \/ MDTask \/ MDCommit \/ MDLeave
    \/ \E r \in Robots : MDSelect(r)

MDSpec == MDInit /\ [][MDNext]_mdVars

-----------------------------------------------------------------------------
MDType ==
    /\ {mdMounted, mdBusy, mdLocked, mdDriving} \subseteq BOOLEAN
    /\ mdSelected \in Robots /\ mdRobot \in Robots /\ mdGeneration \in Nat
    /\ mdTimer \in [robot: Robots, gen: Nat] \cup {NoTimer}
    /\ mdQueue \in Seq([robot: Robots, kind: {"stop", "drive"}, gen: Nat])
    /\ mdLast \in [Robots -> {"stop", "drive"}]

HeldOn(r, g) == mdDriving /\ mdRobot = r /\ mdGeneration = g
StoppedAfter(i, r) ==
    \E j \in (i + 1)..Len(mdQueue) : mdQueue[j].kind = "stop" /\ mdQueue[j].robot = r

\* No robot is left driving: behind every motion request that the present hold
\* does not own waits a stop for the same robot, also when the selection, a
\* delivery or leaving the page ended the hold while a request was out
\* (lines 27-79).
MotionEndsWithStop ==
    /\ \A i \in 1..Len(mdQueue) : mdQueue[i].kind = "drive" =>
         HeldOn(mdQueue[i].robot, mdQueue[i].gen) \/ StoppedAfter(i, mdQueue[i].robot)
    /\ \A r \in Robots : mdLast[r] = "drive" =>
         (mdDriving /\ mdRobot = r) \/ StoppedAfter(0, r)
    /\ mdTimer # NoTimer => HeldOn(mdTimer.robot, mdTimer.gen)
=============================================================================
