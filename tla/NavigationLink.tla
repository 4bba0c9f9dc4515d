--------------------------- MODULE NavigationLink ---------------------------
(***************************************************************************)
(* FleetMission with the link of one robot: how a mission under way        *)
(* becomes a navigation command with an identity, how the command and its  *)
(* result travel over a socket that may die, and how a result is accepted  *)
(* (build_navigation_command, command_dispatch.py, navigation_path_store,  *)
(* the result handlers of robot_ws.py).  Mapping sessions, which exclude    *)
(* deliveries, are left to FleetMission.                                   *)
(*                                                                         *)
(* Every handler here is FleetMission's together with what it does to the  *)
(* commands.  The Agent is external: it runs a command identity once, as   *)
(* the protocol asks, and reports a result until it is acknowledged.       *)
(***************************************************************************)
EXTENDS FleetMission, Sequences

CONSTANTS
  Bot,          \* the robot whose link this is
  MaxCommands,  \* bound: identities ever drawn
  MaxInFlight   \* bound: messages on the socket in one direction

ASSUME LinkAssumption == Robots = {Bot} /\ MaxCommands \in Nat /\ MaxInFlight \in Nat

(* A mission is driven in two legs; command ids are "task:stage:uuid".     *)
LegOf == [GOING_TO_PICKUP |-> "pickup", DELIVERING |-> "destination"]
HasLeg(s) == s \in DOMAIN LegOf

Stages == {"pickup", "destination"}
Identities == [task : Tasks, stage : Stages, n : 1 .. MaxCommands]
NoCommand == [task |-> NoTask, stage |-> "none", n |-> 0]

VARIABLES
  command,    \* command[t]: navigation_command_id and _stage of the row
  store,      \* navigation_path_store's command for the robot, in memory
  receipts,   \* ids with the outcome stored with their transition
  issued,     \* the last identity drawn
  sends,      \* commands built by a request, sent after its response
  clearing,   \* an offline request has committed, and not cleared the store
  setup,      \* the connection is being set up, nothing resent yet
  toRobot,    \* messages on the socket
  toBackend,
  goals,      \* Agent: commands it is running
  seen,       \* Agent: commands it has accepted
  outbox,     \* Agent: results not yet acknowledged
  since,      \* history: since[t], identities drawn before t's last retry
  torn        \* history: a retry fell between an offline request's commit
              \* and its clearing of the store

memoryVars  == <<store, sends, clearing, setup>>
channelVars == <<toRobot, toBackend>>
agentVars   == <<goals, seen, outbox>>
historyVars == <<since, torn>>
commandVars == <<command, receipts, issued>>
driveVars   == <<commandVars, memoryVars, channelVars, agentVars, historyVars>>
allVars     == <<vars, driveVars>>

LinkInit ==
  /\ Init
  /\ command = [t \in Tasks |-> NoCommand]
  /\ store = NoCommand /\ receipts = {} /\ issued = 0
  /\ sends = {} /\ clearing = FALSE /\ setup = FALSE
  /\ toRobot = <<>> /\ toBackend = <<>>
  /\ goals = {} /\ seen = {} /\ outbox = {}
  /\ since = [t \in Tasks |-> 0] /\ torn = FALSE

-----------------------------------------------------------------------------
(* Building a command, after the handler's commit.                         *)

(* The first mission under way, or none.                                   *)
FirstActive(st) ==
  LET active == ActiveOn(st, assigned, Bot)
  IN IF active = {} THEN NoTask ELSE CHOOSE t \in active : \A u \in active : t <= u

Buildable(t) == t # NoTask /\ HasLeg(status'[t]) /\ ~latched'[Bot]

(* Seeded fault: the identity stored with the task is not consulted.       *)
Identity_Forgetful(t, cmd, mem) ==
  LET leg == LegOf[status'[t]]
  IN IF mem.task = t /\ mem.stage = leg THEN mem
     ELSE [task |-> t, stage |-> leg, n |-> issued + 1]

(* The command in memory for this very leg, or the one the row remembers,   *)
(* or a new one.                                                            *)
Identity(t, cmd, mem) ==
  LET leg == LegOf[status'[t]]
  IN IF mem.task = t /\ mem.stage = leg THEN mem
     ELSE IF cmd[t].stage = leg THEN cmd[t]
     ELSE [task |-> t, stage |-> leg, n |-> issued + 1]

Build(t, cmd, mem) ==
  IF Buildable(t)
  THEN LET id == Identity(t, cmd, mem)
       IN /\ issued' = IF id.n > issued THEN id.n ELSE issued
          /\ command' = [cmd EXCEPT ![t] = id] /\ store' = id
  ELSE command' = cmd /\ store' = mem /\ UNCHANGED issued

Navigate(id) == [kind |-> "navigate", id |-> id]
Cancel(t)    == [kind |-> "cancel", id |-> [NoCommand EXCEPT !.task = t]]
Received(id) == [kind |-> "received", id |-> id]

(* What was built for t, to be sent.                                       *)
Orders(t) == IF Buildable(t) THEN <<Navigate(store')>> ELSE <<>>

(* Sent on the socket, or lost with it; should the send raise, the loop     *)
(* ends one step later (LoseSocket).                                        *)
Send(messages) ==
  \/ /\ Bot \in connected' /\ Len(toRobot) + Len(messages) <= MaxInFlight
     /\ toRobot' = toRobot \o messages
  \/ Bot \notin connected' /\ UNCHANGED toRobot

Later(messages) == sends' = sends \cup {messages[i] : i \in DOMAIN messages}

-----------------------------------------------------------------------------
(* Requests.                                                               *)

RequestKeeps == UNCHANGED <<receipts, clearing, setup, channelVars, agentVars>>

(* Bound: identities suffice for those drawn and for the pickup legs to come.*)
Spare ==
  issued' + Cardinality({t \in Tasks : /\ status'[t] \in {"QUEUED", "GOING_TO_PICKUP"}
                                       /\ command'[t] = NoCommand}) <= MaxCommands

Create(t, p) ==
  /\ CreateTask(t, Bot, p)
  /\ Build(t, command, store) /\ Later(Orders(t)) /\ Spare
  /\ RequestKeeps /\ UNCHANGED historyVars

Confirm(t, tr) ==
  /\ tr.event \in OperatorEvents /\ ApplyTaskEvent(t, tr)
  /\ LET next == IF tr.to = "COMPLETED" THEN FirstActive(status') ELSE t
     IN Build(next, command, store) /\ Later(Orders(next)) /\ Spare
  /\ RequestKeeps /\ UNCHANGED historyVars

(* The path is cleared; the command stays, for the cancelled goal runs on.  *)
RequestCancel(t) ==
  /\ CancelTask(t)
  /\ Later(IF current[Bot] = t THEN <<Cancel(t)>> ELSE <<>>)
  /\ RequestKeeps /\ UNCHANGED <<command, store, issued, historyVars>>

Retry(t) ==
  /\ RetryTask(t)
  /\ Build(t, [command EXCEPT ![t] = NoCommand], store) /\ Later(Orders(t)) /\ Spare
  /\ since' = [since EXCEPT ![t] = issued]
  /\ torn' = (torn \/ clearing)
  /\ RequestKeeps

(* The request commits on a thread, whether or not the robot was offline    *)
(* already, and clears the store afterwards.  Bound: one at a time.         *)
MarkOffline ==
  /\ ~clearing /\ clearing' = TRUE
  /\ SetRobotOffline(Bot) \/ (~online[Bot] /\ state[Bot] = "OFFLINE" /\ UNCHANGED vars)
  /\ UNCHANGED <<commandVars, store, sends, setup, channelVars, agentVars, historyVars>>

ClearAfterOffline ==
  /\ clearing /\ clearing' = FALSE /\ store' = NoCommand
  /\ UNCHANGED <<vars, commandVars, sends, setup, channelVars, agentVars, historyVars>>

(* Seeded fault: stopping the robot leaves its command in memory.           *)
StoreAfterStop_Kept == store
StoreAfterStop == NoCommand

Stop ==
  /\ ActivateEmergencyStop(Bot) /\ store' = StoreAfterStop
  /\ UNCHANGED <<commandVars, sends, clearing, setup, channelVars, agentVars, historyVars>>

(* Requests and messages that build no command, even where they dispatch.   *)
Elsewhere ==
  /\ \/ \E t \in Tasks, p \in Priorities \cup {"KEEP"}, d \in {"UP", "DOWN", "NONE"} :
          UpdateQueuedTask(t, p, d)
     \/ SetRobotOnline(Bot) \/ RecoverRobot(Bot) \/ AcknowledgeReset(Bot)
     \/ \E s \in {"NOT_READY", "READY"} : ReportReadiness(Bot, s)
  /\ UNCHANGED driveVars

(* A command built earlier goes out, whatever has happened meanwhile.       *)
SendLater(m) ==
  /\ m \in sends /\ sends' = sends \ {m}
  /\ UNCHANGED vars /\ Send(<<m>>)
  /\ UNCHANGED <<commandVars, store, clearing, setup, toBackend, agentVars, historyVars>>

-----------------------------------------------------------------------------
(* The socket.                                                             *)

Reconnect ==
  /\ Connect(Bot) /\ setup' = TRUE
  /\ toRobot' = <<>> /\ (toBackend' = <<>> \/ (Bot \notin connected /\ UNCHANGED toBackend))
  /\ UNCHANGED <<commandVars, store, sends, clearing, agentVars, historyVars>>

(* Seeded fault: a reconnecting Agent is expected to know its command.      *)
Resent_Nothing(t) == <<>>
Resent(t) == Orders(t)

(* The row decides what the Agent hears first: the emergency command, the   *)
(* cancellation it has not confirmed, or its mission's command once more.   *)
Resend ==
  /\ setup /\ setup' = FALSE
  /\ UNCHANGED vars
  /\ LET t == FirstActive(status)
     IN \/ /\ ~latched[Bot] /\ ToConfirm(current[Bot])
           /\ Send(<<Cancel(current[Bot])>>)
           /\ UNCHANGED <<command, store, issued>>
        \/ /\ latched[Bot] \/ ~ToConfirm(current[Bot])
           /\ Build(t, command, store) /\ Send(Resent(t))
  /\ UNCHANGED <<receipts, sends, clearing, toBackend, agentVars, historyVars>>

LoseSocket ==
  /\ \/ /\ Disconnect(Bot) /\ toBackend' = <<>>
     \/ SendFails(Bot) /\ UNCHANGED toBackend
     \/ Revoke(Bot) /\ toBackend' = <<>>
  /\ setup' = FALSE /\ toRobot' = <<>>
  /\ UNCHANGED <<commandVars, store, sends, clearing, agentVars, historyVars>>

RestartBackend ==
  /\ Restart
  /\ store' = NoCommand /\ sends' = {} /\ clearing' = FALSE /\ setup' = FALSE
  /\ toRobot' = <<>> /\ toBackend' = <<>>
  /\ UNCHANGED <<commandVars, agentVars, historyVars>>

-----------------------------------------------------------------------------
(* The receive loop: one message at a time, once the setup is over.        *)

Receipt(id, outcome) == [id |-> id, outcome |-> outcome]
Answered(id) == \E p \in receipts : p.id = id

(* Seeded fault: any command of the current leg will do.                   *)
Associated_AnyCommand(id) ==
  /\ current[Bot] = id.task /\ HasLeg(status[id.task])
  /\ LegOf[status[id.task]] = id.stage

(* navigation_association_error finds nothing wrong with the result.       *)
Associated(id) ==
  /\ current[Bot] = id.task /\ HasLeg(status[id.task])
  /\ LegOf[status[id.task]] = id.stage
  /\ store = id

(* Seeded fault: a result that was applied is refused when it comes again.  *)
Replays_Never(p) == FALSE
Replays(p) == p \in receipts

EventOf(id, outcome) ==
  IF outcome # "succeeded" THEN "NAVIGATION_FAILED"
  ELSE IF id.stage = "pickup" THEN "ARRIVED_PICKUP" ELSE "ARRIVED_DESTINATION"

(* The transition with its receipt; then the robot's command is cleared.   *)
Apply(id, outcome) ==
  /\ \E tr \in Transitions : tr.event = EventOf(id, outcome) /\ ApplyTaskEvent(id.task, tr)
  /\ receipts' = receipts \cup {Receipt(id, outcome)}

ReceiveResult(id, outcome) ==
  \/ /\ Replays(Receipt(id, outcome))
     /\ UNCHANGED vars /\ Send(<<Received(id)>>)
     /\ UNCHANGED <<commandVars, store>>
  \/ /\ ~Answered(id) /\ Associated(id) /\ online[Bot]
     /\ Apply(id, outcome)
     /\ LET next == IF outcome = "succeeded" THEN NoTask ELSE FirstActive(status')
        IN Build(next, command, NoCommand) /\ Send(<<Received(id)>> \o Orders(next))
  \/ /\ ~Replays(Receipt(id, outcome)) /\ (Answered(id) \/ ~(Associated(id) /\ online[Bot]))
     /\ UNCHANGED <<vars, commandVars, store, toRobot>>

(* A rejected command fails its mission; no command follows, even when the  *)
(* next delivery is dispatched.  An error ends the receive loop.            *)
ReceiveRejection(id) ==
  LET t == FirstActive(status)
      fails == ~Answered(id) /\ t # NoTask /\ t = id.task /\ command[t] = id
  IN \/ ~fails /\ UNCHANGED <<vars, commandVars, store, toRobot, setup>>
     \/ /\ fails /\ current[Bot] = t /\ online[Bot]
        /\ Apply(id, "rejected") /\ store' = NoCommand
        /\ UNCHANGED <<command, issued, toRobot, setup>>
     \/ /\ fails /\ ~(current[Bot] = t /\ online[Bot])
        /\ Disconnect(Bot) /\ setup' = FALSE /\ toRobot' = <<>>
        /\ UNCHANGED <<commandVars, store>>

ReceiveCancelled(t) ==
  \/ /\ FinalizeNavigationCancel(t, Bot)
     /\ LET next == FirstActive(status')
        IN Build(next, command, NoCommand) /\ Send(Orders(next))
     /\ UNCHANGED receipts
  \/ /\ ~(status[t] = "CANCELLED" /\ current[Bot] = t)
     /\ UNCHANGED <<vars, commandVars, store, toRobot>>

Receive ==
  /\ toBackend # <<>> /\ ~setup /\ Bot \in open
  /\ LET m == Head(toBackend)
     IN \/ m.kind = "result" /\ ReceiveResult(m.id, m.outcome) /\ UNCHANGED setup
        \/ m.kind = "rejected" /\ ReceiveRejection(m.id)
        \/ m.kind = "cancelled" /\ ReceiveCancelled(m.id.task) /\ UNCHANGED setup
  /\ toBackend' = IF Bot \in open' THEN Tail(toBackend) ELSE <<>>
  /\ UNCHANGED <<sends, clearing, agentVars, historyVars>>

-----------------------------------------------------------------------------
(* The Agent (external).                                                   *)

Tell(kind, id, outcome) ==
  /\ Len(toBackend) < MaxInFlight
  /\ toBackend' = Append(toBackend, [kind |-> kind, id |-> id, outcome |-> outcome])

(* It runs a new command or rejects it, and only acknowledges one it knows; *)
(* it drops a cancelled task's commands, or fails to; it forgets a result   *)
(* that was received.                                                       *)
AgentTakes ==
  /\ toRobot # <<>> /\ toRobot' = Tail(toRobot)
  /\ LET m == Head(toRobot)
     IN \/ /\ m.kind = "navigate" /\ m.id \in seen
           /\ UNCHANGED <<toBackend, agentVars>>
        \/ /\ m.kind = "navigate" /\ m.id \notin seen
           /\ \/ goals' = goals \cup {m.id} /\ seen' = seen \cup {m.id} /\ UNCHANGED toBackend
              \/ Tell("rejected", m.id, "rejected") /\ UNCHANGED <<goals, seen>>
           /\ UNCHANGED outbox
        \/ /\ m.kind = "cancel"
           /\ \/ /\ Tell("cancelled", m.id, "cancelled")
                 /\ goals' = {g \in goals : g.task # m.id.task}
              \/ UNCHANGED <<toBackend, goals>>
           /\ UNCHANGED <<seen, outbox>>
        \/ /\ m.kind = "received" /\ outbox' = {p \in outbox : p.id # m.id}
           /\ UNCHANGED <<toBackend, goals, seen>>
  /\ UNCHANGED <<vars, commandVars, memoryVars, historyVars>>

AgentFinishes(id, outcome) ==
  /\ id \in goals /\ goals' = goals \ {id}
  /\ outbox' = outbox \cup {Receipt(id, outcome)}
  /\ UNCHANGED <<vars, commandVars, memoryVars, channelVars, seen, historyVars>>

AgentReports(p) ==
  /\ p \in outbox /\ Bot \in open
  /\ \A i \in DOMAIN toBackend : toBackend[i].id # p.id
  /\ Tell("result", p.id, p.outcome)
  /\ UNCHANGED <<vars, commandVars, memoryVars, toRobot, agentVars, historyVars>>

(* A stopped Agent drops its goals; one that lost power forgets everything. *)
AgentStops ==
  /\ latched[Bot] /\ goals' = {}
  /\ UNCHANGED <<vars, commandVars, memoryVars, channelVars, seen, outbox, historyVars>>

AgentRestarts ==
  /\ Bot \notin open /\ goals' = {} /\ seen' = {} /\ outbox' = {}
  /\ UNCHANGED <<vars, commandVars, memoryVars, channelVars, historyVars>>

-----------------------------------------------------------------------------
Outcomes == {"succeeded", "failed"}

LinkNext ==
  \/ \E t \in Tasks : \/ \E p \in Priorities : Create(t, p)
                      \/ \E tr \in Transitions : Confirm(t, tr)
                      \/ RequestCancel(t) \/ Retry(t)
  \/ MarkOffline \/ ClearAfterOffline \/ Stop \/ Elsewhere
  \/ \E m \in sends : SendLater(m)
  \/ Reconnect \/ Resend \/ LoseSocket \/ RestartBackend \/ Receive
  \/ AgentTakes \/ AgentStops \/ AgentRestarts
  \/ \E id \in goals, outcome \in Outcomes : AgentFinishes(id, outcome)
  \/ \E p \in outbox : AgentReports(p)

LinkSpec == LinkInit /\ [][LinkNext]_allVars

(* The event loop resumes what it has to do; the Agent reads its socket,    *)
(* ends its goals and takes turns reporting what is not acknowledged.       *)
Fairness ==
  /\ WF_allVars(Receive) /\ WF_allVars(Resend) /\ WF_allVars(ClearAfterOffline)
  /\ WF_allVars(\E m \in sends : SendLater(m))
  /\ WF_allVars(AgentTakes)
  /\ WF_allVars(\E id \in goals, outcome \in Outcomes : AgentFinishes(id, outcome))
  /\ \A n \in 1 .. MaxCommands :
       SF_allVars(\E p \in outbox : p.id.n = n /\ AgentReports(p))

FairLinkSpec == LinkSpec /\ Fairness

-----------------------------------------------------------------------------
(* Safety.                                                                 *)

(* A leg that is under way has one identity, whatever was resent, lost or   *)
(* restarted in between: the Agent is never given a second command for it,  *)
(* which it would drive once more.                                          *)
OneIdentityPerLeg ==
  \A a, b \in seen \cup {toRobot[i].id : i \in {j \in DOMAIN toRobot : toRobot[j].kind = "navigate"}} :
    a.task = b.task /\ a.stage = b.stage /\ a.n > since[a.task] /\ b.n > since[b.task]
      => a = b

(* The identity a row remembers belongs to its present attempt, and memory  *)
(* never disagrees with the row about the leg under way: what the Agent is  *)
(* told to drive is what its result is checked against.  An offline request *)
(* overtaken by a retry is the exception.                                   *)
IdentityCoherent ==
  ~torn => \A t \in Tasks :
    /\ command[t] # NoCommand => command[t].n > since[t]
    /\ HasLeg(status[t]) /\ store.task = t /\ store.stage = LegOf[status[t]] =>
         store = command[t]

-----------------------------------------------------------------------------
(* What a step may never do.                                               *)

(* A mission reaches its station only by a result recorded in the same      *)
(* transaction, for that task and leg, by a command of the present attempt: *)
(* a late result of an attempt that failed moves nothing.                   *)
EarnedAdvance ==
  [][\A t \in Tasks :
       HasLeg(status[t]) /\ status'[t] \in {"WAITING_FOR_LOADING", "WAITING_FOR_UNLOADING"} =>
         \E p \in receipts' \ receipts :
           /\ p.id.task = t /\ p.id.stage = LegOf[status[t]] /\ p.outcome = "succeeded"
           /\ p.id.n > since[t] \/ torn]_allVars

-----------------------------------------------------------------------------
(* Liveness.                                                               *)

LinkHolds == <>[](Bot \in connected /\ ~setup)

(* A result that was applied is acknowledged in the end, although the first *)
(* acknowledgement may be lost with its socket or with the control plane.   *)
AckedInTheEnd ==
  LinkHolds => \A n \in 1 .. MaxCommands :
    (\E p \in outbox \cap receipts : p.id.n = n) ~> ~(\E p \in outbox \cap receipts : p.id.n = n)

(* The robot's mission has a leg to drive and a command for it.            *)
Driven(t) ==
  /\ current[Bot] = t /\ HasLeg(status[t])
  /\ command[t] # NoCommand /\ command[t].stage = LegOf[status[t]]

(* Once the link holds, a mission that was given a command leaves its leg,  *)
(* if no operator has marked the robot offline: the request that does may   *)
(* clear the command of a mission that was given afterwards.                *)
DrivenLegEnds ==
  LinkHolds /\ []~clearing => \A t \in Tasks : Driven(t) ~> ~Driven(t)
=============================================================================
