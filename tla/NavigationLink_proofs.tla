------------------------ MODULE NavigationLink_proofs ------------------------
(***************************************************************************)
(* NavigationLink for every number of deliveries, commands and messages:   *)
(* its missions are FleetMission's, so that what is proved of those holds  *)
(* of the link; identities stay coherent, one for each leg; and a mission  *)
(* advances only by a result of its present attempt.                       *)
(***************************************************************************)
EXTENDS NavigationLink, FleetMission_proofs

(* Identities without the bound on how many are drawn.                     *)
Ids == [task : Tasks, stage : Stages, n : Nat]

Heard == [kind : {"navigate", "received"}, id : Ids] \cup {Cancel(t) : t \in Tasks}
Said  == [kind : {"result", "rejected"}, id : Ids, outcome : Outcomes \cup {"rejected"}]
         \cup [kind : {"cancelled"}, id : {Cancel(t).id : t \in Tasks}, outcome : {"cancelled"}]

(* What travels was built by the backend or answers it.                    *)
Traffic ==
  /\ sends \subseteq Heard /\ toRobot \in Seq(Heard) /\ toBackend \in Seq(Said)
  /\ goals \subseteq Ids /\ outbox \subseteq [id : Ids, outcome : Outcomes]

OwnCommands(cmd) ==
  /\ cmd \in [Tasks -> Ids \cup {NoCommand}]
  /\ \A t \in Tasks : cmd[t] # NoCommand => cmd[t].task = t

DrawnBefore(hist, k) == hist \in [Tasks -> Nat] /\ \A t \in Tasks : hist[t] <= k

Books ==
  /\ OwnCommands(command) /\ store \in Ids \cup {NoCommand}
  /\ issued \in Nat /\ DrawnBefore(since, issued)
  /\ torn \in BOOLEAN /\ clearing \in BOOLEAN

(* Commands belong to the present attempt, and memory follows the rows.    *)
Agree(cmd, mem, hist) ==
  /\ \A t \in Tasks : cmd[t] # NoCommand => cmd[t].n > hist[t]
  /\ mem # NoCommand => mem = cmd[mem.task]

(* A failed mission's command is out of memory, or about to be.            *)
Released == store # NoCommand /\ status[store.task] = "FAILED" => clearing

LinkInv == Books /\ Traffic /\ (~torn => Agree(command, store, since) /\ Released)

-----------------------------------------------------------------------------
(* Sequences of messages.                                                  *)

LEMMA HeadTail ==
  ASSUME NEW S, NEW s \in Seq(S), s # <<>>
  PROVE  Head(s) \in S /\ Tail(s) \in Seq(S)
  OBVIOUS

LEMMA Grows ==
  ASSUME NEW S, NEW s \in Seq(S), NEW ms \in Seq(S)
  PROVE  s \o ms \in Seq(S)
  OBVIOUS

LEMMA SendHeard ==
  ASSUME toRobot \in Seq(Heard), NEW ms \in Seq(Heard), Send(ms)
  PROVE  toRobot' \in Seq(Heard)
  BY Grows DEF Send

LEMMA LaterHeard ==
  ASSUME sends \subseteq Heard, NEW ms \in Seq(Heard), Later(ms)
  PROVE  sends' \subseteq Heard
<1>1. \A i \in DOMAIN ms : ms[i] \in Heard
  OBVIOUS
<1>. QED
  BY <1>1 DEF Later

-----------------------------------------------------------------------------
(* Building a command.                                                     *)

(* What is built has the leg under way, and is either remembered or new.   *)
LEMMA IdentityDrawn ==
  ASSUME NEW t \in Tasks, NEW cmd, NEW mem,
         OwnCommands(cmd), mem \in Ids \cup {NoCommand}, issued \in Nat,
         HasLeg(status'[t])
  PROVE  /\ Identity(t, cmd, mem) \in Ids /\ Identity(t, cmd, mem).task = t
         /\ \/ Identity(t, cmd, mem) = mem /\ mem # NoCommand /\ mem.task = t
            \/ Identity(t, cmd, mem) = cmd[t] /\ cmd[t] # NoCommand
            \/ Identity(t, cmd, mem).n = issued + 1
<1>. DEFINE leg == LegOf[status'[t]]
<1>1. leg \in Stages
  BY DEF HasLeg, LegOf, Stages
<1>2. leg # "none" /\ t # NoTask
  BY <1>1, NoTaskNotTask DEF Stages
<1>3. CASE mem.task = t /\ mem.stage = leg
  BY <1>2, <1>3 DEF Identity, NoCommand
<1>4. CASE ~(mem.task = t /\ mem.stage = leg) /\ cmd[t].stage = leg
  <2>1. cmd[t] # NoCommand
    BY <1>2, <1>4 DEF NoCommand
  <2>. QED
    BY <1>4, <2>1 DEF Identity, OwnCommands
<1>5. CASE ~(mem.task = t /\ mem.stage = leg) /\ cmd[t].stage # leg
  <2>1. Identity(t, cmd, mem) = [task |-> t, stage |-> leg, n |-> issued + 1]
    BY <1>5 DEF Identity
  <2>. QED
    BY <1>1, <2>1 DEF Ids
<1>. QED
  BY <1>3, <1>4, <1>5

LEMMA BuildKeeps ==
  ASSUME NEW t \in Tasks \cup {NoTask}, NEW cmd, NEW mem, NEW hist,
         OwnCommands(cmd), mem \in Ids \cup {NoCommand}, issued \in Nat,
         DrawnBefore(hist, issued),
         Build(t, cmd, mem)
  PROVE  /\ OwnCommands(command') /\ store' \in Ids \cup {NoCommand}
         /\ issued' \in Nat /\ issued <= issued' /\ DrawnBefore(hist, issued')
         /\ Orders(t) \in Seq(Heard)
         /\ Agree(cmd, mem, hist) => Agree(command', store', hist)
         /\ store' # mem => store' # NoCommand /\ HasLeg(status'[store'.task])
<1>1. CASE ~Buildable(t)
  <2>1. command' = cmd /\ store' = mem /\ issued' = issued /\ Orders(t) = <<>>
    BY <1>1 DEF Build, Orders
  <2>. QED
    BY <2>1 DEF DrawnBefore
<1>2. CASE Buildable(t)
  <2>. DEFINE id == Identity(t, cmd, mem)
  <2>1. t \in Tasks /\ HasLeg(status'[t])
    BY <1>2 DEF Buildable
  <2>2. /\ id \in Ids /\ id.task = t
        /\ \/ id = mem /\ mem # NoCommand /\ mem.task = t
           \/ id = cmd[t] /\ cmd[t] # NoCommand
           \/ id.n = issued + 1
    BY <2>1, IdentityDrawn
  <2>3. /\ issued' = IF id.n > issued THEN id.n ELSE issued
        /\ command' = [cmd EXCEPT ![t] = id] /\ store' = id
    BY <1>2 DEF Build
  <2>. HIDE DEF id
  <2>4. id.n \in Nat /\ id # NoCommand
    BY <2>2, NoTaskNotTask DEF Ids, NoCommand
  <2>5. OwnCommands(command')
    BY <2>1, <2>2, <2>3 DEF OwnCommands
  <2>6. issued' \in Nat /\ issued <= issued'
    BY <2>3, <2>4
  <2>7. DrawnBefore(hist, issued')
    BY <2>6 DEF DrawnBefore
  <2>8. Orders(t) \in Seq(Heard)
    <3>1. Navigate(store') \in Heard
      BY <2>2, <2>3 DEF Navigate, Heard
    <3>2. Orders(t) = <<Navigate(store')>>
      BY <1>2 DEF Orders
    <3>. QED
      BY <3>1, <3>2
  <2>9. ASSUME Agree(cmd, mem, hist)
        PROVE  Agree(command', store', hist)
    <3>1. command'[t] = id /\ \A u \in Tasks \ {t} : command'[u] = cmd[u]
      BY <2>1, <2>3 DEF OwnCommands
    <3>2. id.n > hist[t]
      <4>1. hist[t] \in Nat /\ hist[t] <= issued
        BY <2>1 DEF DrawnBefore
      <4>2. id.n = issued + 1 \/ (id = cmd[t] /\ cmd[t] # NoCommand)
        BY <2>2, <2>9 DEF Agree
      <4>. QED
        BY <2>1, <2>9, <4>1, <4>2 DEF Agree
    <3>. QED
      BY <2>1, <2>2, <2>3, <2>9, <3>1, <3>2 DEF Agree
  <2>10. store' # NoCommand /\ HasLeg(status'[store'.task])
    BY <2>1, <2>2, <2>3, <2>4
  <2>. QED
    BY <2>2, <2>3, <2>5, <2>6, <2>7, <2>8, <2>9, <2>10
<1>. QED
  BY <1>1, <1>2

-----------------------------------------------------------------------------
(* Which handlers fail a mission or let it arrive.                         *)

Marks == {"FAILED", "WAITING_FOR_LOADING", "WAITING_FOR_UNLOADING"}
NoMark == \A t \in Tasks : status'[t] \in Marks => status'[t] = status[t]

(* Whatever a handler dispatches, dispatching adds no mark.                *)
LEMMA DispatchMarks ==
  ASSUME NEW st, NEW asg, NEW pr, NEW ord, NEW onl, NEW rs, NEW cur, NEW r,
         st \in [Tasks -> TaskStatus \cup {"ABSENT"}],
         DispatchNext(st, asg, pr, ord, onl, rs, cur, r)
  PROVE  \A t \in Tasks : status'[t] \in Marks => status'[t] = st[t]
<1>1. CASE status' = st
  BY <1>1
<1>2. ASSUME NEW t \in QueueOf(st, asg, r), AssignTask(st, rs, cur, t, r)
      PROVE  \A u \in Tasks : status'[u] \in Marks => status'[u] = st[u]
  BY <1>2 DEF AssignTask, QueueOf, Marks
<1>. QED
  BY <1>1, <1>2 DEF DispatchNext

(* A step that gives or takes a robot without an event adds no mark.       *)
LEMMA ControlMarks ==
  ASSUME IInv, NEW r \in Robots, NEW t \in Tasks,
         \/ \E p \in Priorities : CreateTask(t, r, p)
         \/ RetryTask(t) \/ CancelTask(t) \/ FinalizeNavigationCancel(t, r)
         \/ SetRobotOnline(r) \/ RecoverRobot(r) \/ Connect(r)
  PROVE  NoMark
<1>1. status \in [Tasks -> TaskStatus \cup {"ABSENT"}]
  BY DEF IInv, Good, Rows
<1>2. \A u \in Tasks : [status EXCEPT ![u] = "QUEUED"] \in [Tasks -> TaskStatus \cup {"ABSENT"}]
  BY <1>1 DEF TaskStatus
<1>. DEFINE queued == [status EXCEPT ![t] = "QUEUED"]
<1>q. ASSUME \A u \in Tasks : status'[u] \in Marks => status'[u] = queued[u]
      PROVE  NoMark
  BY <1>1, <1>q DEF NoMark, Marks
<1>3. CASE \E p \in Priorities : CreateTask(t, r, p)
  <2>1. PICK p \in Priorities : CreateTask(t, r, p)
    BY <1>3
  <2>2. PICK m \in LastOrder(r) :
          DispatchNext(queued, [assigned EXCEPT ![t] = r], [priority EXCEPT ![t] = p],
                       [queueOrder EXCEPT ![t] = m + 1], online, state, current, r)
    BY <2>1 DEF CreateTask
  <2>. QED
    BY <1>2, <1>q, <2>2, DispatchMarks
<1>4. CASE RetryTask(t)
  <2>1. PICK rs, cur : DispatchNext(queued, assigned, priority, queueOrder, online,
                                    rs, cur, assigned[t])
    BY <1>4 DEF RetryTask
  <2>. QED
    BY <1>2, <1>q, <2>1, DispatchMarks
<1>5. CASE CancelTask(t)
  BY <1>1, <1>5 DEF CancelTask, NoMark, Marks
<1>6. CASE FinalizeNavigationCancel(t, r)
  BY <1>1, <1>6, DispatchMarks DEF FinalizeNavigationCancel, NoMark
<1>7. CASE SetRobotOnline(r)
  BY <1>1, <1>7, DispatchMarks DEF SetRobotOnline, NoMark
<1>8. CASE RecoverRobot(r)
  BY <1>1, <1>8, DispatchMarks DEF RecoverRobot, NoMark
<1>9. CASE Connect(r)
  BY <1>1, <1>9, DispatchMarks DEF Connect, NoMark
<1>. QED
  BY <1>3, <1>4, <1>5, <1>6, <1>7, <1>8, <1>9

(* An event marks its own delivery at most, with the state it leads to.    *)
LEMMA EventMarks ==
  ASSUME IInv, NEW t \in Tasks, NEW tr \in Transitions, ApplyTaskEvent(t, tr)
  PROVE  /\ status[t] = tr.from
         /\ \A u \in Tasks : status'[u] \in Marks =>
              status'[u] = status[u] \/ (u = t /\ status'[t] = tr.to)
<1>1. status \in [Tasks -> TaskStatus \cup {"ABSENT"}]
  BY DEF IInv, Good, Rows
<1>2. tr.to \in TaskStatus
  BY DEF Transitions, Transition, TaskStatus, ActiveStatuses, TerminalStatuses
<1>3. [status EXCEPT ![t] = tr.to] \in [Tasks -> TaskStatus \cup {"ABSENT"}]
  BY <1>1, <1>2
<1>4. \A u \in Tasks : status'[u] \in Marks => status'[u] = [status EXCEPT ![t] = tr.to][u]
  BY <1>3, DispatchMarks DEF ApplyTaskEvent
<1>. QED
  BY <1>1, <1>4 DEF ApplyTaskEvent

LEMMA OperatorMarks ==
  ASSUME IInv, NEW t \in Tasks, NEW tr \in Transitions, tr.event \in OperatorEvents,
         ApplyTaskEvent(t, tr)
  PROVE  NoMark
<1>1. tr.to \in {"DELIVERING", "COMPLETED"}
  BY DEF Transitions, Transition, OperatorEvents
<1>. QED
  BY <1>1, EventMarks DEF NoMark, Marks

(* Stopping the robot or marking it offline fails a mission, no more.      *)
LEMMA FailMarks ==
  ASSUME IInv, NEW r, FailMission(r)
  PROVE  \A t \in Tasks : status'[t] \in Marks => status'[t] \in {status[t], "FAILED"}
  BY DEF FailMission, IInv, Good, Rows

LEMMA ElsewhereMarks ==
  ASSUME IInv, Elsewhere
  PROVE  NoMark
<1>1. Bot \in Robots
  BY LinkAssumption
<1>2. CASE UNCHANGED status
  BY <1>2 DEF NoMark
<1>3. CASE SetRobotOnline(Bot) \/ RecoverRobot(Bot)
  <2>1. CASE Tasks = {}
    BY <2>1 DEF NoMark
  <2>2. CASE \E t \in Tasks : TRUE
    BY <1>1, <1>3, <2>2, ControlMarks
  <2>. QED
    BY <2>1, <2>2
<1>4. CASE \E t \in Tasks, p \in Priorities \cup {"KEEP"}, d \in {"UP", "DOWN", "NONE"} :
             UpdateQueuedTask(t, p, d)
  BY <1>2, <1>4 DEF UpdateQueuedTask
<1>5. CASE AcknowledgeReset(Bot) \/ \E s \in {"NOT_READY", "READY"} : ReportReadiness(Bot, s)
  BY <1>2, <1>5 DEF AcknowledgeReset, ReportReadiness, taskVars
<1>. QED
  BY <1>3, <1>4, <1>5 DEF Elsewhere

-----------------------------------------------------------------------------
(* The invariant, handler by handler.                                      *)

LEMMA FirstActiveTask ==
  ASSUME NEW st, \A t, u \in ActiveOn(st, assigned, Bot) : t = u
  PROVE  FirstActive(st) \in Tasks \cup {NoTask}
<1>. DEFINE active == ActiveOn(st, assigned, Bot)
<1>1. CASE active = {}
  BY <1>1 DEF FirstActive
<1>2. CASE \E t \in active : TRUE
  <2>1. PICK t \in active : TRUE
    BY <1>2
  <2>2. t \in Tasks /\ t <= t
    BY <2>1 DEF ActiveOn, Tasks
  <2>3. \E v \in active : \A u \in active : v <= u
    BY <2>1, <2>2
  <2>4. FirstActive(st) \in active
    BY <1>2, <2>3 DEF FirstActive
  <2>. QED
    BY <2>4 DEF ActiveOn
<1>. QED
  BY <1>1, <1>2

(* One mission under way at most, before and after the step.               *)
LEMMA ActiveNow ==
  ASSUME IInv
  PROVE  FirstActive(status) \in Tasks \cup {NoTask}
<1>1. \A t, u \in ActiveOn(status, assigned, Bot) : t = u
  BY DEF IInv, Good, OneActive, ActiveOn
<1>. QED
  BY <1>1, FirstActiveTask

LEMMA ActiveNext ==
  ASSUME IInv', assigned' = assigned
  PROVE  FirstActive(status') \in Tasks \cup {NoTask}
<1>1. \A t, u \in ActiveOn(status', assigned, Bot) : t = u
  BY DEF IInv, Good, OneActive, ActiveOn
<1>. QED
  BY <1>1, FirstActiveTask

LEMMA ReleasedStays ==
  ASSUME store \in Ids \cup {NoCommand}, Released, NoMark, clearing => clearing',
         \/ store' \in {store, NoCommand}
         \/ HasLeg(status'[store'.task])
  PROVE  Released'
<1>1. CASE store' = store /\ store # NoCommand
  <2>1. store.task \in Tasks
    BY <1>1 DEF Ids
  <2>. QED
    BY <1>1, <2>1 DEF Released, NoMark, Marks
<1>2. CASE store' = NoCommand
  BY <1>2 DEF Released
<1>3. CASE HasLeg(status'[store'.task])
  BY <1>3 DEF Released, HasLeg, LegOf
<1>. QED
  BY <1>1, <1>2, <1>3

(* A request that builds a command for t, and leaves it to be sent.        *)
LEMMA RequestOK ==
  ASSUME LinkInv, NEW t \in Tasks \cup {NoTask},
         Build(t, command, store), Later(Orders(t)), RequestKeeps,
         UNCHANGED historyVars, NoMark
  PROVE  LinkInv'
<1>1. /\ OwnCommands(command') /\ store' \in Ids \cup {NoCommand}
      /\ issued' \in Nat /\ issued <= issued' /\ DrawnBefore(since, issued')
      /\ Orders(t) \in Seq(Heard)
      /\ Agree(command, store, since) => Agree(command', store', since)
      /\ store' # store => store' # NoCommand /\ HasLeg(status'[store'.task])
  BY BuildKeeps DEF LinkInv, Books
<1>2. Books'
  BY <1>1 DEF LinkInv, Books, RequestKeeps, historyVars
<1>3. Traffic'
  BY <1>1, LaterHeard DEF LinkInv, Traffic, RequestKeeps, channelVars, agentVars
<1>4. ASSUME ~torn'
      PROVE  Agree(command', store', since') /\ Released'
  BY <1>1, <1>4, ReleasedStays DEF LinkInv, Books, RequestKeeps, historyVars
<1>. QED
  BY <1>2, <1>3, <1>4 DEF LinkInv

LEMMA CreateOK ==
  ASSUME LinkInv, IInv, NEW t \in Tasks, NEW p \in Priorities, Create(t, p)
  PROVE  LinkInv' /\ NoMark
<1>1. NoMark
  BY ControlMarks, LinkAssumption DEF Create
<1>. QED
  BY <1>1, RequestOK DEF Create

LEMMA ConfirmOK ==
  ASSUME LinkInv, IInv, IInv', NEW t \in Tasks, NEW tr \in Transitions, Confirm(t, tr)
  PROVE  LinkInv' /\ NoMark
<1>1. NoMark
  BY OperatorMarks DEF Confirm
<1>2. assigned' = assigned
  BY DEF Confirm, ApplyTaskEvent
<1>. DEFINE next == IF tr.to = "COMPLETED" THEN FirstActive(status') ELSE t
<1>3. next \in Tasks \cup {NoTask}
  BY <1>2, ActiveNext
<1>4. Build(next, command, store) /\ Later(Orders(next))
  BY DEF Confirm
<1>. HIDE DEF next
<1>. QED
  BY <1>1, <1>3, <1>4, RequestOK DEF Confirm

LEMMA RequestCancelOK ==
  ASSUME LinkInv, IInv, NEW t \in Tasks, RequestCancel(t)
  PROVE  LinkInv' /\ NoMark
<1>1. NoMark
  BY ControlMarks, LinkAssumption DEF RequestCancel
<1>. DEFINE ms == IF current[Bot] = t THEN <<Cancel(t)>> ELSE <<>>
<1>2. ms \in Seq(Heard)
  BY DEF Heard
<1>3. sends' \subseteq Heard
  BY <1>2, LaterHeard DEF RequestCancel, LinkInv, Traffic
<1>4. Books' /\ Traffic'
  BY <1>3 DEF RequestCancel, RequestKeeps, LinkInv, Books, Traffic, channelVars, agentVars, historyVars
<1>5. ASSUME ~torn'
      PROVE  Agree(command', store', since') /\ Released'
  BY <1>1, <1>5, ReleasedStays DEF RequestCancel, RequestKeeps, LinkInv, Books, historyVars
<1>. QED
  BY <1>1, <1>4, <1>5 DEF LinkInv

(* A retried mission's old command is forgotten with its row: memory holds  *)
(* none of it, unless an offline request is still to clear it.              *)
LEMMA RetryOK ==
  ASSUME LinkInv, IInv, NEW t \in Tasks, Retry(t)
  PROVE  LinkInv' /\ NoMark
<1>1. NoMark
  BY ControlMarks, LinkAssumption DEF Retry
<1>. DEFINE cmd  == [command EXCEPT ![t] = NoCommand]
            hist == [since EXCEPT ![t] = issued]
<1>2. OwnCommands(cmd) /\ DrawnBefore(hist, issued)
  BY DEF LinkInv, Books, OwnCommands, DrawnBefore
<1>3. Build(t, cmd, store) /\ since' = hist /\ status[t] = "FAILED"
  BY DEF Retry, RetryTask
<1>4. ASSUME ~torn'
      PROVE  Agree(cmd, store, hist) /\ Released
  <2>1. ~torn /\ ~clearing
    BY <1>4 DEF Retry
  <2>2. Agree(command, store, since) /\ Released
    BY <2>1 DEF LinkInv
  <2>3. store # NoCommand => store.task \in Tasks \ {t}
    BY <1>3, <2>1, <2>2 DEF Released, LinkInv, Books, Ids
  <2>4. \A u \in Tasks \ {t} : cmd[u] = command[u] /\ hist[u] = since[u]
    BY DEF LinkInv, Books, OwnCommands, DrawnBefore
  <2>5. cmd[t] = NoCommand
    BY DEF LinkInv, Books, OwnCommands
  <2>. QED
    BY <2>2, <2>3, <2>4, <2>5 DEF Agree
<1>. HIDE DEF cmd, hist
<1>5. /\ OwnCommands(command') /\ store' \in Ids \cup {NoCommand}
      /\ issued' \in Nat /\ issued <= issued' /\ DrawnBefore(hist, issued')
      /\ Orders(t) \in Seq(Heard)
      /\ Agree(cmd, store, hist) => Agree(command', store', hist)
      /\ store' # store => store' # NoCommand /\ HasLeg(status'[store'.task])
  BY <1>2, <1>3, BuildKeeps DEF LinkInv, Books
<1>6. Books'
  BY <1>3, <1>5 DEF LinkInv, Books, Retry, RequestKeeps
<1>7. Traffic'
  BY <1>5, LaterHeard DEF LinkInv, Traffic, Retry, RequestKeeps, channelVars, agentVars
<1>8. ASSUME ~torn'
      PROVE  Agree(command', store', since') /\ Released'
  BY <1>1, <1>3, <1>4, <1>5, <1>8, ReleasedStays DEF LinkInv, Books, Retry, RequestKeeps
<1>. QED
  BY <1>1, <1>6, <1>7, <1>8 DEF LinkInv

(* Steps that leave the books alone: a mission may fail only where its      *)
(* command is dropped or about to be.                                       *)
LEMMA OperatorOK ==
  ASSUME LinkInv, IInv, MarkOffline \/ ClearAfterOffline \/ Stop \/ Elsewhere
  PROVE  LinkInv'
<1>1. CASE MarkOffline
  BY <1>1 DEF MarkOffline, LinkInv, Books, Traffic, Agree, Released,
              commandVars, channelVars, agentVars, historyVars
<1>2. CASE ClearAfterOffline
  BY <1>2 DEF ClearAfterOffline, LinkInv, Books, Traffic, Agree, Released,
              commandVars, channelVars, agentVars, historyVars
<1>3. CASE Stop
  BY <1>3 DEF Stop, StoreAfterStop, LinkInv, Books, Traffic, Agree, Released,
              commandVars, channelVars, agentVars, historyVars
<1>4. CASE Elsewhere
  <2>1. UNCHANGED driveVars
    BY <1>4 DEF Elsewhere
  <2>2. Books' /\ Traffic'
    BY <2>1 DEF LinkInv, Books, Traffic, driveVars, commandVars, memoryVars, channelVars, agentVars, historyVars
  <2>3. ASSUME ~torn'
        PROVE  Agree(command', store', since') /\ Released'
    BY <1>4, <2>1, <2>3, ElsewhereMarks, ReleasedStays
       DEF LinkInv, Books, driveVars, commandVars, memoryVars, historyVars
  <2>. QED
    BY <2>2, <2>3 DEF LinkInv
<1>. QED
  BY <1>1, <1>2, <1>3, <1>4

LEMMA SocketOK ==
  ASSUME LinkInv, IInv,
         \/ \E m \in sends : SendLater(m)
         \/ Reconnect \/ LoseSocket \/ RestartBackend
  PROVE  LinkInv' /\ NoMark
<1>1. CASE \E m \in sends : SendLater(m)
  <2>1. PICK m \in sends : SendLater(m)
    BY <1>1
  <2>2. <<m>> \in Seq(Heard)
    BY DEF LinkInv, Traffic
  <2>3. toRobot' \in Seq(Heard)
    BY <2>1, <2>2, SendHeard DEF SendLater, LinkInv, Traffic
  <2>4. NoMark
    BY <2>1 DEF SendLater, vars, taskVars, NoMark
  <2>. QED
    BY <2>1, <2>3, <2>4 DEF SendLater, LinkInv, Books, Traffic, Agree, Released, vars, taskVars,
                       commandVars, agentVars, historyVars
<1>. DEFINE Empty == <<>> \in Seq(Heard) /\ <<>> \in Seq(Said)
<1>2. Empty
  OBVIOUS
<1>. HIDE DEF Empty
<1>3. CASE Reconnect
  <2>1. CASE Tasks = {}
    BY <1>2, <1>3, <2>1 DEF Reconnect, LinkInv, Books, Traffic, Agree, Released, NoMark, Ids, Empty,
             commandVars, agentVars, historyVars, OwnCommands, DrawnBefore
  <2>2. CASE \E t \in Tasks : TRUE
    <3>1. NoMark
      BY <1>3, <2>2, ControlMarks, LinkAssumption DEF Reconnect
    <3>2. Books' /\ Traffic'
      BY <1>2, <1>3 DEF Reconnect, LinkInv, Books, Traffic, Empty, commandVars, agentVars, historyVars
    <3>3. ASSUME ~torn'
          PROVE  Agree(command', store', since') /\ Released'
      BY <1>3, <3>1, <3>3, ReleasedStays DEF Reconnect, LinkInv, Books, commandVars, historyVars
    <3>. QED
      BY <3>1, <3>2, <3>3 DEF LinkInv
  <2>. QED
    BY <2>1, <2>2
<1>4. CASE LoseSocket
  <2>1. UNCHANGED status
    BY <1>4 DEF LoseSocket, Disconnect, SendFails, Revoke, taskVars
  <2>. QED
    BY <1>2, <1>4, <2>1 DEF LoseSocket, LinkInv, Books, Traffic, Agree, Released, NoMark, Empty,
             commandVars, agentVars, historyVars
<1>5. CASE RestartBackend
  BY <1>2, <1>5 DEF RestartBackend, Restart, taskVars, LinkInv, Books, Traffic, Agree, Released,
           NoMark, Empty, commandVars, agentVars, historyVars
<1>. QED
  BY <1>1, <1>3, <1>4, <1>5

LEMMA ResendOK ==
  ASSUME LinkInv, IInv, Resend
  PROVE  LinkInv' /\ NoMark
<1>. DEFINE t == FirstActive(status)
<1>1. t \in Tasks \cup {NoTask}
  BY ActiveNow
<1>2. status' = status /\ NoMark
  BY DEF Resend, vars, taskVars, NoMark
<1>. HIDE DEF t
<1>3. CASE /\ ToConfirm(current[Bot]) /\ Send(<<Cancel(current[Bot])>>)
           /\ UNCHANGED <<command, store, issued>>
  <2>1. current[Bot] \in Tasks
    BY <1>3, LinkAssumption DEF ToConfirm, IInv, Good, Rows
  <2>2. <<Cancel(current[Bot])>> \in Seq(Heard)
    BY <2>1 DEF Heard
  <2>3. toRobot' \in Seq(Heard)
    BY <1>3, <2>2, SendHeard DEF LinkInv, Traffic
  <2>. QED
    BY <1>2, <1>3, <2>3 DEF Resend, LinkInv, Books, Traffic, Agree, Released, agentVars, historyVars
<1>4. CASE Build(t, command, store) /\ Send(Resent(t))
  <2>1. /\ OwnCommands(command') /\ store' \in Ids \cup {NoCommand}
        /\ issued' \in Nat /\ issued <= issued' /\ DrawnBefore(since, issued')
        /\ Orders(t) \in Seq(Heard)
        /\ Agree(command, store, since) => Agree(command', store', since)
        /\ store' # store => store' # NoCommand /\ HasLeg(status'[store'.task])
    BY <1>1, <1>4, BuildKeeps DEF LinkInv, Books
  <2>2. toRobot' \in Seq(Heard)
    BY <1>4, <2>1, SendHeard DEF Resent, LinkInv, Traffic
  <2>3. Books' /\ Traffic'
    BY <2>1, <2>2 DEF Resend, LinkInv, Books, Traffic, agentVars, historyVars
  <2>4. ASSUME ~torn'
        PROVE  Agree(command', store', since') /\ Released'
    BY <1>2, <2>1, <2>4, ReleasedStays DEF Resend, LinkInv, Books, historyVars
  <2>. QED
    BY <1>2, <2>3, <2>4 DEF LinkInv
<1>. QED
  BY <1>3, <1>4 DEF Resend, t

-----------------------------------------------------------------------------
(* The receive loop.                                                       *)

(* After a mission's event or a confirmed cancellation the robot's command  *)
(* is dropped, and the next mission's is built, if any.                     *)
LEMMA NextBuilt ==
  ASSUME LinkInv, NEW t \in Tasks \cup {NoTask}, Build(t, command, NoCommand),
         UNCHANGED <<clearing, historyVars>>
  PROVE  /\ Books' /\ Orders(t) \in Seq(Heard)
         /\ ~torn' => Agree(command', store', since') /\ Released'
<1>1. /\ OwnCommands(command') /\ store' \in Ids \cup {NoCommand}
      /\ issued' \in Nat /\ issued <= issued' /\ DrawnBefore(since, issued')
      /\ Orders(t) \in Seq(Heard)
      /\ Agree(command, NoCommand, since) => Agree(command', store', since)
      /\ store' # NoCommand => HasLeg(status'[store'.task])
  BY BuildKeeps DEF LinkInv, Books
<1>2. Books'
  BY <1>1 DEF LinkInv, Books, historyVars
<1>3. ASSUME ~torn'
      PROVE  Agree(command', store', since') /\ Released'
  <2>1. Agree(command, NoCommand, since)
    BY <1>3 DEF LinkInv, Agree, historyVars
  <2>2. Released'
    BY <1>1 DEF Released, HasLeg, LegOf
  <2>. QED
    BY <1>1, <2>1, <2>2 DEF historyVars
<1>. QED
  BY <1>1, <1>2, <1>3

LEMMA ResultOK ==
  ASSUME LinkInv, IInv, IInv', NEW id \in Ids, NEW outcome, ReceiveResult(id, outcome),
         UNCHANGED <<clearing, historyVars>>
  PROVE  Books' /\ toRobot' \in Seq(Heard) /\ (~torn' => Agree(command', store', since') /\ Released')
<1>1. <<Received(id)>> \in Seq(Heard)
  BY DEF Heard, Received
<1>2. CASE UNCHANGED vars /\ Send(<<Received(id)>>) /\ UNCHANGED <<commandVars, store>>
  <2>1. toRobot' \in Seq(Heard)
    BY <1>1, <1>2, SendHeard DEF LinkInv, Traffic
  <2>. QED
    BY <1>2, <2>1 DEF LinkInv, Books, Agree, Released, vars, taskVars, commandVars, historyVars
<1>3. CASE /\ Apply(id, outcome)
           /\ LET next == IF outcome = "succeeded" THEN NoTask ELSE FirstActive(status')
              IN Build(next, command, NoCommand) /\ Send(<<Received(id)>> \o Orders(next))
  <2>. DEFINE next == IF outcome = "succeeded" THEN NoTask ELSE FirstActive(status')
  <2>1. assigned' = assigned
    BY <1>3 DEF Apply, ApplyTaskEvent
  <2>2. next \in Tasks \cup {NoTask}
    BY <2>1, ActiveNext
  <2>3. Build(next, command, NoCommand) /\ Send(<<Received(id)>> \o Orders(next))
    BY <1>3
  <2>. HIDE DEF next
  <2>4. /\ Books' /\ Orders(next) \in Seq(Heard)
        /\ ~torn' => Agree(command', store', since') /\ Released'
    BY <2>2, <2>3, NextBuilt
  <2>5. <<Received(id)>> \o Orders(next) \in Seq(Heard)
    BY <1>1, <2>4, Grows
  <2>6. toRobot' \in Seq(Heard)
    BY <2>3, <2>5, SendHeard DEF LinkInv, Traffic
  <2>. QED
    BY <2>4, <2>6
<1>4. CASE UNCHANGED <<vars, commandVars, store, toRobot>>
  BY <1>4 DEF LinkInv, Books, Traffic, Agree, Released, vars, taskVars, commandVars, historyVars
<1>. QED
  BY <1>2, <1>3, <1>4 DEF ReceiveResult

LEMMA RejectionOK ==
  ASSUME LinkInv, IInv, NEW id \in Ids, ReceiveRejection(id), UNCHANGED <<clearing, historyVars>>
  PROVE  Books' /\ toRobot' \in Seq(Heard) /\ (~torn' => Agree(command', store', since') /\ Released')
<1>1. CASE UNCHANGED <<vars, commandVars, store, toRobot>>
  BY <1>1 DEF LinkInv, Books, Traffic, Agree, Released, vars, taskVars, commandVars, historyVars
<1>2. CASE store' = NoCommand /\ UNCHANGED <<command, issued, toRobot>>
  BY <1>2 DEF LinkInv, Books, Traffic, Agree, Released, historyVars
<1>3. CASE Disconnect(Bot) /\ toRobot' = <<>> /\ UNCHANGED <<commandVars, store>>
  <2>1. toRobot' \in Seq(Heard)
    BY <1>3
  <2>. QED
    BY <1>3, <2>1 DEF Disconnect, taskVars, LinkInv, Books, Agree, Released, commandVars, historyVars
<1>. QED
  BY <1>1, <1>2, <1>3 DEF ReceiveRejection

LEMMA CancelledOK ==
  ASSUME LinkInv, IInv, IInv', NEW t \in Tasks, ReceiveCancelled(t),
         UNCHANGED <<clearing, historyVars>>
  PROVE  Books' /\ toRobot' \in Seq(Heard) /\ (~torn' => Agree(command', store', since') /\ Released')
<1>1. CASE UNCHANGED <<vars, commandVars, store, toRobot>>
  BY <1>1 DEF LinkInv, Books, Traffic, Agree, Released, vars, taskVars, commandVars, historyVars
<1>2. CASE /\ FinalizeNavigationCancel(t, Bot)
           /\ LET next == FirstActive(status')
              IN Build(next, command, NoCommand) /\ Send(Orders(next))
  <2>. DEFINE next == FirstActive(status')
  <2>1. assigned' = assigned
    BY <1>2 DEF FinalizeNavigationCancel
  <2>2. next \in Tasks \cup {NoTask}
    BY <2>1, ActiveNext
  <2>3. Build(next, command, NoCommand) /\ Send(Orders(next))
    BY <1>2
  <2>. HIDE DEF next
  <2>4. /\ Books' /\ Orders(next) \in Seq(Heard)
        /\ ~torn' => Agree(command', store', since') /\ Released'
    BY <2>2, <2>3, NextBuilt
  <2>5. toRobot' \in Seq(Heard)
    BY <2>3, <2>4, SendHeard DEF LinkInv, Traffic
  <2>. QED
    BY <2>4, <2>5
<1>. QED
  BY <1>1, <1>2 DEF ReceiveCancelled

(* A message of the Agent is one of three kinds, about a known delivery.   *)
LEMMA SaidKinds ==
  ASSUME NEW m \in Said
  PROVE  /\ m.kind \in {"result", "rejected"} => m.id \in Ids /\ m.id.task \in Tasks
         /\ m.kind = "cancelled" => m.id.task \in Tasks
<1>1. \A t \in Tasks : Cancel(t).id.task = t
  BY DEF Cancel, NoCommand
<1>. QED
  BY <1>1 DEF Said, Ids

LEMMA ReceiveOK ==
  ASSUME LinkInv, IInv, IInv', Receive
  PROVE  LinkInv'
<1>. DEFINE m == Head(toBackend)
<1>1. m \in Said /\ Tail(toBackend) \in Seq(Said)
  BY HeadTail DEF Receive, LinkInv, Traffic
<1>2. toBackend' \in Seq(Said)
  <2>1. <<>> \in Seq(Said)
    OBVIOUS
  <2>. QED
    BY <1>1, <2>1 DEF Receive
<1>3. UNCHANGED <<sends, clearing, agentVars, historyVars>>
  BY DEF Receive
<1>4. \/ m.kind = "result" /\ ReceiveResult(m.id, m.outcome)
      \/ m.kind = "rejected" /\ ReceiveRejection(m.id)
      \/ m.kind = "cancelled" /\ ReceiveCancelled(m.id.task)
  BY DEF Receive
<1>. HIDE DEF m
<1>5. Books' /\ toRobot' \in Seq(Heard) /\ (~torn' => Agree(command', store', since') /\ Released')
  BY <1>1, <1>3, <1>4, SaidKinds, ResultOK, RejectionOK, CancelledOK
<1>6. Traffic'
  BY <1>2, <1>3, <1>5 DEF LinkInv, Traffic, agentVars
<1>. QED
  BY <1>5, <1>6 DEF LinkInv

-----------------------------------------------------------------------------
(* The Agent.                                                              *)

LEMMA TellSaid ==
  ASSUME toBackend \in Seq(Said), NEW kind, NEW id, NEW outcome, Tell(kind, id, outcome),
         [kind |-> kind, id |-> id, outcome |-> outcome] \in Said
  PROVE  toBackend' \in Seq(Said)
  BY DEF Tell

LEMMA AgentOK ==
  ASSUME LinkInv,
         \/ AgentTakes \/ AgentStops \/ AgentRestarts
         \/ \E id \in goals, outcome \in Outcomes : AgentFinishes(id, outcome)
         \/ \E p \in outbox : AgentReports(p)
  PROVE  LinkInv' /\ UNCHANGED vars
<1>1. /\ UNCHANGED <<vars, commandVars, memoryVars, historyVars>>
  BY DEF AgentTakes, AgentStops, AgentRestarts, AgentFinishes, AgentReports
<1>2. Books' /\ (~torn' => Agree(command', store', since') /\ Released')
  BY <1>1 DEF LinkInv, Books, Agree, Released, vars, taskVars, commandVars, memoryVars, historyVars
<1>3. CASE AgentTakes
  <2>. DEFINE m == Head(toRobot)
  <2>1. m \in Heard /\ toRobot' \in Seq(Heard)
    BY <1>3, HeadTail DEF AgentTakes, LinkInv, Traffic
  <2>2. /\ m.kind = "navigate" => m.id \in Ids
        /\ m.kind = "cancel" => \E t \in Tasks : m = Cancel(t)
    BY <2>1 DEF Heard, Cancel
  <2>3. CASE m.kind = "navigate" /\ m.id \in seen /\ UNCHANGED <<toBackend, agentVars>>
    BY <1>1, <1>2, <2>1, <2>3 DEF LinkInv, Traffic, memoryVars, agentVars
  <2>4. CASE m.kind = "navigate" /\ goals' = goals \cup {m.id} /\ UNCHANGED <<toBackend, outbox>>
    BY <1>1, <1>2, <2>1, <2>2, <2>4 DEF LinkInv, Traffic, memoryVars
  <2>5. CASE m.kind = "navigate" /\ Tell("rejected", m.id, "rejected") /\ UNCHANGED <<goals, outbox>>
    <3>1. [kind |-> "rejected", id |-> m.id, outcome |-> "rejected"] \in Said
      BY <2>2, <2>5 DEF Said
    <3>2. toBackend' \in Seq(Said)
      BY <2>5, <3>1, TellSaid DEF LinkInv, Traffic
    <3>. QED
      BY <1>1, <1>2, <2>1, <2>5, <3>2 DEF LinkInv, Traffic, memoryVars
  <2>6. CASE /\ m.kind = "cancel" /\ Tell("cancelled", m.id, "cancelled")
             /\ goals' = {g \in goals : g.task # m.id.task} /\ UNCHANGED outbox
    <3>1. [kind |-> "cancelled", id |-> m.id, outcome |-> "cancelled"] \in Said
      BY <2>2, <2>6 DEF Said
    <3>2. toBackend' \in Seq(Said)
      BY <2>6, <3>1, TellSaid DEF LinkInv, Traffic
    <3>. QED
      BY <1>1, <1>2, <2>1, <2>6, <3>2 DEF LinkInv, Traffic, memoryVars
  <2>7. CASE UNCHANGED <<toBackend, goals>> /\ outbox' \subseteq outbox
    BY <1>1, <1>2, <2>1, <2>7 DEF LinkInv, Traffic, memoryVars
  <2>. QED
    BY <1>3, <2>3, <2>4, <2>5, <2>6, <2>7 DEF AgentTakes
<1>4. CASE AgentStops \/ AgentRestarts
  BY <1>1, <1>2, <1>4 DEF AgentStops, AgentRestarts, LinkInv, Traffic, memoryVars, channelVars
<1>5. CASE \E id \in goals, outcome \in Outcomes : AgentFinishes(id, outcome)
  BY <1>1, <1>2, <1>5 DEF AgentFinishes, Receipt, LinkInv, Traffic, memoryVars, channelVars
<1>6. CASE \E p \in outbox : AgentReports(p)
  <2>1. PICK p \in outbox : AgentReports(p)
    BY <1>6
  <2>2. [kind |-> "result", id |-> p.id, outcome |-> p.outcome] \in Said
    BY DEF LinkInv, Traffic, Said
  <2>3. toBackend' \in Seq(Said)
    BY <2>1, <2>2, TellSaid DEF AgentReports, LinkInv, Traffic
  <2>. QED
    BY <1>1, <1>2, <2>1, <2>3 DEF AgentReports, LinkInv, Traffic, memoryVars, agentVars
<1>. QED
  BY <1>1, <1>3, <1>4, <1>5, <1>6

-----------------------------------------------------------------------------
(* Every step is a step of the missions, or none.                          *)

LEMMA ReceiveIsMission ==
  ASSUME LinkInv, Receive
  PROVE  Next \/ UNCHANGED vars
<1>. DEFINE m == Head(toBackend)
<1>1. Bot \in Robots
  BY LinkAssumption
<1>2. m \in Said
  BY HeadTail DEF Receive, LinkInv, Traffic
<1>3. CASE m.kind = "result" /\ ReceiveResult(m.id, m.outcome)
  <2>1. m.id.task \in Tasks
    BY <1>2, <1>3, SaidKinds
  <2>. QED
    BY <1>3, <2>1 DEF ReceiveResult, Apply, Next, TaskStep, vars
<1>4. CASE m.kind = "rejected" /\ ReceiveRejection(m.id)
  <2>1. m.id.task \in Tasks
    BY <1>2, <1>4, SaidKinds
  <2>2. CASE UNCHANGED vars
    BY <2>2
  <2>3. CASE Apply(m.id, "rejected")
    BY <2>1, <2>3 DEF Apply, Next, TaskStep
  <2>4. CASE Disconnect(Bot)
    BY <1>1, <2>4 DEF Next, RobotStep
  <2>. QED
    BY <1>4, <2>2, <2>3, <2>4 DEF ReceiveRejection
<1>5. CASE m.kind = "cancelled" /\ ReceiveCancelled(m.id.task)
  <2>1. m.id.task \in Tasks
    BY <1>2, <1>5, SaidKinds
  <2>. QED
    BY <1>1, <1>5, <2>1 DEF ReceiveCancelled, Next, TaskStep
<1>. QED
  BY <1>3, <1>4, <1>5 DEF Receive

LEMMA StepIsMission ==
  ASSUME LinkInv, [LinkNext]_allVars
  PROVE  [Next]_vars
<1>1. Bot \in Robots
  BY LinkAssumption
<1>2. CASE UNCHANGED allVars
  BY <1>2 DEF allVars
<1>3. CASE \E t \in Tasks : \/ \E p \in Priorities : Create(t, p)
                            \/ \E tr \in Transitions : Confirm(t, tr)
                            \/ RequestCancel(t) \/ Retry(t)
  BY <1>1, <1>3 DEF Create, Confirm, RequestCancel, Retry, Next, TaskStep
<1>4. CASE MarkOffline \/ Stop
  BY <1>1, <1>4 DEF MarkOffline, Stop, Next, RobotStep
<1>5. CASE Elsewhere
  <2>1. CASE \E t \in Tasks, p \in Priorities \cup {"KEEP"}, d \in {"UP", "DOWN", "NONE"} :
               UpdateQueuedTask(t, p, d)
    BY <2>1 DEF Next, TaskStep
  <2>2. CASE SetRobotOnline(Bot) \/ RecoverRobot(Bot) \/ AcknowledgeReset(Bot)
    BY <1>1, <2>2 DEF Next, RobotStep
  <2>3. CASE \E s \in {"NOT_READY", "READY"} : ReportReadiness(Bot, s)
    BY <1>1, <2>3 DEF Next, RobotStep
  <2>. QED
    BY <1>5, <2>1, <2>2, <2>3 DEF Elsewhere
<1>6. CASE ClearAfterOffline \/ (\E m \in sends : SendLater(m)) \/ Resend
  BY <1>6 DEF ClearAfterOffline, SendLater, Resend
<1>7. CASE Reconnect \/ LoseSocket \/ RestartBackend
  BY <1>1, <1>7 DEF Reconnect, LoseSocket, RestartBackend, Next, RobotStep
<1>8. CASE Receive
  BY <1>8, ReceiveIsMission
<1>9. CASE \/ AgentTakes \/ AgentStops \/ AgentRestarts
           \/ \E id \in goals, outcome \in Outcomes : AgentFinishes(id, outcome)
           \/ \E p \in outbox : AgentReports(p)
  BY <1>9, AgentOK
<1>. QED
  BY <1>2, <1>3, <1>4, <1>5, <1>6, <1>7, <1>8, <1>9 DEF LinkNext

LEMMA LinkStep ==
  ASSUME LinkInv, IInv, IInv', [LinkNext]_allVars
  PROVE  LinkInv'
<1>1. CASE UNCHANGED allVars
  BY <1>1 DEF allVars, driveVars, vars, taskVars, commandVars, memoryVars, channelVars, agentVars,
              historyVars, LinkInv, Books, Traffic, Agree, Released
<1>2. CASE \E t \in Tasks : \/ \E p \in Priorities : Create(t, p)
                            \/ \E tr \in Transitions : Confirm(t, tr)
                            \/ RequestCancel(t) \/ Retry(t)
  BY <1>2, CreateOK, ConfirmOK, RequestCancelOK, RetryOK
<1>3. CASE MarkOffline \/ ClearAfterOffline \/ Stop \/ Elsewhere
  BY <1>3, OperatorOK
<1>4. CASE \/ \E m \in sends : SendLater(m)
           \/ Reconnect \/ LoseSocket \/ RestartBackend
  BY <1>4, SocketOK
<1>5. CASE Resend \/ Receive
  BY <1>5, ResendOK, ReceiveOK
<1>6. CASE \/ AgentTakes \/ AgentStops \/ AgentRestarts
           \/ \E id \in goals, outcome \in Outcomes : AgentFinishes(id, outcome)
           \/ \E p \in outbox : AgentReports(p)
  BY <1>6, AgentOK
<1>. QED
  BY <1>1, <1>2, <1>3, <1>4, <1>5, <1>6 DEF LinkNext

LEMMA LinkInitOK == LinkInit => LinkInv
<1>. SUFFICES ASSUME LinkInit PROVE LinkInv
  OBVIOUS
<1>1. Books
  <2>1. OwnCommands(command)
    BY DEF LinkInit, OwnCommands
  <2>2. DrawnBefore(since, issued) /\ issued \in Nat
    BY DEF LinkInit, DrawnBefore
  <2>. QED
    BY <2>1, <2>2 DEF LinkInit, Books
<1>2. Traffic
  BY DEF LinkInit, Traffic
<1>3. Agree(command, store, since) /\ Released
  BY DEF LinkInit, Agree, Released
<1>. QED
  BY <1>1, <1>2, <1>3 DEF LinkInv

LEMMA LinkInvariance == LinkSpec => [](LinkInv /\ IInv)
<1>1. LinkInit => LinkInv /\ IInv
  BY LinkInitOK, InitInvariant DEF LinkInit
<1>2. (LinkInv /\ IInv) /\ [LinkNext]_allVars => (LinkInv /\ IInv)'
  BY StepIsMission, StepInvariant, LinkStep
<1>. QED
  BY <1>1, <1>2, PTL DEF LinkSpec

(* The missions of the link are FleetMission's: whatever travels, is lost   *)
(* or repeated, their rows change as its handlers say.                      *)
THEOREM MissionsImplemented == LinkSpec => Spec
<1>1. LinkInit => Init
  BY DEF LinkInit
<1>2. LinkInv /\ [LinkNext]_allVars => [Next]_vars
  BY StepIsMission
<1>. QED
  BY <1>1, <1>2, LinkInvariance, PTL DEF LinkSpec, Spec

(* The identity a row remembers is of its present attempt, and the command  *)
(* in memory for the leg under way is the row's.                            *)
THEOREM IdentityCoherentHolds == LinkSpec => []IdentityCoherent
<1>1. LinkInv => IdentityCoherent
  <2>. SUFFICES ASSUME LinkInv, ~torn, NEW t \in Tasks
                PROVE  /\ command[t] # NoCommand => command[t].n > since[t]
                       /\ store.task = t => store = command[t]
    BY DEF IdentityCoherent
  <2>1. Agree(command, store, since)
    BY DEF LinkInv
  <2>2. store.task = t => store # NoCommand
    BY NoTaskNotTask DEF NoCommand
  <2>. QED
    BY <2>1, <2>2 DEF Agree
<1>. QED
  BY <1>1, LinkInvariance, PTL

-----------------------------------------------------------------------------
(* Who lets a mission arrive.                                              *)

Arrives(t) == HasLeg(status[t]) /\ status'[t] \in {"WAITING_FOR_LOADING", "WAITING_FOR_UNLOADING"}
Earned(t) ==
  \E p \in receipts' \ receipts :
    /\ p.id.task = t /\ p.id.stage = LegOf[status[t]] /\ p.outcome = "succeeded"
    /\ p.id.n > since[t] \/ torn

LEMMA NoMarkNoArrival ==
  ASSUME \A t \in Tasks : status'[t] \in Marks => status'[t] \in {status[t], "FAILED"}
  PROVE  \A t \in Tasks : ~Arrives(t)
  BY DEF Arrives, Marks, HasLeg, LegOf

(* The command in memory is one of its mission's present attempt.          *)
LEMMA StoreIsPresent ==
  ASSUME LinkInv, store \in Ids
  PROVE  store.n > since[store.task] \/ torn
<1>1. store # NoCommand /\ store.task \in Tasks
  BY NoTaskNotTask DEF Ids, NoCommand
<1>. QED
  BY <1>1 DEF LinkInv, Agree

(* A result or a rejection that is applied moves its own mission alone, and *)
(* only a success of the command in memory lets it arrive.                  *)
LEMMA AppliedEarns ==
  ASSUME LinkInv, IInv, NEW id \in Ids, NEW outcome, Apply(id, outcome), ~Answered(id),
         outcome = "succeeded" => Associated(id),
         NEW t \in Tasks, Arrives(t)
  PROVE  Earned(t)
<1>1. id.task \in Tasks
  BY DEF Ids
<1>2. PICK tr \in Transitions : tr.event = EventOf(id, outcome) /\ ApplyTaskEvent(id.task, tr)
  BY DEF Apply
<1>3. t = id.task /\ tr.to = status'[t]
  BY <1>1, <1>2, EventMarks DEF Arrives, Marks, HasLeg, LegOf
<1>4. outcome = "succeeded"
  BY <1>2, <1>3 DEF EventOf, Transitions, Transition, Arrives
<1>5. store = id /\ id.stage = LegOf[status[t]]
  BY <1>3, <1>4 DEF Associated
<1>6. id.n > since[t] \/ torn
  BY <1>3, <1>5, StoreIsPresent
<1>7. Receipt(id, outcome) \in receipts' \ receipts
  BY DEF Apply, Answered, Receipt
<1>. QED
  BY <1>3, <1>4, <1>5, <1>6, <1>7 DEF Earned, Receipt

LEMMA ReceiveEarns ==
  ASSUME LinkInv, IInv, Receive, NEW t \in Tasks, Arrives(t)
  PROVE  Earned(t)
<1>. DEFINE m == Head(toBackend)
<1>1. m \in Said
  BY HeadTail DEF Receive, LinkInv, Traffic
<1>2. CASE status' = status
  BY <1>2, NoMarkNoArrival
<1>3. CASE m.kind = "result" /\ ReceiveResult(m.id, m.outcome)
  <2>1. CASE UNCHANGED vars
    BY <1>2, <2>1 DEF vars, taskVars
  <2>2. CASE ~Answered(m.id) /\ Associated(m.id) /\ Apply(m.id, m.outcome)
    BY <1>1, <1>3, <2>2, SaidKinds, AppliedEarns
  <2>. QED
    BY <1>3, <2>1, <2>2 DEF ReceiveResult, vars
<1>4. CASE m.kind = "rejected" /\ ReceiveRejection(m.id)
  <2>1. CASE UNCHANGED vars \/ Disconnect(Bot)
    BY <1>2, <2>1 DEF vars, taskVars, Disconnect
  <2>2. CASE ~Answered(m.id) /\ Apply(m.id, "rejected")
    BY <1>1, <1>4, <2>2, SaidKinds, AppliedEarns
  <2>. QED
    BY <1>4, <2>1, <2>2 DEF ReceiveRejection, vars
<1>5. CASE m.kind = "cancelled" /\ ReceiveCancelled(m.id.task)
  <2>1. CASE UNCHANGED vars
    BY <1>2, <2>1 DEF vars, taskVars
  <2>2. CASE FinalizeNavigationCancel(m.id.task, Bot)
    <3>1. NoMark
      BY <1>1, <1>5, <2>2, SaidKinds, ControlMarks, LinkAssumption
    <3>. QED
      BY <3>1, NoMarkNoArrival DEF NoMark
  <2>. QED
    BY <1>5, <2>1, <2>2 DEF ReceiveCancelled, vars
<1>. QED
  BY <1>3, <1>4, <1>5 DEF Receive

LEMMA StepEarns ==
  ASSUME LinkInv, IInv, IInv', [LinkNext]_allVars, NEW t \in Tasks, Arrives(t)
  PROVE  Earned(t)
<1>1. CASE NoMark
  BY <1>1, NoMarkNoArrival DEF NoMark
<1>2. CASE UNCHANGED vars
  BY <1>1, <1>2 DEF vars, taskVars, NoMark
<1>3. CASE \E u \in Tasks : \/ \E p \in Priorities : Create(u, p)
                            \/ \E tr \in Transitions : Confirm(u, tr)
                            \/ RequestCancel(u) \/ Retry(u)
  BY <1>1, <1>3, CreateOK, ConfirmOK, RequestCancelOK, RetryOK
<1>4. CASE MarkOffline \/ Stop
  <2>1. UNCHANGED vars \/ FailMission(Bot)
    BY <1>4 DEF MarkOffline, Stop, SetRobotOffline, ActivateEmergencyStop
  <2>. QED
    BY <1>2, <2>1, FailMarks, NoMarkNoArrival
<1>5. CASE Elsewhere
  BY <1>1, <1>5, ElsewhereMarks
<1>6. CASE \/ \E m \in sends : SendLater(m)
           \/ Reconnect \/ Resend \/ LoseSocket \/ RestartBackend
  BY <1>1, <1>6, SocketOK, ResendOK
<1>7. CASE ClearAfterOffline
  BY <1>2, <1>7 DEF ClearAfterOffline
<1>8. CASE Receive
  BY <1>8, ReceiveEarns
<1>9. CASE \/ AgentTakes \/ AgentStops \/ AgentRestarts
           \/ \E id \in goals, outcome \in Outcomes : AgentFinishes(id, outcome)
           \/ \E p \in outbox : AgentReports(p)
  BY <1>2, <1>9, AgentOK
<1>10. CASE UNCHANGED allVars
  BY <1>2, <1>10 DEF allVars
<1>. QED
  BY <1>3, <1>4, <1>5, <1>6, <1>7, <1>8, <1>9, <1>10 DEF LinkNext

(* A mission reaches its station only by a success recorded with it, for    *)
(* that task and leg, by a command drawn since its last retry.              *)
THEOREM EarnedAdvanceHolds == LinkSpec => EarnedAdvance
<1>. DEFINE Advance == \A t \in Tasks : Arrives(t) => Earned(t)
<1>1. LinkInv /\ IInv /\ IInv' /\ [LinkNext]_allVars => [Advance]_allVars
  BY StepEarns
<1>2. [Advance]_allVars =>
        [\A t \in Tasks :
           HasLeg(status[t]) /\ status'[t] \in {"WAITING_FOR_LOADING", "WAITING_FOR_UNLOADING"} =>
             \E p \in receipts' \ receipts :
               /\ p.id.task = t /\ p.id.stage = LegOf[status[t]] /\ p.outcome = "succeeded"
               /\ p.id.n > since[t] \/ torn]_allVars
  BY DEF Arrives, Earned
<1>. QED
  BY <1>1, <1>2, LinkInvariance, PTL DEF LinkSpec, EarnedAdvance

-----------------------------------------------------------------------------
(* Which identities the Agent was given, or will be.                       *)

Navs(ms) == {ms[i].id : i \in {j \in DOMAIN ms : ms[j].kind = "navigate"}}
Sent == {m.id : m \in {x \in sends : x.kind = "navigate"}}
Given == seen \cup Navs(toRobot) \cup Sent

(* Of a present attempt, the row remembers the destination's identity, and  *)
(* the pickup's until it has the destination's.                            *)
Remembered(given, cmd, hist) ==
  \A x \in given : x.n > hist[x.task] =>
    /\ cmd[x.task] # NoCommand
    /\ x.stage = "destination" \/ cmd[x.task].stage = x.stage => cmd[x.task] = x

(* Memory holds what the row remembers, or an identity of an old attempt    *)
(* where the row remembers none.                                           *)
MemoryFits(cmd, mem, hist) ==
  mem # NoCommand =>
    cmd[mem.task] = mem \/ (cmd[mem.task] = NoCommand /\ mem.n <= hist[mem.task])

OneEach(given, hist) ==
  \A a, b \in given : a.task = b.task /\ a.stage = b.stage
                      /\ a.n > hist[a.task] /\ b.n > hist[b.task] => a = b

Fitting(given, k, cmd, mem, hist) ==
  /\ given \subseteq Ids /\ \A x \in given : x.n <= k
  /\ \A t \in Tasks : cmd[t].n <= k
  /\ Remembered(given, cmd, hist)
  /\ MemoryFits(cmd, mem, hist)
  /\ OneEach(given, hist)

(* A mission that has a destination's identity is past its pickup.         *)
Early == {"ABSENT", "QUEUED", "GOING_TO_PICKUP", "WAITING_FOR_LOADING"}
Past(cmd, st) == \A t \in Tasks : cmd[t].stage = "destination" => st[t] \notin Early

GivenInv == Fitting(Given, issued, command, store, since) /\ Past(command, status)

LEMMA FittingLess ==
  ASSUME NEW given, NEW less, less \subseteq given, NEW k, NEW cmd, NEW mem, NEW hist,
         Fitting(given, k, cmd, mem, hist)
  PROVE  Fitting(less, k, cmd, mem, hist) /\ Fitting(less, k, cmd, NoCommand, hist)
  BY DEF Fitting, Remembered, MemoryFits, OneEach

(* Building gives no second identity to a leg.                             *)
LEMMA BuildFits ==
  ASSUME NEW t \in Tasks \cup {NoTask}, NEW cmd, NEW mem, NEW hist, NEW given,
         OwnCommands(cmd), mem \in Ids \cup {NoCommand}, issued \in Nat,
         DrawnBefore(hist, issued), Fitting(given, issued, cmd, mem, hist),
         Past(cmd, status'), Build(t, cmd, mem)
  PROVE  /\ Fitting(given \cup (IF Buildable(t) THEN {store'} ELSE {}),
                    issued', command', store', hist)
         /\ Past(command', status')
<1>1. CASE ~Buildable(t)
  BY <1>1 DEF Build
<1>2. CASE Buildable(t)
  <2>. DEFINE id  == Identity(t, cmd, mem)
              leg == LegOf[status'[t]]
  <2>1. t \in Tasks /\ HasLeg(status'[t]) /\ leg \in Stages
    BY <1>2 DEF Buildable, HasLeg, LegOf, Stages
  <2>2. /\ id \in Ids /\ id.task = t
        /\ \/ id = mem /\ mem # NoCommand /\ mem.task = t
           \/ id = cmd[t] /\ cmd[t] # NoCommand
           \/ id.n = issued + 1
    BY <2>1, IdentityDrawn
  <2>3. /\ id.stage = leg
        /\ \/ id = mem /\ mem.task = t /\ mem.stage = leg
           \/ id = cmd[t]
           \/ id.n = issued + 1 /\ cmd[t].stage # leg
    BY DEF Identity
  <2>4. /\ issued' = IF id.n > issued THEN id.n ELSE issued
        /\ command' = [cmd EXCEPT ![t] = id] /\ store' = id
    BY <1>2 DEF Build
  <2>5. leg = "pickup" => status'[t] \in Early
    BY <2>1 DEF HasLeg, LegOf, Early
  <2>6. leg = "destination" => status'[t] \notin Early
    BY <2>1 DEF HasLeg, LegOf, Early
  <2>7. leg = "pickup" => cmd[t].stage # "destination"
    BY <2>1, <2>5 DEF Past
  <2>8. hist[t] \in Nat /\ hist[t] <= issued /\ id.n \in Nat /\ id # NoCommand
    BY <2>1, <2>2, NoTaskNotTask DEF DrawnBefore, Ids, NoCommand
  <2>. HIDE DEF id, leg
  <2>9. /\ command'[t] = id /\ \A u \in Tasks \ {t} : command'[u] = cmd[u]
    BY <2>1, <2>4 DEF OwnCommands
  (* What the row remembered is replaced by itself or by something later.  *)
  <2>10. \/ cmd[t] = id
         \/ cmd[t] = NoCommand /\ id.n <= hist[t]
         \/ id.n = issued + 1 /\ cmd[t].stage # leg
    BY <2>2, <2>3, <2>8 DEF Fitting, MemoryFits
  <2>11. cmd[t] = NoCommand \/ cmd[t].stage \in Stages
    BY <2>1 DEF OwnCommands, Ids
  (* No identity of the leg was given in the present attempt but this one. *)
  <2>12. \A x \in given : x.task = t /\ x.stage = leg /\ x.n > hist[t] => x = id
    <3>. SUFFICES ASSUME NEW x \in given, x.task = t, x.stage = leg, x.n > hist[t]
                  PROVE  x = id
      OBVIOUS
    <3>1. /\ cmd[t] # NoCommand
          /\ leg = "destination" \/ cmd[t].stage = leg => cmd[t] = x
      BY DEF Fitting, Remembered
    <3>2. cmd[t] = x
      BY <2>1, <2>7, <2>11, <3>1 DEF Stages
    <3>. QED
      BY <2>10, <3>1, <3>2
  <2>13. Past(command', status')
    BY <2>3, <2>6, <2>9 DEF Past
  <2>14. issued' \in Nat /\ issued <= issued' /\ id.n <= issued'
    BY <2>4, <2>8
  <2>15. \A u \in Tasks : command'[u].n <= issued'
    <3>1. \A u \in Tasks \ {t} : cmd[u].n \in Nat /\ cmd[u].n <= issued
      BY DEF Fitting, OwnCommands, Ids, NoCommand
    <3>. QED
      BY <2>9, <2>14, <3>1
  <2>16. given \cup {id} \subseteq Ids /\ \A x \in given \cup {id} : x.n <= issued'
    <3>1. \A x \in given : x \in Ids /\ x.n \in Nat /\ x.n <= issued
      BY DEF Fitting, Ids
    <3>. QED
      BY <2>2, <2>14, <3>1
  <2>17. Remembered(given \cup {id}, command', hist)
    <3>. SUFFICES ASSUME NEW x \in given \cup {id}, x.n > hist[x.task]
                  PROVE  /\ command'[x.task] # NoCommand
                         /\ x.stage = "destination" \/ command'[x.task].stage = x.stage =>
                              command'[x.task] = x
      BY DEF Remembered
    <3>1. x \in Ids /\ x.task \in Tasks /\ x.stage \in Stages
      BY <2>16 DEF Ids
    <3>2. CASE x = id
      BY <2>2, <2>8, <2>9, <3>2
    <3>3. CASE x # id /\ x.task = t
      <4>1. x.stage # leg
        BY <2>12, <3>3
      <4>2. x.stage # "destination"
        <5>1. CASE x.stage = "destination"
          <6>1. cmd[t] = x
            BY <3>3, <5>1 DEF Fitting, Remembered
          <6>. QED
            BY <2>1, <2>7, <4>1, <5>1, <6>1 DEF Stages
        <5>. QED
          BY <5>1
      <4>. QED
        BY <2>3, <2>8, <2>9, <3>3, <4>1, <4>2
    <3>4. CASE x # id /\ x.task # t
      BY <2>9, <3>1, <3>4 DEF Fitting, Remembered
    <3>. QED
      BY <3>2, <3>3, <3>4
  <2>18. MemoryFits(command', id, hist)
    BY <2>2, <2>9 DEF MemoryFits
  <2>19. OneEach(given \cup {id}, hist)
    <3>1. OneEach(given, hist)
      BY DEF Fitting
    <3>. QED
      BY <2>2, <2>3, <2>12, <3>1 DEF OneEach
  <2>. QED
    BY <1>2, <2>4, <2>13, <2>15, <2>16, <2>17, <2>18, <2>19 DEF Fitting
<1>. QED
  BY <1>1, <1>2

-----------------------------------------------------------------------------
(* Only a retry brings a mission back before its pickup.                   *)

NotBack == \A t \in Tasks : status'[t] \in Early => status[t] \in Early

LEMMA DispatchNotBack ==
  ASSUME NEW st, NEW asg, NEW pr, NEW ord, NEW onl, NEW rs, NEW cur, NEW r,
         st \in [Tasks -> TaskStatus \cup {"ABSENT"}],
         DispatchNext(st, asg, pr, ord, onl, rs, cur, r)
  PROVE  \A t \in Tasks : status'[t] \in Early => st[t] \in Early
<1>1. CASE status' = st
  BY <1>1
<1>2. ASSUME NEW t \in QueueOf(st, asg, r), AssignTask(st, rs, cur, t, r)
      PROVE  \A u \in Tasks : status'[u] \in Early => st[u] \in Early
  BY <1>2 DEF AssignTask, QueueOf, Early
<1>. QED
  BY <1>1, <1>2 DEF DispatchNext

LEMMA TaskNotBack ==
  ASSUME IInv, NEW t \in Tasks, NEW r \in Robots,
         \/ \E p \in Priorities : CreateTask(t, r, p)
         \/ CancelTask(t) \/ FinalizeNavigationCancel(t, r)
         \/ \E tr \in Transitions : ApplyTaskEvent(t, tr)
  PROVE  NotBack
<1>1. status \in [Tasks -> TaskStatus \cup {"ABSENT"}]
  BY DEF IInv, Good, Rows
<1>2. ASSUME NEW p \in Priorities, CreateTask(t, r, p)
      PROVE  NotBack
  <2>. DEFINE queued == [status EXCEPT ![t] = "QUEUED"]
  <2>1. PICK m \in LastOrder(r) :
          DispatchNext(queued, [assigned EXCEPT ![t] = r], [priority EXCEPT ![t] = p],
                       [queueOrder EXCEPT ![t] = m + 1], online, state, current, r)
    BY <1>2 DEF CreateTask
  <2>2. queued \in [Tasks -> TaskStatus \cup {"ABSENT"}]
    BY <1>1 DEF TaskStatus
  <2>3. \A u \in Tasks : status'[u] \in Early => queued[u] \in Early
    BY <2>1, <2>2, DispatchNotBack
  <2>4. status[t] = "ABSENT"
    BY <1>2 DEF CreateTask
  <2>. QED
    BY <1>1, <2>3, <2>4 DEF NotBack, Early
<1>3. CASE CancelTask(t)
  BY <1>1, <1>3 DEF CancelTask, NotBack, Early
<1>4. CASE FinalizeNavigationCancel(t, r)
  BY <1>1, <1>4, DispatchNotBack DEF FinalizeNavigationCancel, NotBack
<1>5. ASSUME NEW tr \in Transitions, ApplyTaskEvent(t, tr)
      PROVE  NotBack
  <2>. DEFINE st == [status EXCEPT ![t] = tr.to]
  <2>1. /\ status[t] = tr.from /\ tr.to \in TaskStatus
        /\ tr.to \in Early => tr.from \in Early
    BY <1>5 DEF ApplyTaskEvent, Transitions, Transition, Early, TaskStatus, ActiveStatuses,
                TerminalStatuses
  <2>2. st \in [Tasks -> TaskStatus \cup {"ABSENT"}]
    BY <1>1, <2>1
  <2>3. \A u \in Tasks : status'[u] \in Early => st[u] \in Early
    BY <1>5, <2>2, DispatchNotBack DEF ApplyTaskEvent
  <2>. QED
    BY <1>1, <2>1, <2>3 DEF NotBack
<1>. QED
  BY <1>2, <1>3, <1>4, <1>5

LEMMA RobotNotBack ==
  ASSUME IInv, NEW r \in Robots,
         \/ SetRobotOnline(r) \/ RecoverRobot(r) \/ Connect(r)
         \/ FailMission(r) \/ UNCHANGED status
  PROVE  NotBack
<1>1. status \in [Tasks -> TaskStatus \cup {"ABSENT"}]
  BY DEF IInv, Good, Rows
<1>2. CASE SetRobotOnline(r)
  BY <1>1, <1>2, DispatchNotBack DEF SetRobotOnline, NotBack
<1>3. CASE RecoverRobot(r)
  BY <1>1, <1>3, DispatchNotBack DEF RecoverRobot, NotBack
<1>4. CASE Connect(r)
  BY <1>1, <1>4, DispatchNotBack DEF Connect, NotBack
<1>5. CASE FailMission(r)
  BY <1>1, <1>5 DEF FailMission, NotBack, Early
<1>6. CASE UNCHANGED status
  BY <1>6 DEF NotBack
<1>. QED
  BY <1>2, <1>3, <1>4, <1>5, <1>6

-----------------------------------------------------------------------------
(* What a handler gives the Agent.                                         *)

LEMMA NavsOf ==
  ASSUME NEW s \in Seq(Heard)
  PROVE  /\ Navs(<<>>) = {}
         /\ \A ms \in Seq(Heard) : Navs(s \o ms) \subseteq Navs(s) \cup Navs(ms)
         /\ s # <<>> => /\ Navs(Tail(s)) \subseteq Navs(s)
                        /\ Head(s).kind = "navigate" => Head(s).id \in Navs(s)
<1>1. Navs(<<>>) = {}
  BY DEF Navs
<1>2. ASSUME NEW ms \in Seq(Heard)
      PROVE  Navs(s \o ms) \subseteq Navs(s) \cup Navs(ms)
  <2>. SUFFICES ASSUME NEW i \in DOMAIN (s \o ms), (s \o ms)[i].kind = "navigate"
                PROVE  (s \o ms)[i].id \in Navs(s) \cup Navs(ms)
    BY DEF Navs
  <2>1. CASE i <= Len(s)
    <3>1. i \in DOMAIN s /\ (s \o ms)[i] = s[i]
      BY <2>1
    <3>. QED
      BY <3>1 DEF Navs
  <2>2. CASE i > Len(s)
    <3>1. i - Len(s) \in DOMAIN ms /\ (s \o ms)[i] = ms[i - Len(s)]
      BY <2>2
    <3>. QED
      BY <3>1 DEF Navs
  <2>. QED
    BY <2>1, <2>2
<1>3. ASSUME s # <<>>
      PROVE  /\ Navs(Tail(s)) \subseteq Navs(s)
             /\ Head(s).kind = "navigate" => Head(s).id \in Navs(s)
  <2>1. \A i \in DOMAIN Tail(s) : i + 1 \in DOMAIN s /\ Tail(s)[i] = s[i + 1]
    BY <1>3
  <2>2. 1 \in DOMAIN s /\ Head(s) = s[1]
    BY <1>3
  <2>. QED
    BY <2>1, <2>2 DEF Navs
<1>. QED
  BY <1>1, <1>2, <1>3

LEMMA SendGives ==
  ASSUME toRobot \in Seq(Heard), NEW ms \in Seq(Heard), Send(ms)
  PROVE  Navs(toRobot') \subseteq Navs(toRobot) \cup Navs(ms)
  BY NavsOf DEF Send

Built(t) == IF Buildable(t) THEN {store'} ELSE {}

LEMMA OrdersGive ==
  ASSUME NEW t
  PROVE  /\ Navs(Orders(t)) \subseteq Built(t)
         /\ \A m \in {Orders(t)[i] : i \in DOMAIN Orders(t)} :
              m.kind = "navigate" => m.id \in Built(t)
<1>1. CASE Buildable(t)
  <2>1. Orders(t) = <<[kind |-> "navigate", id |-> store']>>
    BY <1>1 DEF Orders, Navigate
  <2>2. DOMAIN Orders(t) = {1} /\ Orders(t)[1].id = store'
    BY <2>1
  <2>. QED
    BY <1>1, <2>2 DEF Navs, Built
<1>2. CASE ~Buildable(t)
  BY <1>2 DEF Orders, Navs, Built
<1>. QED
  BY <1>1, <1>2

LEMMA LaterGives ==
  ASSUME NEW ms, Later(ms), NEW new,
         \A m \in {ms[i] : i \in DOMAIN ms} : m.kind = "navigate" => m.id \in new
  PROVE  Sent' \subseteq Sent \cup new
  BY DEF Later, Sent

(* A handler that builds for t, from what the row and memory hold.         *)
LEMMA BuildingKeeps ==
  ASSUME LinkInv, GivenInv, NotBack, NEW t \in Tasks \cup {NoTask}, NEW mem \in {store, NoCommand},
         Build(t, command, mem), since' = since, Given' \subseteq Given \cup Built(t)
  PROVE  GivenInv'
<1>1. /\ OwnCommands(command) /\ mem \in Ids \cup {NoCommand} /\ issued \in Nat
      /\ DrawnBefore(since, issued)
  BY DEF LinkInv, Books
<1>2. Fitting(Given, issued, command, mem, since)
  BY FittingLess DEF GivenInv
<1>3. Past(command, status')
  BY DEF GivenInv, Past, NotBack
<1>4. /\ Fitting(Given \cup Built(t), issued', command', store', since)
      /\ Past(command', status')
  BY <1>1, <1>2, <1>3, BuildFits DEF Built
<1>5. Fitting(Given', issued', command', store', since')
  BY <1>4, FittingLess
<1>. QED
  BY <1>4, <1>5 DEF GivenInv

(* One that builds nothing, and may forget the command in memory.          *)
LEMMA QuietKeeps ==
  ASSUME GivenInv, NotBack, UNCHANGED <<command, issued, since>>, store' \in {store, NoCommand},
         Given' \subseteq Given
  PROVE  GivenInv'
<1>1. Fitting(Given', issued', command', store', since')
  BY FittingLess DEF GivenInv
<1>. QED
  BY <1>1 DEF GivenInv, Past, NotBack

LEMMA RequestGives ==
  ASSUME LinkInv, IInv, IInv', GivenInv, NEW t \in Tasks,
         \/ \E p \in Priorities : Create(t, p)
         \/ \E tr \in Transitions : Confirm(t, tr)
  PROVE  GivenInv'
<1>1. NotBack
  BY TaskNotBack, LinkAssumption DEF Create, Confirm
<1>2. \E u \in Tasks \cup {NoTask} : Build(u, command, store) /\ Later(Orders(u))
  <2>1. CASE \E p \in Priorities : Create(t, p)
    BY <2>1 DEF Create
  <2>2. ASSUME NEW tr \in Transitions, Confirm(t, tr)
        PROVE  \E u \in Tasks \cup {NoTask} : Build(u, command, store) /\ Later(Orders(u))
    <3>1. assigned' = assigned
      BY <2>2 DEF Confirm, ApplyTaskEvent
    <3>2. FirstActive(status') \in Tasks \cup {NoTask}
      BY <3>1, ActiveNext
    <3>. QED
      BY <2>2, <3>2 DEF Confirm
  <2>. QED
    BY <2>1, <2>2
<1>3. PICK u \in Tasks \cup {NoTask} : Build(u, command, store) /\ Later(Orders(u))
  BY <1>2
<1>4. UNCHANGED <<toRobot, seen, since>>
  BY DEF Create, Confirm, RequestKeeps, channelVars, agentVars, historyVars
<1>5. Sent' \subseteq Sent \cup Built(u)
  BY <1>3, OrdersGive, LaterGives
<1>6. Given' \subseteq Given \cup Built(u)
  BY <1>4, <1>5 DEF Given
<1>. QED
  BY <1>1, <1>3, <1>4, <1>6, BuildingKeeps

(* A retry begins an attempt: all that was given before is of an old one.  *)
LEMMA RetryGives ==
  ASSUME LinkInv, IInv, GivenInv, NEW t \in Tasks, Retry(t)
  PROVE  GivenInv'
<1>. DEFINE cmd  == [command EXCEPT ![t] = NoCommand]
            hist == [since EXCEPT ![t] = issued]
<1>1. /\ Build(t, cmd, store) /\ Later(Orders(t)) /\ since' = hist
      /\ UNCHANGED <<toRobot, seen>>
  BY DEF Retry, RequestKeeps, channelVars, agentVars
<1>2. /\ cmd[t] = NoCommand /\ hist[t] = issued
      /\ \A u \in Tasks \ {t} : cmd[u] = command[u] /\ hist[u] = since[u]
  BY DEF LinkInv, Books, OwnCommands, DrawnBefore
<1>3. OwnCommands(cmd) /\ DrawnBefore(hist, issued)
  BY DEF LinkInv, Books, OwnCommands, DrawnBefore
<1>4. \A u \in Tasks \ {t} : status'[u] \in Early => status[u] \in Early
  <2>. DEFINE queued == [status EXCEPT ![t] = "QUEUED"]
  <2>1. PICK rs, cur : DispatchNext(queued, assigned, priority, queueOrder, online,
                                    rs, cur, assigned[t])
    BY DEF Retry, RetryTask
  <2>2. queued \in [Tasks -> TaskStatus \cup {"ABSENT"}]
    BY DEF IInv, Good, Rows, TaskStatus
  <2>3. \A u \in Tasks : status'[u] \in Early => queued[u] \in Early
    BY <2>1, <2>2, DispatchNotBack
  <2>. QED
    BY <2>3 DEF IInv, Good, Rows
<1>. HIDE DEF cmd, hist
<1>5. Past(cmd, status')
  BY <1>2, <1>4 DEF GivenInv, Past, NoCommand
<1>6. Fitting(Given, issued, cmd, store, hist)
  <2>1. /\ Given \subseteq Ids /\ \A x \in Given : x.n <= issued
        /\ \A u \in Tasks : command[u].n <= issued
        /\ issued \in Nat /\ store \in Ids \cup {NoCommand}
    BY DEF GivenInv, Fitting, LinkInv, Books
  <2>2. \A u \in Tasks : cmd[u].n <= issued
    BY <1>2, <2>1 DEF NoCommand
  <2>3. \A x \in Given : x.n > hist[x.task] =>
          /\ x.task \in Tasks \ {t} /\ cmd[x.task] = command[x.task]
          /\ x.n > since[x.task] /\ hist[x.task] = since[x.task]
    <3>1. \A x \in Given : x.task \in Tasks /\ x.n \in Nat /\ x.n <= issued
      BY <2>1 DEF Ids
    <3>. QED
      BY <1>2, <2>1, <3>1
  <2>4. Remembered(Given, cmd, hist)
    BY <2>3 DEF GivenInv, Fitting, Remembered
  <2>5. OneEach(Given, hist)
    BY <2>3 DEF GivenInv, Fitting, OneEach
  <2>6. MemoryFits(cmd, store, hist)
    <3>. SUFFICES ASSUME store # NoCommand
                  PROVE  cmd[store.task] = store
                         \/ (cmd[store.task] = NoCommand /\ store.n <= hist[store.task])
      BY DEF MemoryFits
    <3>1. /\ store.task \in Tasks /\ store.n \in Nat
          /\ command[store.task] = store
             \/ (command[store.task] = NoCommand /\ store.n <= since[store.task])
      BY <2>1 DEF GivenInv, Fitting, MemoryFits, Ids
    <3>2. since[store.task] \in Nat /\ since[store.task] <= issued
      BY <3>1 DEF LinkInv, Books, DrawnBefore
    <3>3. store.n <= issued
      BY <2>1, <3>1, <3>2
    <3>. QED
      BY <1>2, <3>1, <3>3
  <2>. QED
    BY <2>1, <2>2, <2>4, <2>5, <2>6 DEF Fitting
<1>7. /\ Fitting(Given \cup Built(t), issued', command', store', hist)
      /\ Past(command', status')
  BY <1>1, <1>3, <1>5, <1>6, BuildFits DEF Built, LinkInv, Books
<1>8. Given' \subseteq Given \cup Built(t)
  <2>1. Sent' \subseteq Sent \cup Built(t)
    BY <1>1, OrdersGive, LaterGives
  <2>. QED
    BY <1>1, <2>1 DEF Given
<1>9. Fitting(Given', issued', command', store', since')
  BY <1>1, <1>7, <1>8, FittingLess
<1>. QED
  BY <1>7, <1>9 DEF GivenInv

LEMMA OperatorGives ==
  ASSUME LinkInv, IInv, GivenInv,
         \/ \E t \in Tasks : RequestCancel(t)
         \/ MarkOffline \/ ClearAfterOffline \/ Stop \/ Elsewhere
  PROVE  GivenInv'
<1>1. Bot \in Robots
  BY LinkAssumption
<1>2. ASSUME NEW t \in Tasks, RequestCancel(t)
      PROVE  GivenInv'
  <2>. DEFINE ms == IF current[Bot] = t THEN <<Cancel(t)>> ELSE <<>>
  <2>1. \A m \in {ms[i] : i \in DOMAIN ms} : m.kind = "navigate" => m.id \in {}
    BY DEF Cancel
  <2>2. Later(ms) /\ UNCHANGED <<toRobot, seen, command, store, issued, since>>
    BY <1>2 DEF RequestCancel, RequestKeeps, channelVars, agentVars, historyVars
  <2>. HIDE DEF ms
  <2>3. Sent' \subseteq Sent \cup {}
    BY <2>1, <2>2, LaterGives
  <2>4. NotBack
    BY <1>1, <1>2, TaskNotBack DEF RequestCancel
  <2>. QED
    BY <2>2, <2>3, <2>4, QuietKeeps DEF Given
<1>3. CASE MarkOffline \/ ClearAfterOffline \/ Stop
  <2>1. NotBack
    BY <1>1, <1>3, RobotNotBack DEF MarkOffline, ClearAfterOffline, Stop, SetRobotOffline,
                                    ActivateEmergencyStop, vars, taskVars
  <2>2. /\ UNCHANGED <<command, issued, since, sends, toRobot, seen>>
        /\ store' \in {store, NoCommand}
    BY <1>3 DEF MarkOffline, ClearAfterOffline, Stop, StoreAfterStop, commandVars, channelVars,
                agentVars, historyVars
  <2>. QED
    BY <2>1, <2>2, QuietKeeps DEF Given, Sent
<1>4. CASE Elsewhere
  <2>1. NotBack
    <3>1. CASE SetRobotOnline(Bot) \/ RecoverRobot(Bot)
      BY <1>1, <3>1, RobotNotBack
    <3>2. CASE \E t \in Tasks, p \in Priorities \cup {"KEEP"}, d \in {"UP", "DOWN", "NONE"} :
                 UpdateQueuedTask(t, p, d)
      BY <1>1, <3>2, RobotNotBack DEF UpdateQueuedTask
    <3>3. CASE AcknowledgeReset(Bot) \/ \E s \in {"NOT_READY", "READY"} : ReportReadiness(Bot, s)
      BY <1>1, <3>3, RobotNotBack DEF AcknowledgeReset, ReportReadiness, taskVars
    <3>. QED
      BY <1>4, <3>1, <3>2, <3>3 DEF Elsewhere
  <2>2. UNCHANGED <<command, issued, since, sends, toRobot, seen, store>>
    BY <1>4 DEF Elsewhere, driveVars, commandVars, memoryVars, channelVars, agentVars, historyVars
  <2>. QED
    BY <2>1, <2>2, QuietKeeps DEF Given, Sent
<1>. QED
  BY <1>2, <1>3, <1>4

LEMMA SocketGives ==
  ASSUME LinkInv, IInv, GivenInv,
         \/ \E m \in sends : SendLater(m)
         \/ Reconnect \/ LoseSocket \/ RestartBackend
  PROVE  GivenInv'
<1>1. Bot \in Robots /\ Navs(<<>>) = {}
  BY LinkAssumption, NavsOf DEF LinkInv, Traffic
<1>2. ASSUME NEW m \in sends, SendLater(m)
      PROVE  GivenInv'
  <2>1. /\ NotBack /\ UNCHANGED <<command, issued, since, store, seen>>
        /\ sends' = sends \ {m} /\ Send(<<m>>)
    BY <1>1, <1>2, RobotNotBack DEF SendLater, vars, taskVars, commandVars, agentVars, historyVars
  <2>2. Navs(toRobot') \subseteq Navs(toRobot) \cup Navs(<<m>>)
    <3>1. <<m>> \in Seq(Heard)
      BY DEF LinkInv, Traffic
    <3>. QED
      BY <2>1, <3>1, SendGives DEF LinkInv, Traffic
  <2>3. Navs(<<m>>) \subseteq Sent
    <3>1. DOMAIN <<m>> = {1} /\ <<m>>[1] = m
      OBVIOUS
    <3>. QED
      BY <3>1 DEF Navs, Sent
  <2>. QED
    BY <2>1, <2>2, <2>3, QuietKeeps DEF Given, Sent
<1>3. CASE Reconnect
  <2>1. NotBack
    BY <1>1, <1>3, RobotNotBack DEF Reconnect
  <2>. QED
    BY <1>1, <1>3, <2>1, QuietKeeps
       DEF Reconnect, Given, Sent, commandVars, agentVars, historyVars
<1>4. CASE LoseSocket
  <2>1. NotBack
    BY <1>1, <1>4, RobotNotBack DEF LoseSocket, Disconnect, SendFails, Revoke, taskVars
  <2>. QED
    BY <1>1, <1>4, <2>1, QuietKeeps
       DEF LoseSocket, Given, Sent, commandVars, agentVars, historyVars
<1>5. CASE RestartBackend
  <2>1. NotBack
    BY <1>1, <1>5, RobotNotBack DEF RestartBackend, Restart, taskVars
  <2>2. /\ UNCHANGED <<command, issued, since, seen>>
        /\ toRobot' = <<>> /\ sends' = {} /\ store' = NoCommand
    BY <1>5 DEF RestartBackend, commandVars, agentVars, historyVars
  <2>3. Given' \subseteq Given
    BY <1>1, <2>2 DEF Given, Sent
  <2>. QED
    BY <2>1, <2>2, <2>3, QuietKeeps
<1>. QED
  BY <1>2, <1>3, <1>4, <1>5

LEMMA ResendGives ==
  ASSUME LinkInv, IInv, GivenInv, Resend
  PROVE  GivenInv'
<1>. DEFINE t == FirstActive(status)
<1>1. /\ t \in Tasks \cup {NoTask} /\ NotBack
      /\ UNCHANGED <<sends, seen, since>>
  BY ActiveNow, RobotNotBack, LinkAssumption
     DEF Resend, vars, taskVars, agentVars, historyVars
<1>. HIDE DEF t
<1>2. CASE /\ ToConfirm(current[Bot]) /\ Send(<<Cancel(current[Bot])>>)
           /\ UNCHANGED <<command, store, issued>>
  <2>. DEFINE m == Cancel(current[Bot])
  <2>1. current[Bot] \in Tasks
    BY <1>2, LinkAssumption DEF ToConfirm, IInv, Good, Rows
  <2>2. m \in Heard /\ m.kind = "cancel"
    BY <2>1 DEF Heard, Cancel
  <2>. HIDE DEF m
  <2>3. <<m>> \in Seq(Heard) /\ Navs(<<m>>) = {}
    BY <2>2 DEF Navs
  <2>4. Navs(toRobot') \subseteq Navs(toRobot)
    BY <1>2, <2>3, SendGives DEF LinkInv, Traffic, m
  <2>. QED
    BY <1>1, <1>2, <2>4, QuietKeeps DEF Given, Sent
<1>3. CASE Build(t, command, store) /\ Send(Resent(t))
  <2>1. Orders(t) \in Seq(Heard)
    BY <1>1, <1>3, BuildKeeps DEF LinkInv, Books
  <2>2. Navs(toRobot') \subseteq Navs(toRobot) \cup Built(t)
    BY <1>3, <2>1, SendGives, OrdersGive DEF Resent, LinkInv, Traffic
  <2>3. Given' \subseteq Given \cup Built(t)
    BY <1>1, <2>2 DEF Given, Sent
  <2>. QED
    BY <1>1, <1>3, <2>3, BuildingKeeps
<1>. QED
  BY <1>2, <1>3 DEF Resend, t

(* The receive loop builds from an empty memory.                           *)
LEMMA NextGives ==
  ASSUME LinkInv, GivenInv, NotBack, NEW t \in Tasks \cup {NoTask}, Build(t, command, NoCommand),
         NEW ms \in Seq(Heard), Navs(ms) = {}, Send(ms \o Orders(t)),
         UNCHANGED <<sends, seen, since>>
  PROVE  GivenInv'
<1>1. Orders(t) \in Seq(Heard)
  BY BuildKeeps DEF LinkInv, Books
<1>2. ms \o Orders(t) \in Seq(Heard) /\ Navs(ms \o Orders(t)) \subseteq Built(t)
  BY <1>1, Grows, NavsOf, OrdersGive
<1>3. Navs(toRobot') \subseteq Navs(toRobot) \cup Built(t)
  BY <1>2, SendGives DEF LinkInv, Traffic
<1>4. Given' \subseteq Given \cup Built(t)
  BY <1>3 DEF Given, Sent
<1>. QED
  BY <1>4, BuildingKeeps

LEMMA ReceiveGives ==
  ASSUME LinkInv, IInv, IInv', GivenInv, Receive
  PROVE  GivenInv'
<1>. DEFINE m == Head(toBackend)
<1>1. m \in Said /\ UNCHANGED <<sends, seen, since>> /\ Bot \in Robots
  BY HeadTail, LinkAssumption DEF Receive, LinkInv, Traffic, agentVars, historyVars
<1>2. /\ m.kind \in {"result", "rejected"} => m.id \in Ids /\ m.id.task \in Tasks
      /\ m.kind = "cancelled" => m.id.task \in Tasks
  BY <1>1, SaidKinds
<1>3. Navs(<<>>) = {} /\ <<>> \in Seq(Heard)
  BY NavsOf DEF LinkInv, Traffic
<1>. HIDE DEF m
<1>4. ASSUME UNCHANGED status, UNCHANGED <<commandVars, store, toRobot>>
      PROVE  GivenInv'
  BY <1>1, <1>4, RobotNotBack, QuietKeeps DEF commandVars, Given, Sent
<1>5. CASE m.kind = "result" /\ ReceiveResult(m.id, m.outcome)
  <2>. DEFINE answer == <<Received(m.id)>>
  <2>1. answer \in Seq(Heard) /\ Navs(answer) = {}
    <3>1. Received(m.id) \in Heard /\ Received(m.id).kind = "received"
      BY <1>2, <1>5 DEF Heard, Received
    <3>. QED
      BY <3>1 DEF Navs
  <2>2. CASE UNCHANGED vars /\ Send(answer) /\ UNCHANGED <<commandVars, store>>
    <3>1. Navs(toRobot') \subseteq Navs(toRobot)
      BY <2>1, <2>2, SendGives DEF LinkInv, Traffic
    <3>2. NotBack
      BY <1>1, <2>2, RobotNotBack DEF vars, taskVars
    <3>. QED
      BY <1>1, <2>2, <3>1, <3>2, QuietKeeps DEF commandVars, Given, Sent
  <2>3. CASE /\ Apply(m.id, m.outcome)
             /\ LET next == IF m.outcome = "succeeded" THEN NoTask ELSE FirstActive(status')
                IN Build(next, command, NoCommand) /\ Send(answer \o Orders(next))
    <3>. DEFINE next == IF m.outcome = "succeeded" THEN NoTask ELSE FirstActive(status')
    <3>1. assigned' = assigned /\ NotBack
      BY <1>1, <1>2, <1>5, <2>3, TaskNotBack DEF Apply, ApplyTaskEvent
    <3>2. next \in Tasks \cup {NoTask}
      BY <3>1, ActiveNext
    <3>3. Build(next, command, NoCommand) /\ Send(answer \o Orders(next))
      BY <2>3
    <3>. HIDE DEF next, answer
    <3>. QED
      BY <1>1, <2>1, <3>1, <3>2, <3>3, NextGives
  <2>4. CASE UNCHANGED <<vars, commandVars, store, toRobot>>
    BY <1>4, <2>4 DEF vars, taskVars
  <2>. QED
    BY <1>5, <2>2, <2>3, <2>4 DEF ReceiveResult
<1>6. CASE m.kind = "rejected" /\ ReceiveRejection(m.id)
  <2>1. CASE UNCHANGED <<vars, commandVars, store, toRobot>>
    BY <1>4, <2>1 DEF vars, taskVars
  <2>2. CASE Apply(m.id, "rejected") /\ store' = NoCommand /\ UNCHANGED <<command, issued, toRobot>>
    <3>1. NotBack
      BY <1>1, <1>2, <1>6, <2>2, TaskNotBack DEF Apply
    <3>. QED
      BY <1>1, <2>2, <3>1, QuietKeeps DEF Given, Sent
  <2>3. CASE Disconnect(Bot) /\ toRobot' = <<>> /\ UNCHANGED <<commandVars, store>>
    <3>1. NotBack
      BY <1>1, <2>3, RobotNotBack DEF Disconnect, taskVars
    <3>. QED
      BY <1>1, <1>3, <2>3, <3>1, QuietKeeps DEF commandVars, Given, Sent
  <2>. QED
    BY <1>6, <2>1, <2>2, <2>3 DEF ReceiveRejection
<1>7. CASE m.kind = "cancelled" /\ ReceiveCancelled(m.id.task)
  <2>1. CASE UNCHANGED <<vars, commandVars, store, toRobot>>
    BY <1>4, <2>1 DEF vars, taskVars
  <2>2. CASE /\ FinalizeNavigationCancel(m.id.task, Bot)
             /\ LET next == FirstActive(status')
                IN Build(next, command, NoCommand) /\ Send(Orders(next))
    <3>. DEFINE next == FirstActive(status')
    <3>1. assigned' = assigned /\ NotBack
      BY <1>1, <1>2, <1>7, <2>2, TaskNotBack DEF FinalizeNavigationCancel
    <3>2. next \in Tasks \cup {NoTask}
      BY <3>1, ActiveNext
    <3>3. Build(next, command, NoCommand) /\ Send(Orders(next))
      BY <2>2
    <3>. HIDE DEF next
    <3>4. Orders(next) \in Seq(Heard)
      BY <3>2, <3>3, BuildKeeps DEF LinkInv, Books
    <3>5. <<>> \o Orders(next) = Orders(next)
      BY <3>4
    <3>. QED
      BY <1>1, <1>3, <3>1, <3>2, <3>3, <3>5, NextGives
  <2>. QED
    BY <1>7, <2>1, <2>2 DEF ReceiveCancelled
<1>. QED
  BY <1>5, <1>6, <1>7 DEF Receive, m

(* The Agent is given what was on its way.                                 *)
LEMMA AgentGives ==
  ASSUME LinkInv, IInv, GivenInv,
         \/ AgentTakes \/ AgentStops \/ AgentRestarts
         \/ \E id \in goals, outcome \in Outcomes : AgentFinishes(id, outcome)
         \/ \E p \in outbox : AgentReports(p)
  PROVE  GivenInv'
<1>1. UNCHANGED <<command, issued, since, store, sends>> /\ NotBack
  BY AgentOK, RobotNotBack, LinkAssumption
     DEF AgentTakes, AgentStops, AgentRestarts, AgentFinishes, AgentReports,
         vars, taskVars, commandVars, memoryVars, historyVars
<1>2. seen' \cup Navs(toRobot') \subseteq seen \cup Navs(toRobot)
  <2>1. CASE AgentTakes
    <3>1. /\ toRobot # <<>> /\ toRobot' = Tail(toRobot)
          /\ seen' = seen \/ (Head(toRobot).kind = "navigate" /\ seen' = seen \cup {Head(toRobot).id})
      BY <2>1 DEF AgentTakes, agentVars
    <3>. QED
      BY <3>1, NavsOf DEF LinkInv, Traffic
  <2>2. CASE AgentRestarts
    BY <2>2 DEF AgentRestarts, channelVars
  <2>3. CASE \/ AgentStops \/ \E id \in goals, outcome \in Outcomes : AgentFinishes(id, outcome)
             \/ \E p \in outbox : AgentReports(p)
    BY <2>3 DEF AgentStops, AgentFinishes, AgentReports, channelVars, agentVars
  <2>. QED
    BY <2>1, <2>2, <2>3
<1>3. Given' \subseteq Given
  BY <1>1, <1>2 DEF Given, Sent
<1>. QED
  BY <1>1, <1>3, QuietKeeps

LEMMA GivenStep ==
  ASSUME LinkInv, IInv, IInv', GivenInv, [LinkNext]_allVars
  PROVE  GivenInv'
<1>1. CASE UNCHANGED allVars
  BY <1>1, RobotNotBack, LinkAssumption, QuietKeeps
     DEF allVars, driveVars, vars, taskVars, commandVars, memoryVars, channelVars, agentVars,
         historyVars, Given, Sent
<1>. QED
  BY <1>1, RequestGives, RetryGives, OperatorGives, SocketGives, ResendGives, ReceiveGives,
     AgentGives DEF LinkNext

(* A leg of an attempt has one identity, whatever was resent, lost or       *)
(* restarted (build_navigation_command takes the command in memory, then    *)
(* the row's, and draws one only when neither is for the leg).              *)
THEOREM OneIdentityPerLegHolds == LinkSpec => []OneIdentityPerLeg
<1>1. LinkInit => GivenInv
  <2>. SUFFICES ASSUME LinkInit PROVE GivenInv
    OBVIOUS
  <2>1. Given = {} /\ issued = 0 /\ store = NoCommand /\ \A t \in Tasks : command[t] = NoCommand
    BY DEF LinkInit, Given, Navs, Sent
  <2>. QED
    BY <2>1 DEF GivenInv, Fitting, Remembered, MemoryFits, OneEach, Past, NoCommand
<1>2. LinkInv /\ IInv /\ GivenInv /\ (LinkInv /\ IInv)' /\ [LinkNext]_allVars => GivenInv'
  BY GivenStep
<1>3. GivenInv => OneIdentityPerLeg
  BY DEF GivenInv, Fitting, OneEach, Given, Navs, OneIdentityPerLeg
<1>. QED
  BY <1>1, <1>2, <1>3, LinkInvariance, PTL DEF LinkSpec

=============================================================================
