--------------------------- MODULE EmergencyStop ---------------------------
(***************************************************************************)
(* The software emergency stop of one robot: the persisted row of          *)
(* emergency_service.py, the requests of routers/emergency.py, the resend  *)
(* of a connection being set up and the acknowledgement handler of         *)
(* robot_ws.py, over a socket that may die between any two of them.        *)
(*                                                                         *)
(* The asynchronous handlers interleave where they await: an activation    *)
(* broadcasts an alert before it sends.  The status request runs on a      *)
(* thread of its own and takes no row lock.  FleetMission has the latch's  *)
(* effect on deliveries; here is the protocol around it.                   *)
(***************************************************************************)
EXTENDS Naturals, Sequences

CONSTANTS
  MaxCommands,  \* bound: command ids ever issued
  MaxInFlight   \* bound: messages on the socket in one direction

ASSUME EmergencyAssumption == MaxCommands \in Nat /\ MaxInFlight \in Nat

NoId == 0                  \* pending_command_id = None
Ids  == 1 .. MaxCommands   \* uuids, in the order they are drawn

Commands == {"emergency_stop", "emergency_stop_reset"}
Requested == {"STOP_REQUESTED", "RESET_REQUESTED"}
EmergencyStopState == {"NORMAL", "STOPPED", "FAILED"} \cup Requested

VARIABLES
  estop,       \* EmergencyStopORM.state
  latched,     \* EmergencyStopORM.latched
  pending,     \* EmergencyStopORM.pending_command_id
  deadline,    \* whether EmergencyStopORM.command_deadline is set
  issued,      \* the last id drawn
  connected,   \* a socket is registered for the robot
  setup,       \* its connection is still being set up
  toRobot,     \* commands on the socket
  toBackend,   \* acknowledgements on the socket
  suspended,   \* ids of the activations that have yet to send
  expiring,    \* a status request has read a command past its deadline
  engaged,     \* the robot's own stop is engaged (external)
  performed    \* history: commands the robot performed since the activation

rowVars  == <<estop, latched, pending, deadline>>
linkVars == <<connected, setup, toRobot, toBackend>>
vars == <<rowVars, linkVars, issued, suspended, expiring, engaged, performed>>

Init ==
  /\ estop = "NORMAL" /\ latched = FALSE /\ pending = NoId /\ deadline = FALSE
  /\ issued = 0
  /\ connected = FALSE /\ setup = FALSE /\ toRobot = <<>> /\ toBackend = <<>>
  /\ suspended = {} /\ expiring = FALSE
  /\ engaged = FALSE /\ performed = {}

-----------------------------------------------------------------------------
(* send_json, after the handler set the row's state, id and deadline.  When *)
(* there is no socket, or it dies, mark_delivery_failed follows: it fails   *)
(* the command if that is still the pending one.                            *)
Transmit(command, id, st, pend, due) ==
  /\ pending' = pend
  /\ \/ /\ connected /\ Len(toRobot) < MaxInFlight
        /\ toRobot' = Append(toRobot, [id |-> id, command |-> command])
        /\ estop' = st /\ deadline' = due
        /\ UNCHANGED <<connected, setup>>
     \/ /\ connected' = FALSE /\ setup' = FALSE /\ toRobot' = <<>>
        /\ \/ id = pend /\ id # NoId /\ estop' = "FAILED" /\ deadline' = FALSE
           \/ (id # pend \/ id = NoId) /\ estop' = st /\ deadline' = due

(* Activating a latched stop sends the pending id again, whichever command  *)
(* that id was drawn for; a new stop waits for a broadcast before it sends. *)
Activate ==
  \/ /\ ~latched /\ issued < MaxCommands
     /\ issued' = issued + 1
     /\ latched' = TRUE /\ estop' = "STOP_REQUESTED"
     /\ pending' = issued + 1 /\ deadline' = TRUE
     /\ suspended' = suspended \cup {issued + 1}
     /\ performed' = {}
     /\ UNCHANGED <<linkVars, expiring, engaged>>
  \/ /\ latched
     /\ Transmit("emergency_stop", pending, estop, pending, deadline)
     /\ UNCHANGED <<latched, issued, toBackend, suspended, expiring, engaged, performed>>

SendActivation(id) ==
  /\ id \in suspended
  /\ suspended' = suspended \ {id}
  /\ Transmit("emergency_stop", id, estop, pending, deadline)
  /\ UNCHANGED <<latched, issued, toBackend, expiring, engaged, performed>>

RequestReset ==
  /\ latched
  /\ \/ /\ estop # "RESET_REQUESTED" /\ issued < MaxCommands
        /\ issued' = issued + 1
        /\ Transmit("emergency_stop_reset", issued + 1, "RESET_REQUESTED", issued + 1, TRUE)
     \/ /\ estop = "RESET_REQUESTED"
        /\ Transmit("emergency_stop_reset", pending, estop, pending, deadline)
        /\ UNCHANGED issued
  /\ UNCHANGED <<latched, toBackend, suspended, expiring, engaged, performed>>

-----------------------------------------------------------------------------
(* The receive loop: one acknowledgement at a time.                        *)

(* The command the row waits for.                                          *)
Expected ==
  IF estop \in {"STOP_REQUESTED", "FAILED"} /\ latched
  THEN "emergency_stop" ELSE "emergency_stop_reset"

(* Seeded fault: any acknowledgement is taken for the pending command's.    *)
Matches_Unchecked(a) == a.id # NoId /\ pending # NoId

Matches(a) == a.id # NoId /\ a.id = pending /\ a.command = Expected

Acknowledge ==
  /\ toBackend # <<>> /\ ~setup
  /\ toBackend' = Tail(toBackend)
  /\ LET a == Head(toBackend)
     IN \/ ~Matches(a) /\ UNCHANGED rowVars
        \/ /\ Matches(a)
           /\ pending' = NoId /\ deadline' = FALSE
           /\ \/ ~a.accepted /\ estop' = "FAILED" /\ latched' = latched
              \/ /\ a.accepted /\ a.command = "emergency_stop"
                 /\ estop' = "STOPPED" /\ latched' = latched
              \/ /\ a.accepted /\ a.command = "emergency_stop_reset"
                 /\ estop' = "NORMAL" /\ latched' = FALSE
  /\ UNCHANGED <<connected, setup, toRobot, issued, suspended, expiring,
                 engaged, performed>>

-----------------------------------------------------------------------------
(* Deadlines.                                                              *)

(* Whoever reads the row past its deadline fails the command: the dashboard *)
(* snapshot, and each handler above before anything else it does.           *)
Expire ==
  /\ deadline /\ estop \in Requested
  /\ estop' = "FAILED" /\ deadline' = FALSE
  /\ UNCHANGED <<latched, pending, issued, linkVars, suspended, expiring,
                 engaged, performed>>

(* The status request on its thread reads the row, and writes it later.     *)
ReadExpired ==
  /\ deadline /\ estop \in Requested /\ ~expiring
  /\ expiring' = TRUE
  /\ UNCHANGED <<rowVars, issued, linkVars, suspended, engaged, performed>>

WriteExpired ==
  /\ expiring /\ expiring' = FALSE
  /\ estop' = "FAILED" /\ deadline' = FALSE
  /\ UNCHANGED <<latched, pending, issued, linkVars, suspended, engaged, performed>>

-----------------------------------------------------------------------------
(* The socket.                                                             *)

(* A socket that replaces another closes it; one that had been dropped after *)
(* a failed send is not closed, and its receive loop still has its messages. *)
Connect ==
  /\ connected' = TRUE /\ setup' = TRUE /\ toRobot' = <<>>
  /\ \/ toBackend' = <<>>
     \/ ~connected /\ UNCHANGED toBackend
  /\ UNCHANGED <<rowVars, issued, suspended, expiring, engaged, performed>>

(* Seeded faults: the stop reissued on reconnection has no deadline, or the *)
(* command's name for its state; a stop whose delivery failed is not sent   *)
(* again.                                                                   *)
Reissued_Command == [estop |-> "emergency_stop", deadline |-> TRUE]
Reissued_NoDeadline == [estop |-> "STOP_REQUESTED", deadline |-> FALSE]
Resends_NotFailed == latched /\ estop # "FAILED"

(* The row of a stop whose id was cleared, once it is given a new one.      *)
Reissued == [estop |-> "STOP_REQUESTED", deadline |-> TRUE]
Resends == latched

(* reconnect_command, sent before the receive loop starts.                  *)
SendOnReconnect ==
  /\ setup /\ setup' = FALSE
  /\ \/ /\ ~Resends
        /\ UNCHANGED <<rowVars, issued, toRobot>>
     \/ /\ Resends /\ Len(toRobot) < MaxInFlight
        /\ \/ /\ estop = "RESET_REQUESTED"
              /\ toRobot' = Append(toRobot, [id |-> pending, command |-> "emergency_stop_reset"])
              /\ UNCHANGED <<rowVars, issued>>
           \/ /\ estop # "RESET_REQUESTED" /\ pending # NoId
              /\ toRobot' = Append(toRobot, [id |-> pending, command |-> "emergency_stop"])
              /\ UNCHANGED <<rowVars, issued>>
           \/ /\ estop # "RESET_REQUESTED" /\ pending = NoId /\ issued < MaxCommands
              /\ issued' = issued + 1 /\ pending' = issued + 1
              /\ estop' = Reissued.estop /\ deadline' = Reissued.deadline
              /\ toRobot' = Append(toRobot, [id |-> issued + 1, command |-> "emergency_stop"])
              /\ UNCHANGED latched
  /\ UNCHANGED <<connected, toBackend, suspended, expiring, engaged, performed>>

Disconnect ==
  /\ connected /\ connected' = FALSE /\ setup' = FALSE
  /\ toRobot' = <<>> /\ toBackend' = <<>>
  /\ UNCHANGED <<rowVars, issued, suspended, expiring, engaged, performed>>

(* The control plane restarts: sockets and handlers under way are gone.     *)
Restart ==
  /\ connected' = FALSE /\ setup' = FALSE /\ toRobot' = <<>> /\ toBackend' = <<>>
  /\ suspended' = {} /\ expiring' = FALSE
  /\ UNCHANGED <<rowVars, issued, engaged, performed>>

-----------------------------------------------------------------------------
(* The robot takes the next command: it performs it, or refuses.  An        *)
(* acknowledgement is not sent on a socket that has died.                   *)
Obey(accepted) ==
  /\ toRobot # <<>> /\ Len(toBackend) < MaxInFlight
  /\ LET c == Head(toRobot)
     IN /\ toRobot' = Tail(toRobot)
        /\ toBackend' = Append(toBackend, [id |-> c.id, command |-> c.command,
                                           accepted |-> accepted])
        /\ \/ accepted /\ engaged' = (c.command = "emergency_stop")
                       /\ performed' = performed \cup {c.command}
           \/ ~accepted /\ UNCHANGED <<engaged, performed>>
  /\ UNCHANGED <<rowVars, issued, connected, setup, suspended, expiring>>

Next ==
  \/ Activate \/ RequestReset \/ (\E id \in Ids : SendActivation(id))
  \/ Acknowledge \/ Expire \/ ReadExpired \/ WriteExpired
  \/ Connect \/ SendOnReconnect \/ Disconnect \/ Restart
  \/ \E accepted \in BOOLEAN : Obey(accepted)

Spec == Init /\ [][Next]_vars

(* An administrator's page polls the row; the event loop resumes a handler  *)
(* that awaits and a receive loop that has a message; a robot whose socket  *)
(* holds takes its commands.                                                *)
Fairness ==
  /\ WF_vars(Expire) /\ WF_vars(SendOnReconnect) /\ WF_vars(Acknowledge)
  /\ \A id \in Ids : WF_vars(SendActivation(id))
  /\ WF_vars(\E accepted \in BOOLEAN : Obey(accepted))

FairSpec == Spec /\ Fairness

-----------------------------------------------------------------------------
(* Every column and every message holds a value it can hold.               *)
Command == [id : Ids \cup {NoId}, command : Commands]
Ack == [id : Ids \cup {NoId}, command : Commands, accepted : BOOLEAN]

TypeOK ==
  /\ estop \in EmergencyStopState /\ latched \in BOOLEAN
  /\ pending \in Ids \cup {NoId} /\ deadline \in BOOLEAN
  /\ issued \in 0 .. MaxCommands
  /\ connected \in BOOLEAN /\ setup \in BOOLEAN
  /\ toRobot \in Seq(Command) /\ toBackend \in Seq(Ack)
  /\ suspended \subseteq Ids /\ expiring \in BOOLEAN
  /\ engaged \in BOOLEAN /\ performed \subseteq Commands

(* The columns agree, whichever handlers and threads wrote them: a command  *)
(* asked for has an id and a deadline, a settled one has neither, and only  *)
(* a latched stop is ever asked for, held or released.                      *)
RowCoherent ==
  /\ estop \in Requested => latched /\ pending # NoId /\ deadline
  /\ estop \in {"STOPPED", "NORMAL"} => pending = NoId /\ ~deadline
  /\ estop = "STOPPED" => latched
  /\ latched => estop # "NORMAL"

(* The latch falls only after the robot has performed a reset asked for     *)
(* since the stop was activated: no acknowledgement left over from an       *)
(* earlier stop, nor a timeout, nor a refusal releases it.                  *)
LatchFallsOnReset ==
  [][latched /\ ~latched' => "emergency_stop_reset" \in performed]_vars

(* The stop is shown as confirmed only after the robot has performed it     *)
(* since it was activated.                                                  *)
StoppedIsConfirmed ==
  [][estop' = "STOPPED" /\ estop # "STOPPED" => "emergency_stop" \in performed]_vars

(* A command asked for is settled in the end, acknowledged or failed.       *)
CommandSettles == estop \in Requested ~> estop \notin Requested

(* Unless a reset is asked for, a stop reaches a robot that refuses none in *)
(* the end, whatever was lost or timed out before: connecting once, and     *)
(* staying, is enough.                                                      *)
NoReset == estop # "RESET_REQUESTED"
NoRefusal == \A i \in DOMAIN toBackend : toBackend[i].accepted

StopReachesRobot ==
  [](NoReset /\ NoRefusal) /\ <>[](connected /\ ~setup) => (latched ~> engaged)
=============================================================================
