------------------------ MODULE EmergencyStop_proofs ------------------------
(***************************************************************************)
(* Proofs about EmergencyStop, for every number of commands and every      *)
(* capacity of the socket.                                                 *)
(*                                                                         *)
(* What an acknowledgement proves depends on what the robot has performed  *)
(* since the stop was activated.  The inductive invariant therefore says   *)
(* of every acknowledgement on the socket, not only of the next one, that  *)
(* it either answers an id that is no longer pending or was performed.     *)
(***************************************************************************)
EXTENDS EmergencyStop, TLAPS

-----------------------------------------------------------------------------
(* Sequences over a set, as the socket's channels are.                     *)

(* A sequence over a set is one over any larger set: messages on a socket  *)
(* stay well-formed when what is allowed of them grows.                    *)
LEMMA SeqMono ==
  ASSUME NEW S, NEW T, S \subseteq T, NEW s \in Seq(S)
  PROVE  s \in Seq(T)
  OBVIOUS

(* Sending a message keeps a channel over the same messages.               *)
LEMMA SeqAppend ==
  ASSUME NEW S, NEW s \in Seq(S), NEW e \in S
  PROVE  Append(s, e) \in Seq(S)
  OBVIOUS

(* Receiving the first message: it is one of them, and so are the others.  *)
LEMMA SeqReceive ==
  ASSUME NEW S, NEW s \in Seq(S), s # <<>>
  PROVE  Head(s) \in S /\ Tail(s) \in Seq(S)
  OBVIOUS

(* An empty channel is over any set of messages: a socket that is closed   *)
(* or replaced drops what was on it.                                       *)
LEMMA SeqEmpty ==
  ASSUME NEW S
  PROVE  <<>> \in Seq(S)
  OBVIOUS

-----------------------------------------------------------------------------
(* The commands, and the acknowledgements, under an id already drawn.       *)
Drawn(n) == {c \in Command : c.id <= n}

(* Acknowledgements that tell the truth of the pending command.            *)
Truthful(n, p, done) ==
  {a \in Ack : a.id <= n /\ (a.accepted /\ a.id = p /\ p # NoId => a.command \in done)}

(* TypeOK, but for the channels.                                           *)
Columns ==
  /\ estop \in EmergencyStopState /\ latched \in BOOLEAN
  /\ pending \in Ids \cup {NoId} /\ deadline \in BOOLEAN
  /\ issued \in 0 .. MaxCommands
  /\ connected \in BOOLEAN /\ setup \in BOOLEAN
  /\ suspended \subseteq Ids /\ expiring \in BOOLEAN
  /\ engaged \in BOOLEAN /\ performed \subseteq Commands

IdsDrawn ==
  /\ pending <= issued
  /\ \A id \in suspended : id <= issued

CommandsDrawn == toRobot \in Seq(Drawn(issued))

AcksTruthful == toBackend \in Seq(Truthful(issued, pending, performed))

(* A stop that is not latched has nothing pending.                         *)
Released == ~latched => pending = NoId /\ ~deadline

IInv == Columns /\ IdsDrawn /\ CommandsDrawn /\ AcksTruthful /\ RowCoherent /\ Released

(* Drawing an id, clearing the pending one or drawing a fresh one for it    *)
(* leaves every acknowledgement on the socket truthful, and so does         *)
(* performing more; a fresh id even when the history starts anew.           *)
LEMMA TruthfulStays ==
  ASSUME NEW n \in Nat, NEW m \in Nat, NEW p, NEW q, NEW done, NEW more,
         n <= m, q = NoId \/ (q \in Nat /\ q > n) \/ (q = p /\ done \subseteq more),
         NEW s \in Seq(Truthful(n, p, done))
  PROVE  s \in Seq(Truthful(m, q, more))
<1>1. ASSUME NEW a \in Truthful(n, p, done)
      PROVE  a \in Truthful(m, q, more)
  <2>1. a \in Ack /\ a.id \in Nat /\ a.id <= n
    BY EmergencyAssumption DEF Truthful, Ack, Ids, NoId
  <2>2. a.id <= m
    BY <2>1
  <2>3. a.accepted /\ a.id = q /\ q # NoId => a.command \in more
    BY <2>1 DEF Truthful
  <2> QED BY <2>1, <2>2, <2>3 DEF Truthful
<1> QED BY <1>1, SeqMono

(* Commands stay under a drawn id while more ids are drawn.                 *)
LEMMA DrawnStays ==
  ASSUME NEW n \in Nat, NEW m \in Nat, n <= m, NEW s \in Seq(Drawn(n))
  PROVE  s \in Seq(Drawn(m))
<1>1. ASSUME NEW c \in Drawn(n)
      PROVE  c \in Drawn(m)
  <2>1. c \in Command /\ c.id \in Nat /\ c.id <= n
    BY EmergencyAssumption DEF Drawn, Command, Ids, NoId
  <2> QED BY <2>1 DEF Drawn
<1> QED BY <1>1, SeqMono

(* The inductive invariant holds at first, and gives both invariants.       *)
LEMMA InitOK == Init => IInv
<1> SUFFICES ASSUME Init PROVE IInv
  OBVIOUS
<1>1. Columns
  <2>1. issued \in 0 .. MaxCommands
    BY EmergencyAssumption DEF Init
  <2> QED BY <2>1 DEF Init, Columns, EmergencyStopState
<1>2. IdsDrawn
  BY DEF Init, IdsDrawn, NoId
<1>3. RowCoherent /\ Released
  BY DEF Init, RowCoherent, Released, Requested
<1>4. CommandsDrawn /\ AcksTruthful
  BY SeqEmpty DEF Init, CommandsDrawn, AcksTruthful
<1> QED BY <1>1, <1>2, <1>3, <1>4 DEF IInv

LEMMA InvTyped == IInv => TypeOK
<1> SUFFICES ASSUME IInv PROVE TypeOK
  OBVIOUS
<1>1. toRobot \in Seq(Command)
  BY SeqMono DEF IInv, CommandsDrawn, Drawn
<1>2. toBackend \in Seq(Ack)
  BY SeqMono DEF IInv, AcksTruthful, Truthful
<1> QED BY <1>1, <1>2 DEF IInv, Columns, TypeOK

-----------------------------------------------------------------------------
(* The steps.                                                              *)

(* Sending a command under a drawn id keeps the channel, and leaves the row *)
(* as the handler set it or failed.                                         *)
LEMMA TransmitKeeps ==
  ASSUME IInv, issued' \in Nat, issued <= issued',
         NEW command \in Commands, NEW id \in Ids \cup {NoId}, id <= issued',
         NEW st, NEW pend, NEW due, Transmit(command, id, st, pend, due)
  PROVE  /\ CommandsDrawn'
         /\ connected' \in BOOLEAN /\ setup' \in BOOLEAN
         /\ pending' = pend
         /\ \/ estop' = st /\ deadline' = due
            \/ estop' = "FAILED" /\ deadline' = FALSE
<1>1. CommandsDrawn'
  <2> DEFINE c == [id |-> id, command |-> command]
  <2>1. issued \in Nat
    BY EmergencyAssumption DEF IInv, Columns
  <2>2. toRobot \in Seq(Drawn(issued'))
    BY <2>1, DrawnStays DEF IInv, CommandsDrawn
  <2>3. c \in Drawn(issued')
    BY DEF Drawn, Command
  <2>4. CASE toRobot' = Append(toRobot, c)
    BY <2>2, <2>3, <2>4, SeqAppend DEF CommandsDrawn
  <2>5. CASE toRobot' = <<>>
    BY <2>5, SeqEmpty DEF CommandsDrawn
  <2> QED BY <2>4, <2>5 DEF Transmit
<1>2. connected' \in BOOLEAN /\ setup' \in BOOLEAN
  BY DEF Transmit, IInv, Columns
<1> QED BY <1>1, <1>2 DEF Transmit

(* An activation gives the row a fresh id, or sends the pending one again.  *)
LEMMA ActivateOK == IInv /\ Activate => IInv'
<1> SUFFICES ASSUME IInv, Activate PROVE IInv'
  OBVIOUS
<1> USE EmergencyAssumption
<1>1. CASE ~latched
  <2>1. /\ issued \in Nat /\ issued' = issued + 1 /\ issued' \in Ids
        /\ pending' = issued' /\ pending' # NoId
        /\ latched' = TRUE /\ estop' = "STOP_REQUESTED" /\ deadline' = TRUE
        /\ suspended' = suspended \cup {issued'} /\ performed' = {}
        /\ UNCHANGED <<linkVars, expiring, engaged>>
    BY <1>1 DEF Activate, IInv, Columns, Ids, NoId
  <2>2. Columns'
    BY <2>1 DEF IInv, Columns, EmergencyStopState, Requested, linkVars, Ids
  <2>3. IdsDrawn'
    BY <2>1 DEF IInv, Columns, IdsDrawn, Ids
  <2>4. CommandsDrawn'
    BY <2>1, DrawnStays DEF IInv, CommandsDrawn, linkVars
  <2>5. AcksTruthful'
    BY <2>1, TruthfulStays DEF IInv, AcksTruthful, linkVars
  <2>6. RowCoherent' /\ Released'
    BY <2>1 DEF RowCoherent, Released
  <2> QED BY <2>2, <2>3, <2>4, <2>5, <2>6 DEF IInv
<1>2. CASE latched
  <2>1. /\ Transmit("emergency_stop", pending, estop, pending, deadline)
        /\ UNCHANGED <<latched, issued, toBackend, suspended, expiring, engaged, performed>>
    BY <1>2 DEF Activate
  <2>2. issued \in Nat /\ issued' \in Nat /\ issued <= issued' /\ pending <= issued'
    BY <2>1 DEF IInv, Columns, IdsDrawn
  <2>3. /\ CommandsDrawn' /\ connected' \in BOOLEAN /\ setup' \in BOOLEAN
        /\ pending' = pending
        /\ \/ estop' = estop /\ deadline' = deadline
           \/ estop' = "FAILED" /\ deadline' = FALSE
    BY <2>1, <2>2, TransmitKeeps DEF Commands, IInv, Columns
  <2>4. Columns' /\ IdsDrawn'
    BY <2>1, <2>3 DEF IInv, Columns, IdsDrawn, EmergencyStopState
  <2>5. AcksTruthful'
    BY <2>1, <2>3 DEF IInv, AcksTruthful
  <2>6. RowCoherent' /\ Released'
    BY <1>2, <2>1, <2>3 DEF IInv, RowCoherent, Released, Requested
  <2> QED BY <2>3, <2>4, <2>5, <2>6 DEF IInv
<1> QED BY <1>1, <1>2 DEF IInv, Columns

(* A suspended activation sends its own id, whatever the row says by then.  *)
LEMMA SendActivationOK ==
  ASSUME IInv, NEW id \in Ids, SendActivation(id) PROVE IInv'
<1> USE EmergencyAssumption
<1>1. /\ Transmit("emergency_stop", id, estop, pending, deadline)
      /\ id \in suspended /\ suspended' = suspended \ {id}
      /\ UNCHANGED <<latched, issued, toBackend, expiring, engaged, performed>>
  BY DEF SendActivation
<1>2. issued \in Nat /\ issued' \in Nat /\ issued <= issued' /\ id <= issued'
  BY <1>1 DEF IInv, Columns, IdsDrawn
<1>3. /\ CommandsDrawn' /\ connected' \in BOOLEAN /\ setup' \in BOOLEAN
      /\ pending' = pending
      /\ \/ estop' = estop /\ deadline' = deadline
         \/ estop' = "FAILED" /\ deadline' = FALSE
  BY <1>1, <1>2, TransmitKeeps DEF Commands
<1>4. Columns' /\ IdsDrawn'
  BY <1>1, <1>3 DEF IInv, Columns, IdsDrawn, EmergencyStopState
<1>5. AcksTruthful'
  BY <1>1, <1>3 DEF IInv, AcksTruthful
<1>6. RowCoherent' /\ Released'
  <2>1. latched' = latched /\ pending' = pending
    BY <1>1, <1>3
  <2>2. CASE estop' = estop /\ deadline' = deadline
    BY <2>1, <2>2 DEF IInv, RowCoherent, Released
  <2>3. CASE estop' = "FAILED" /\ deadline' = FALSE
    BY <2>1, <2>3 DEF IInv, RowCoherent, Released, Requested
  <2> QED BY <1>3, <2>2, <2>3
<1> QED BY <1>3, <1>4, <1>5, <1>6 DEF IInv

(* A reset gives the row a fresh id, or sends the pending reset again.      *)
LEMMA RequestResetOK == IInv /\ RequestReset => IInv'
<1> SUFFICES ASSUME IInv, RequestReset PROVE IInv'
  OBVIOUS
<1> USE EmergencyAssumption
<1>1. latched /\ UNCHANGED <<latched, toBackend, suspended, expiring, engaged, performed>>
  BY DEF RequestReset
<1>2. CASE /\ issued < MaxCommands /\ issued' = issued + 1
           /\ Transmit("emergency_stop_reset", issued + 1, "RESET_REQUESTED", issued + 1, TRUE)
  <2>1. /\ issued \in Nat /\ issued' \in Nat /\ issued <= issued'
        /\ issued + 1 \in Ids /\ issued + 1 <= issued'
    BY <1>2 DEF IInv, Columns, Ids
  <2>2. /\ CommandsDrawn' /\ connected' \in BOOLEAN /\ setup' \in BOOLEAN
        /\ pending' = issued + 1
        /\ \/ estop' = "RESET_REQUESTED" /\ deadline' = TRUE
           \/ estop' = "FAILED" /\ deadline' = FALSE
    BY <1>2, <2>1, TransmitKeeps DEF Commands
  <2>3. Columns'
    <3>1. issued' \in 0 .. MaxCommands /\ pending' \in Ids
      BY <1>2, <2>1, <2>2 DEF IInv, Columns, Ids
    <3>2. estop' \in EmergencyStopState /\ deadline' \in BOOLEAN
      BY <2>2 DEF EmergencyStopState, Requested
    <3> QED BY <1>1, <2>2, <3>1, <3>2 DEF IInv, Columns
  <2>4. IdsDrawn'
    BY <1>1, <1>2, <2>1, <2>2 DEF IInv, Columns, IdsDrawn, Ids
  <2>5. AcksTruthful'
    BY <1>1, <1>2, <2>1, <2>2, TruthfulStays DEF IInv, AcksTruthful
  <2>6. pending' # NoId
    BY <2>1, <2>2 DEF NoId
  <2>7. RowCoherent' /\ Released'
    BY <1>1, <2>2, <2>6 DEF IInv, RowCoherent, Released, Requested
  <2> QED BY <2>2, <2>3, <2>4, <2>5, <2>7 DEF IInv
<1>3. CASE /\ estop = "RESET_REQUESTED" /\ UNCHANGED issued
           /\ Transmit("emergency_stop_reset", pending, estop, pending, deadline)
  <2>1. issued \in Nat /\ issued' \in Nat /\ issued <= issued' /\ pending <= issued'
    BY <1>3 DEF IInv, Columns, IdsDrawn
  <2>2. /\ CommandsDrawn' /\ connected' \in BOOLEAN /\ setup' \in BOOLEAN
        /\ pending' = pending
        /\ \/ estop' = estop /\ deadline' = deadline
           \/ estop' = "FAILED" /\ deadline' = FALSE
    BY <1>3, <2>1, TransmitKeeps DEF Commands, IInv, Columns
  <2>3. Columns' /\ IdsDrawn'
    BY <1>1, <1>3, <2>2 DEF IInv, Columns, IdsDrawn, EmergencyStopState
  <2>4. AcksTruthful'
    BY <1>1, <1>3, <2>2 DEF IInv, AcksTruthful
  <2>5. RowCoherent' /\ Released'
    BY <1>1, <2>2 DEF IInv, RowCoherent, Released, Requested
  <2> QED BY <2>2, <2>3, <2>4, <2>5 DEF IInv
<1> QED BY <1>2, <1>3 DEF RequestReset

(* An acknowledgement that matches settles the row and clears its id; one   *)
(* that does not is dropped.                                                *)
LEMMA AcknowledgeOK == IInv /\ Acknowledge => IInv'
<1> SUFFICES ASSUME IInv, Acknowledge PROVE IInv'
  OBVIOUS
<1> USE EmergencyAssumption
<1> DEFINE a == Head(toBackend)
<1>1. /\ toBackend # <<>> /\ toBackend' = Tail(toBackend)
      /\ UNCHANGED <<connected, setup, toRobot, issued, suspended, expiring, engaged, performed>>
  BY DEF Acknowledge
<1>2. Tail(toBackend) \in Seq(Truthful(issued, pending, performed)) /\ a \in Ack
  BY <1>1, SeqReceive DEF IInv, AcksTruthful, Truthful
<1>3. CommandsDrawn'
  BY <1>1 DEF IInv, CommandsDrawn
<1>4. CASE UNCHANGED rowVars
  BY <1>1, <1>2, <1>3, <1>4
     DEF IInv, Columns, IdsDrawn, AcksTruthful, RowCoherent, Released, rowVars
<1>5. CASE /\ Matches(a) /\ pending' = NoId /\ deadline' = FALSE
           /\ \/ ~a.accepted /\ estop' = "FAILED" /\ latched' = latched
              \/ /\ a.accepted /\ a.command = "emergency_stop"
                 /\ estop' = "STOPPED" /\ latched' = latched
              \/ /\ a.accepted /\ a.command = "emergency_stop_reset"
                 /\ estop' = "NORMAL" /\ latched' = FALSE
  <2>1. Columns' /\ IdsDrawn'
    <3>1. estop' \in EmergencyStopState /\ latched' \in BOOLEAN
      BY <1>5 DEF EmergencyStopState, IInv, Columns
    <3>2. issued \in Nat /\ pending' <= issued'
      BY <1>1, <1>5 DEF IInv, Columns, NoId
    <3> QED BY <1>1, <1>5, <3>1, <3>2 DEF IInv, Columns, IdsDrawn
  <2>2. AcksTruthful'
    BY <1>1, <1>2, <1>5, TruthfulStays DEF IInv, Columns, AcksTruthful
  <2>3. a.command = "emergency_stop" => latched
    BY <1>5 DEF Matches, Expected
  <2>4. RowCoherent' /\ Released'
    BY <1>5, <2>3 DEF IInv, RowCoherent, Released, Requested
  <2> QED BY <1>3, <2>1, <2>2, <2>4 DEF IInv
<1> QED BY <1>4, <1>5 DEF Acknowledge

(* Timeouts fail the row, and leave its latch and its id alone.             *)
LEMMA TimeoutOK == IInv /\ (Expire \/ ReadExpired \/ WriteExpired) => IInv'
<1> SUFFICES ASSUME IInv, Expire \/ ReadExpired \/ WriteExpired PROVE IInv'
  OBVIOUS
<1>1. UNCHANGED <<latched, pending, issued, linkVars, suspended, engaged, performed>>
  BY DEF Expire, ReadExpired, WriteExpired, rowVars
<1>2. /\ UNCHANGED <<estop, deadline>> \/ (estop' = "FAILED" /\ deadline' = FALSE)
      /\ expiring' \in BOOLEAN
  BY DEF Expire, ReadExpired, WriteExpired, rowVars, IInv, Columns
<1>3. Columns' /\ IdsDrawn'
  BY <1>1, <1>2 DEF IInv, Columns, IdsDrawn, EmergencyStopState, linkVars
<1>4. CommandsDrawn' /\ AcksTruthful'
  BY <1>1 DEF IInv, CommandsDrawn, AcksTruthful, linkVars
<1>5. RowCoherent' /\ Released'
  <2>1. CASE UNCHANGED <<estop, deadline>>
    BY <1>1, <2>1 DEF IInv, RowCoherent, Released
  <2>2. CASE estop' = "FAILED" /\ deadline' = FALSE
    BY <1>1, <2>2 DEF IInv, RowCoherent, Released, Requested
  <2> QED BY <1>2, <2>1, <2>2
<1> QED BY <1>3, <1>4, <1>5 DEF IInv

(* Reconnecting resends what the row waits for, under a fresh id when the   *)
(* stop has none.                                                           *)
LEMMA SendOnReconnectOK == IInv /\ SendOnReconnect => IInv'
<1> SUFFICES ASSUME IInv, SendOnReconnect PROVE IInv'
  OBVIOUS
<1> USE EmergencyAssumption
<1>1. setup' = FALSE /\ UNCHANGED <<connected, toBackend, suspended, expiring, engaged, performed>>
  BY DEF SendOnReconnect
<1>2. CASE UNCHANGED <<rowVars, issued, toRobot>>
  BY <1>1, <1>2
     DEF IInv, Columns, IdsDrawn, CommandsDrawn, AcksTruthful, RowCoherent, Released, rowVars
<1>3. ASSUME NEW command \in Commands, UNCHANGED <<rowVars, issued>>,
             toRobot' = Append(toRobot, [id |-> pending, command |-> command])
      PROVE  IInv'
  <2>1. [id |-> pending, command |-> command] \in Drawn(issued)
    BY DEF IInv, Columns, IdsDrawn, Drawn, Command
  <2>2. CommandsDrawn'
    BY <1>3, <2>1, SeqAppend DEF IInv, CommandsDrawn
  <2>3. Columns' /\ IdsDrawn' /\ AcksTruthful' /\ RowCoherent' /\ Released'
    BY <1>1, <1>3
       DEF IInv, Columns, IdsDrawn, AcksTruthful, RowCoherent, Released, rowVars
  <2> QED BY <2>2, <2>3 DEF IInv
<1>4. CASE /\ latched /\ issued < MaxCommands /\ UNCHANGED latched
           /\ issued' = issued + 1 /\ pending' = issued + 1
           /\ estop' = Reissued.estop /\ deadline' = Reissued.deadline
           /\ toRobot' = Append(toRobot, [id |-> issued + 1, command |-> "emergency_stop"])
  <2>1. /\ issued \in Nat /\ issued' \in Ids /\ issued' = issued + 1 /\ pending' = issued'
        /\ pending' # NoId /\ estop' = "STOP_REQUESTED" /\ deadline' = TRUE
    BY <1>4 DEF IInv, Columns, Ids, NoId, Reissued
  <2>2. Columns'
    <3>1. issued' \in 0 .. MaxCommands /\ latched' \in BOOLEAN
      BY <1>4, <2>1 DEF IInv, Columns, Ids
    <3>2. estop' \in EmergencyStopState
      BY <2>1 DEF EmergencyStopState, Requested
    <3> QED BY <1>1, <2>1, <3>1, <3>2 DEF IInv, Columns
  <2>3. IdsDrawn'
    BY <1>1, <2>1 DEF IInv, Columns, IdsDrawn, Ids
  <2>4. toRobot \in Seq(Drawn(issued'))
    BY <2>1, DrawnStays DEF IInv, CommandsDrawn, Ids
  <2>5. [id |-> issued + 1, command |-> "emergency_stop"] \in Drawn(issued')
    BY <2>1 DEF Drawn, Command, Commands, Ids
  <2>6. CommandsDrawn'
    BY <1>4, <2>4, <2>5, SeqAppend DEF CommandsDrawn
  <2>7. AcksTruthful'
    BY <1>1, <2>1, TruthfulStays DEF IInv, AcksTruthful, Ids
  <2>8. RowCoherent' /\ Released'
    BY <1>4, <2>1 DEF RowCoherent, Released
  <2> QED BY <2>2, <2>3, <2>6, <2>7, <2>8 DEF IInv
<1> QED BY <1>2, <1>3, <1>4 DEF SendOnReconnect, Resends, Commands

(* The ends and beginnings of sockets leave the row and the ids alone.      *)
LEMMA SocketOK == IInv /\ (Connect \/ Disconnect \/ Restart) => IInv'
<1> SUFFICES ASSUME IInv, Connect \/ Disconnect \/ Restart PROVE IInv'
  OBVIOUS
<1>1. /\ UNCHANGED <<rowVars, issued, engaged, performed>>
      /\ connected' \in BOOLEAN /\ setup' \in BOOLEAN /\ expiring' \in BOOLEAN
      /\ suspended' \subseteq suspended
      /\ toRobot' = <<>> /\ (toBackend' = <<>> \/ UNCHANGED toBackend)
  BY DEF Connect, Disconnect, Restart, IInv, Columns
<1>2. Columns' /\ IdsDrawn' /\ RowCoherent' /\ Released'
  BY <1>1 DEF IInv, Columns, IdsDrawn, RowCoherent, Released, rowVars
<1>3. CommandsDrawn' /\ AcksTruthful'
  BY <1>1, SeqEmpty DEF IInv, CommandsDrawn, AcksTruthful, rowVars
<1> QED BY <1>2, <1>3 DEF IInv

(* The robot acknowledges what it took off the socket, and an acceptance is *)
(* sent only of what it has performed.                                      *)
LEMMA ObeyOK ==
  ASSUME IInv, NEW accepted \in BOOLEAN, Obey(accepted) PROVE IInv'
<1> USE EmergencyAssumption
<1> DEFINE c == Head(toRobot)
           a == [id |-> c.id, command |-> c.command, accepted |-> accepted]
<1>1. /\ toRobot # <<>> /\ toRobot' = Tail(toRobot) /\ toBackend' = Append(toBackend, a)
      /\ UNCHANGED <<rowVars, issued, connected, setup, suspended, expiring>>
      /\ \/ accepted /\ engaged' = (c.command = "emergency_stop")
                     /\ performed' = performed \cup {c.command}
         \/ ~accepted /\ UNCHANGED <<engaged, performed>>
  BY DEF Obey
<1>2. c \in Drawn(issued) /\ CommandsDrawn'
  BY <1>1, SeqReceive DEF IInv, CommandsDrawn
<1>3. c \in Command /\ c.id <= issued
  BY <1>2 DEF Drawn
<1>4. performed \subseteq performed' /\ performed' \subseteq Commands /\ engaged' \in BOOLEAN
  BY <1>1, <1>3 DEF IInv, Columns, Command
<1>5. Columns' /\ IdsDrawn' /\ RowCoherent' /\ Released'
  BY <1>1, <1>4 DEF IInv, Columns, IdsDrawn, RowCoherent, Released, rowVars
<1>6. a \in Truthful(issued', pending', performed')
  BY <1>1, <1>3 DEF Truthful, Ack, Command, rowVars
<1>7. toBackend \in Seq(Truthful(issued', pending', performed'))
  BY <1>1, <1>4, TruthfulStays DEF IInv, Columns, AcksTruthful, rowVars
<1>8. AcksTruthful'
  BY <1>1, <1>6, <1>7, SeqAppend DEF AcksTruthful
<1> QED BY <1>2, <1>5, <1>8 DEF IInv

(* Every step keeps the inductive invariant.                                *)
LEMMA StepOK == IInv /\ [Next]_vars => IInv'
<1> SUFFICES ASSUME IInv, [Next]_vars PROVE IInv'
  OBVIOUS
<1>1. CASE UNCHANGED vars
  BY <1>1 DEF IInv, Columns, IdsDrawn, CommandsDrawn, AcksTruthful, RowCoherent, Released,
              vars, rowVars, linkVars
<1> QED BY <1>1, ActivateOK, SendActivationOK, RequestResetOK, AcknowledgeOK, TimeoutOK,
           SendOnReconnectOK, SocketOK, ObeyOK DEF Next

-----------------------------------------------------------------------------
(* The theorems.                                                           *)

LEMMA Invariant == Spec => []IInv
  BY InitOK, StepOK, PTL DEF Spec

(* Whatever is sent, lost, repeated or late, every column and message of    *)
(* the emergency stop holds a value of its type.                            *)
THEOREM TypeCorrect == Spec => []TypeOK
  BY Invariant, InvTyped, PTL

(* The columns of the row agree with each other after every handler and     *)
(* every thread that writes them (emergency_service.py).                    *)
THEOREM RowCoherentHolds == Spec => []RowCoherent
<1>1. IInv => RowCoherent
  BY DEF IInv
<1> QED BY Invariant, <1>1, PTL

(* The acknowledgement handler releases the latch only on a reset performed *)
(* since the stop was activated, and no other step releases it.             *)
THEOREM LatchFallsOnResetHolds == Spec => LatchFallsOnReset
<1>1. IInv /\ [Next]_vars =>
        [latched /\ ~latched' => "emergency_stop_reset" \in performed]_vars
  <2> SUFFICES ASSUME IInv, Next, latched, ~latched'
               PROVE  "emergency_stop_reset" \in performed
    OBVIOUS
  <2>1. Acknowledge
    BY DEF Next, Activate, SendActivation, RequestReset, Expire, ReadExpired, WriteExpired,
           Connect, SendOnReconnect, Disconnect, Restart, Obey, rowVars
  <2> DEFINE a == Head(toBackend)
  <2>2. toBackend # <<>> /\ Matches(a) /\ a.accepted /\ a.command = "emergency_stop_reset"
    BY <2>1 DEF Acknowledge, rowVars
  <2>3. a \in Truthful(issued, pending, performed)
    BY <2>2, SeqReceive DEF IInv, AcksTruthful
  <2> QED BY <2>2, <2>3 DEF Truthful, Matches
<1> QED BY Invariant, <1>1, PTL DEF Spec, LatchFallsOnReset

(* Only the acknowledgement handler shows a stop as confirmed, and only one *)
(* the robot has performed since it was activated.                          *)
THEOREM StoppedIsConfirmedHolds == Spec => StoppedIsConfirmed
<1>1. IInv /\ [Next]_vars =>
        [estop' = "STOPPED" /\ estop # "STOPPED" => "emergency_stop" \in performed]_vars
  <2> SUFFICES ASSUME IInv, Next, estop' = "STOPPED", estop # "STOPPED"
               PROVE  "emergency_stop" \in performed
    OBVIOUS
  <2>1. Acknowledge
    BY DEF Next, Activate, SendActivation, RequestReset, Expire, ReadExpired, WriteExpired,
           Connect, SendOnReconnect, Disconnect, Restart, Obey, rowVars, linkVars, Transmit,
           Reissued
  <2> DEFINE a == Head(toBackend)
  <2>2. toBackend # <<>> /\ Matches(a) /\ a.accepted /\ a.command = "emergency_stop"
    BY <2>1 DEF Acknowledge, rowVars
  <2>3. a \in Truthful(issued, pending, performed)
    BY <2>2, SeqReceive DEF IInv, AcksTruthful
  <2> QED BY <2>2, <2>3 DEF Truthful, Matches
<1> QED BY Invariant, <1>1, PTL DEF Spec, StoppedIsConfirmed

-----------------------------------------------------------------------------
(* A robot that is shown as stopped.                                       *)

(* What StoppedIsConfirmed leaves open is whether the robot is still        *)
(* stopped.  It need not be: a stop pressed while a reset is pending is sent *)
(* under the reset's id (emergency_service.py:80-82), and once the reset,   *)
(* sent again after it, has been performed, the acknowledgement of the stop *)
(* settles the row as STOPPED.  Nothing else can do that.                   *)
NoStopDuringReset == ~(estop = "RESET_REQUESTED" /\ Activate)

StoppedIsEngaged == estop = "STOPPED" => engaged

IsReset(c) == c.command = "emergency_stop_reset"
NoResets(channel) == \A i \in 1 .. Len(channel) : ~IsReset(channel[i])

(* A stop, or its acknowledgement, under the id of the row.                 *)
IsStopOf(c, id) == c.id = id /\ id # NoId /\ c.command = "emergency_stop"

(* No reset follows the stop: not the one the row shows, nor one that has   *)
(* been acknowledged or is on the socket for the row.                       *)
ShownIsHeld == estop = "STOPPED" => engaged /\ NoResets(toRobot)

AckedIsHeld ==
  \A i \in 1 .. Len(toBackend) :
    toBackend[i].accepted /\ IsStopOf(toBackend[i], pending) =>
      estop # "RESET_REQUESTED" /\ engaged /\ NoResets(toRobot)

SentIsLast ==
  \A i \in 1 .. Len(toRobot) :
    IsStopOf(toRobot[i], pending) =>
      /\ estop # "RESET_REQUESTED"
      /\ \A j \in 1 .. Len(toRobot) : j > i => ~IsReset(toRobot[j])

SuspendedIsStop == pending \in suspended => estop # "RESET_REQUESTED"

HeldInv == ShownIsHeld /\ AckedIsHeld /\ SentIsLast /\ SuspendedIsStop

(* The messages of a channel that was sent to, and of one that was read.    *)
LEMMA AppendAt ==
  ASSUME NEW S, NEW s \in Seq(S), NEW e \in S
  PROVE  /\ Len(Append(s, e)) = Len(s) + 1 /\ Len(s) \in Nat
         /\ Append(s, e)[Len(s) + 1] = e
         /\ \A i \in 1 .. Len(s) : Append(s, e)[i] = s[i]
  OBVIOUS

LEMMA TailAt ==
  ASSUME NEW S, NEW s \in Seq(S), s # <<>>
  PROVE  /\ Len(Tail(s)) = Len(s) - 1 /\ Len(s) \in Nat \ {0} /\ Head(s) = s[1]
         /\ \A i \in 1 .. Len(Tail(s)) : Tail(s)[i] = s[i + 1] /\ i + 1 \in 1 .. Len(s)
  OBVIOUS

(* What is on the socket was drawn, so that a fresh id is nobody's.         *)
LEMMA FreshIsNew ==
  ASSUME IInv
  PROVE  /\ issued \in Nat /\ toRobot \in Seq(Command) /\ toBackend \in Seq(Ack)
         /\ \A i \in 1 .. Len(toRobot) : toRobot[i] \in Command /\ toRobot[i].id <= issued
         /\ \A i \in 1 .. Len(toBackend) : toBackend[i] \in Ack /\ toBackend[i].id <= issued
         /\ \A id \in suspended : id <= issued /\ id # NoId
<1>1. /\ issued \in Nat /\ toRobot \in Seq(Command) /\ toBackend \in Seq(Ack)
  BY InvTyped DEF TypeOK
<1>2. \A i \in 1 .. Len(toRobot) : toRobot[i] \in Drawn(issued)
  BY DEF IInv, CommandsDrawn
<1>3. \A i \in 1 .. Len(toBackend) : toBackend[i] \in Truthful(issued, pending, performed)
  BY DEF IInv, AcksTruthful
<1>4. \A id \in suspended : id <= issued /\ id # NoId
  BY DEF IInv, Columns, IdsDrawn, Ids, NoId
<1> QED BY <1>1, <1>2, <1>3, <1>4 DEF Drawn, Truthful

(* A stop that is sent, or lost with its socket, is followed by no reset.   *)
SentStop(id) == toRobot' = Append(toRobot, [id |-> id, command |-> "emergency_stop"])

LEMMA AddingStop ==
  ASSUME IInv, HeldInv, NEW id \in Ids \cup {NoId}, SentStop(id),
         id = pending => estop # "RESET_REQUESTED",
         pending' = pending, estop' \in {estop, "FAILED"},
         UNCHANGED <<toBackend, engaged>>, suspended' \subseteq suspended
  PROVE  HeldInv'
<1> DEFINE c == [id |-> id, command |-> "emergency_stop"]
<1>1. c \in Command /\ toRobot \in Seq(Command)
  BY FreshIsNew DEF Command, Commands
<1>2. /\ Len(toRobot') = Len(toRobot) + 1 /\ Len(toRobot) \in Nat
      /\ toRobot'[Len(toRobot) + 1] = c
      /\ \A i \in 1 .. Len(toRobot) : toRobot'[i] = toRobot[i]
  BY <1>1, AppendAt DEF SentStop
<1>3. ~IsReset(c)
  BY DEF IsReset
<1>4. NoResets(toRobot) => NoResets(toRobot')
  BY <1>2, <1>3 DEF NoResets
<1>5. SentIsLast'
  <2> SUFFICES ASSUME NEW i \in 1 .. Len(toRobot'), IsStopOf(toRobot'[i], pending')
               PROVE  /\ estop' # "RESET_REQUESTED"
                      /\ \A j \in 1 .. Len(toRobot') : j > i => ~IsReset(toRobot'[j])
    BY DEF SentIsLast
  <2>1. CASE i = Len(toRobot) + 1
    <3>1. c.id = pending
      BY <1>2, <2>1 DEF IsStopOf
    <3> QED BY <1>2, <2>1, <3>1
  <2>2. CASE i \in 1 .. Len(toRobot)
    <3>1. IsStopOf(toRobot[i], pending)
      BY <1>2, <2>2
    <3>2. /\ estop # "RESET_REQUESTED"
          /\ \A j \in 1 .. Len(toRobot) : j > i => ~IsReset(toRobot[j])
      BY <2>2, <3>1 DEF HeldInv, SentIsLast
    <3> QED BY <1>2, <1>3, <3>2
  <2> QED BY <1>2, <2>1, <2>2
<1>6. ShownIsHeld' /\ SuspendedIsStop'
  BY <1>4 DEF HeldInv, ShownIsHeld, SuspendedIsStop
<1>7. AckedIsHeld'
  BY <1>4 DEF HeldInv, AckedIsHeld
<1> QED BY <1>5, <1>6, <1>7 DEF HeldInv

LEMMA SendingStop ==
  ASSUME IInv, HeldInv, NEW id \in Ids \cup {NoId},
         id = pending => estop # "RESET_REQUESTED",
         Transmit("emergency_stop", id, estop, pending, deadline),
         UNCHANGED <<toBackend, engaged>>, suspended' \subseteq suspended
  PROVE  HeldInv'
<1>1. pending' = pending /\ estop' \in {estop, "FAILED"}
  BY DEF Transmit
<1>2. CASE SentStop(id)
  BY <1>1, <1>2, AddingStop
<1>3. CASE toRobot' = <<>>
  <2>1. NoResets(toRobot') /\ SentIsLast'
    BY <1>3 DEF NoResets, SentIsLast
  <2>2. AckedIsHeld'
    BY <1>1, <2>1 DEF HeldInv, AckedIsHeld
  <2> QED BY <1>1, <2>1, <2>2 DEF HeldInv, ShownIsHeld, SuspendedIsStop
<1> QED BY <1>2, <1>3 DEF Transmit, SentStop

(* A row that waits for another command than a stop that is on the socket.  *)
LEMMA NothingToHold ==
  ASSUME ~(estop' = "STOPPED"), pending' \notin suspended' \/ estop' # "RESET_REQUESTED",
         \A i \in 1 .. Len(toBackend') :
           ~(toBackend'[i].accepted /\ IsStopOf(toBackend'[i], pending')),
         \A i \in 1 .. Len(toRobot') : ~IsStopOf(toRobot'[i], pending')
  PROVE  HeldInv'
  BY DEF HeldInv, ShownIsHeld, AckedIsHeld, SentIsLast, SuspendedIsStop

LEMMA ActivateHolds == IInv /\ HeldInv /\ Activate /\ NoStopDuringReset => HeldInv'
<1> SUFFICES ASSUME IInv, HeldInv, Activate, estop # "RESET_REQUESTED" PROVE HeldInv'
  BY DEF NoStopDuringReset
<1>1. CASE latched
  BY <1>1, SendingStop DEF Activate, IInv, Columns
<1>2. CASE ~latched
  <2>1. pending' = issued + 1 /\ estop' = "STOP_REQUESTED" /\ UNCHANGED <<toRobot, toBackend>>
    BY <1>2 DEF Activate, linkVars
  <2>2. /\ \A i \in 1 .. Len(toBackend) : ~IsStopOf(toBackend[i], pending')
        /\ \A i \in 1 .. Len(toRobot) : ~IsStopOf(toRobot[i], pending')
    BY <2>1, FreshIsNew DEF IsStopOf, Ack, Command, Ids, NoId
  <2> QED BY <2>1, <2>2, NothingToHold
<1> QED BY <1>1, <1>2

LEMMA SendActivationHolds ==
  ASSUME IInv, HeldInv, NEW id \in Ids, SendActivation(id) PROVE HeldInv'
<1>1. /\ Transmit("emergency_stop", id, estop, pending, deadline)
      /\ id \in suspended /\ suspended' \subseteq suspended
      /\ UNCHANGED <<toBackend, engaged>>
  BY DEF SendActivation
<1>2. id = pending => estop # "RESET_REQUESTED"
  BY <1>1 DEF HeldInv, SuspendedIsStop
<1> QED BY <1>1, <1>2, SendingStop

LEMMA RequestResetHolds == IInv /\ HeldInv /\ RequestReset => HeldInv'
<1> SUFFICES ASSUME IInv, HeldInv, RequestReset PROVE HeldInv'
  OBVIOUS
<1>1. UNCHANGED <<toBackend, suspended, engaged>>
  BY DEF RequestReset
<1>2. ASSUME NEW id \in Ids \cup {NoId}, pending' = id,
             \/ toRobot' = Append(toRobot, [id |-> id, command |-> "emergency_stop_reset"])
             \/ toRobot' = <<>>,
             \A i \in 1 .. Len(toRobot) : ~IsStopOf(toRobot[i], pending')
      PROVE  \A i \in 1 .. Len(toRobot') : ~IsStopOf(toRobot'[i], pending')
  <2> DEFINE c == [id |-> id, command |-> "emergency_stop_reset"]
  <2>1. c \in Command /\ toRobot \in Seq(Command) /\ c.command # "emergency_stop"
    BY FreshIsNew DEF Command, Commands
  <2>2. CASE toRobot' = Append(toRobot, c)
    <3>1. /\ Len(toRobot') = Len(toRobot) + 1 /\ Len(toRobot) \in Nat
          /\ toRobot'[Len(toRobot) + 1] = c
          /\ \A i \in 1 .. Len(toRobot) : toRobot'[i] = toRobot[i]
      BY <2>1, <2>2, AppendAt
    <3> QED BY <1>2, <2>1, <3>1 DEF IsStopOf
  <2>3. CASE toRobot' = <<>>
    BY <2>3
  <2> QED BY <1>2, <2>2, <2>3
<1>3. CASE Transmit("emergency_stop_reset", issued + 1, "RESET_REQUESTED", issued + 1, TRUE)
           /\ issued < MaxCommands
  <2>1. issued + 1 \in Ids /\ issued + 1 \notin suspended
    BY <1>3, FreshIsNew, EmergencyAssumption DEF Ids
  <2>2. /\ pending' = issued + 1 /\ estop' \in {"RESET_REQUESTED", "FAILED"}
        /\ \/ toRobot' = Append(toRobot, [id |-> issued + 1, command |-> "emergency_stop_reset"])
           \/ toRobot' = <<>>
    BY <1>3 DEF Transmit
  <2>3. /\ \A i \in 1 .. Len(toBackend) : ~IsStopOf(toBackend[i], pending')
        /\ \A i \in 1 .. Len(toRobot) : ~IsStopOf(toRobot[i], pending')
    BY <2>2, FreshIsNew DEF IsStopOf, Ack, Command, Ids, NoId
  <2>4. \A i \in 1 .. Len(toRobot') : ~IsStopOf(toRobot'[i], pending')
    BY <1>2, <2>1, <2>2, <2>3
  <2> QED BY <1>1, <2>1, <2>2, <2>3, <2>4, NothingToHold
<1>4. CASE Transmit("emergency_stop_reset", pending, estop, pending, deadline)
           /\ estop = "RESET_REQUESTED"
  <2>1. /\ pending' = pending /\ estop' \in {"RESET_REQUESTED", "FAILED"}
        /\ \/ toRobot' = Append(toRobot, [id |-> pending, command |-> "emergency_stop_reset"])
           \/ toRobot' = <<>>
    BY <1>4 DEF Transmit
  <2>2. /\ \A i \in 1 .. Len(toRobot) : ~IsStopOf(toRobot[i], pending')
        /\ pending \notin suspended
    BY <1>4, <2>1 DEF HeldInv, SentIsLast, SuspendedIsStop
  <2>3. \A i \in 1 .. Len(toRobot') : ~IsStopOf(toRobot'[i], pending')
    BY <1>2, <2>1, <2>2 DEF IInv, Columns
  <2>4. \A i \in 1 .. Len(toBackend) :
           ~(toBackend[i].accepted /\ IsStopOf(toBackend[i], pending'))
    BY <1>4, <2>1 DEF HeldInv, AckedIsHeld
  <2> QED BY <1>1, <2>1, <2>2, <2>3, <2>4, NothingToHold
<1> QED BY <1>3, <1>4 DEF RequestReset

LEMMA AcknowledgeHolds == IInv /\ HeldInv /\ Acknowledge => HeldInv'
<1> SUFFICES ASSUME IInv, HeldInv, Acknowledge PROVE HeldInv'
  OBVIOUS
<1> DEFINE a == Head(toBackend)
<1>1. /\ toBackend # <<>> /\ toBackend' = Tail(toBackend)
      /\ UNCHANGED <<toRobot, suspended, engaged>>
  BY DEF Acknowledge
<1>2. /\ Len(toBackend) \in Nat \ {0} /\ a = toBackend[1]
      /\ \A i \in 1 .. Len(toBackend') :
           toBackend'[i] = toBackend[i + 1] /\ i + 1 \in 1 .. Len(toBackend)
  BY <1>1, FreshIsNew, TailAt
<1>3. CASE UNCHANGED rowVars
  <2>1. AckedIsHeld'
    BY <1>1, <1>2, <1>3 DEF HeldInv, AckedIsHeld, rowVars
  <2> QED BY <1>1, <1>3, <2>1 DEF HeldInv, ShownIsHeld, SentIsLast, SuspendedIsStop, rowVars
<1>4. CASE /\ Matches(a) /\ pending' = NoId
           /\ \/ ~a.accepted /\ estop' = "FAILED"
              \/ /\ a.accepted /\ a.command = "emergency_stop" /\ estop' = "STOPPED"
              \/ /\ a.accepted /\ a.command = "emergency_stop_reset" /\ estop' = "NORMAL"
  <2>1. AckedIsHeld' /\ SentIsLast'
    BY <1>4 DEF AckedIsHeld, SentIsLast, IsStopOf
  <2>2. SuspendedIsStop'
    BY <1>4 DEF SuspendedIsStop
  <2>3. estop' = "STOPPED" => a.accepted /\ IsStopOf(a, pending)
    BY <1>4 DEF Matches, IsStopOf
  <2>4. ShownIsHeld'
    BY <1>1, <1>2, <2>3 DEF HeldInv, AckedIsHeld, ShownIsHeld
  <2> QED BY <2>1, <2>2, <2>4 DEF HeldInv
<1> QED BY <1>3, <1>4 DEF Acknowledge

LEMMA TimeoutHolds == HeldInv /\ (Expire \/ ReadExpired \/ WriteExpired) => HeldInv'
<1> SUFFICES ASSUME HeldInv, Expire \/ ReadExpired \/ WriteExpired PROVE HeldInv'
  OBVIOUS
<1>1. /\ UNCHANGED <<pending, toRobot, toBackend, suspended, engaged>>
      /\ estop' \in {estop, "FAILED"}
  BY DEF Expire, ReadExpired, WriteExpired, rowVars, linkVars
<1> QED BY <1>1 DEF HeldInv, ShownIsHeld, AckedIsHeld, SentIsLast, SuspendedIsStop

LEMMA SocketHolds == HeldInv /\ (Connect \/ Disconnect \/ Restart) => HeldInv'
<1> SUFFICES ASSUME HeldInv, Connect \/ Disconnect \/ Restart PROVE HeldInv'
  OBVIOUS
<1>1. /\ UNCHANGED <<estop, pending, engaged>> /\ suspended' \subseteq suspended
      /\ toRobot' = <<>> /\ (toBackend' = <<>> \/ UNCHANGED toBackend)
  BY DEF Connect, Disconnect, Restart, rowVars
<1>2. NoResets(toRobot') /\ SentIsLast'
  BY <1>1 DEF NoResets, SentIsLast
<1>3. AckedIsHeld'
  BY <1>1, <1>2 DEF HeldInv, AckedIsHeld
<1> QED BY <1>1, <1>2, <1>3 DEF HeldInv, ShownIsHeld, SuspendedIsStop

LEMMA ReconnectHolds == IInv /\ HeldInv /\ SendOnReconnect => HeldInv'
<1> SUFFICES ASSUME IInv, HeldInv, SendOnReconnect PROVE HeldInv'
  OBVIOUS
<1>1. UNCHANGED <<toBackend, suspended, engaged>>
  BY DEF SendOnReconnect
<1>2. CASE UNCHANGED <<rowVars, issued, toRobot>>
  BY <1>1, <1>2 DEF HeldInv, ShownIsHeld, AckedIsHeld, SentIsLast, SuspendedIsStop, rowVars
<1>3. CASE /\ estop = "RESET_REQUESTED" /\ UNCHANGED rowVars
           /\ toRobot' = Append(toRobot, [id |-> pending, command |-> "emergency_stop_reset"])
  <2>1. /\ \A i \in 1 .. Len(toRobot) : ~IsStopOf(toRobot[i], pending)
        /\ \A i \in 1 .. Len(toBackend) :
             ~(toBackend[i].accepted /\ IsStopOf(toBackend[i], pending))
        /\ pending \notin suspended
    BY <1>3 DEF HeldInv, SentIsLast, AckedIsHeld, SuspendedIsStop
  <2>2. [id |-> pending, command |-> "emergency_stop_reset"] \in Command
    BY DEF IInv, Columns, Command, Commands
  <2>3. /\ Len(toRobot') = Len(toRobot) + 1 /\ Len(toRobot) \in Nat
        /\ toRobot'[Len(toRobot) + 1] = [id |-> pending, command |-> "emergency_stop_reset"]
        /\ \A i \in 1 .. Len(toRobot) : toRobot'[i] = toRobot[i]
    BY <1>3, <2>2, FreshIsNew, AppendAt
  <2>4. \A i \in 1 .. Len(toRobot') : ~IsStopOf(toRobot'[i], pending')
    BY <1>3, <2>1, <2>3 DEF IsStopOf, rowVars
  <2> QED BY <1>1, <1>3, <2>1, <2>4, NothingToHold DEF rowVars
<1>4. CASE /\ estop # "RESET_REQUESTED" /\ UNCHANGED rowVars
           /\ toRobot' = Append(toRobot, [id |-> pending, command |-> "emergency_stop"])
  <2>1. SentStop(pending)
    BY <1>4 DEF SentStop
  <2> QED BY <1>1, <1>4, <2>1, AddingStop DEF IInv, Columns, rowVars
<1>5. CASE /\ issued < MaxCommands /\ pending' = issued + 1 /\ estop' = Reissued.estop
           /\ toRobot' = Append(toRobot, [id |-> issued + 1, command |-> "emergency_stop"])
  <2> DEFINE c == [id |-> issued + 1, command |-> "emergency_stop"]
  <2>1. /\ issued \in Nat /\ issued + 1 \in Ids /\ estop' = "STOP_REQUESTED"
        /\ \A i \in 1 .. Len(toRobot) : toRobot[i] \in Command /\ toRobot[i].id <= issued
        /\ \A i \in 1 .. Len(toBackend) : toBackend[i] \in Ack /\ toBackend[i].id <= issued
    BY <1>5, FreshIsNew, EmergencyAssumption DEF Ids, Reissued
  <2>2. c \in Command
    BY <2>1 DEF Command, Commands
  <2>3. /\ Len(toRobot') = Len(toRobot) + 1 /\ Len(toRobot) \in Nat
        /\ toRobot'[Len(toRobot) + 1] = c
        /\ \A i \in 1 .. Len(toRobot) : toRobot'[i] = toRobot[i]
    BY <1>5, <2>2, FreshIsNew, AppendAt
  <2>4. /\ \A i \in 1 .. Len(toBackend) : ~IsStopOf(toBackend[i], pending')
        /\ \A i \in 1 .. Len(toRobot) : ~IsStopOf(toRobot[i], pending')
    BY <1>5, <2>1 DEF IsStopOf, Ack, Command, Ids, NoId
  <2>5. SentIsLast'
    BY <2>1, <2>3, <2>4 DEF SentIsLast
  <2>6. ShownIsHeld' /\ AckedIsHeld' /\ SuspendedIsStop'
    BY <1>1, <2>1, <2>4 DEF ShownIsHeld, AckedIsHeld, SuspendedIsStop
  <2> QED BY <2>5, <2>6 DEF HeldInv
<1> QED BY <1>2, <1>3, <1>4, <1>5 DEF SendOnReconnect

(* The robot performs a stop that nothing follows, or a reset no row counts  *)
(* as a stop.                                                               *)
LEMMA ObeyHolds ==
  ASSUME IInv, HeldInv, NEW accepted \in BOOLEAN, Obey(accepted) PROVE HeldInv'
<1> DEFINE c == Head(toRobot)
           a == [id |-> c.id, command |-> c.command, accepted |-> accepted]
<1>1. /\ toRobot # <<>> /\ toRobot' = Tail(toRobot) /\ toBackend' = Append(toBackend, a)
      /\ UNCHANGED <<estop, pending, suspended>>
      /\ \/ accepted /\ engaged' = (c.command = "emergency_stop")
         \/ ~accepted /\ UNCHANGED engaged
  BY DEF Obey, rowVars
<1>2. /\ Len(toRobot) \in Nat \ {0} /\ c = toRobot[1] /\ Len(toRobot') = Len(toRobot) - 1
      /\ \A i \in 1 .. Len(toRobot') :
           toRobot'[i] = toRobot[i + 1] /\ i + 1 \in 1 .. Len(toRobot)
  BY <1>1, FreshIsNew, TailAt
<1>3. c \in Command
  BY <1>2, FreshIsNew
<1>4. /\ Len(toBackend') = Len(toBackend) + 1 /\ Len(toBackend) \in Nat
      /\ toBackend'[Len(toBackend) + 1] = a
      /\ \A i \in 1 .. Len(toBackend) : toBackend'[i] = toBackend[i]
  <2>1. a \in Ack
    BY <1>3 DEF Ack, Command
  <2> QED BY <1>1, <2>1, FreshIsNew, AppendAt
<1>5. NoResets(toRobot) => NoResets(toRobot') /\ (engaged => engaged')
  <2> SUFFICES ASSUME NoResets(toRobot) PROVE NoResets(toRobot') /\ (engaged => engaged')
    OBVIOUS
  <2>1. NoResets(toRobot')
    BY <1>2 DEF NoResets
  <2>2. ~IsReset(c)
    BY <1>2 DEF NoResets
  <2>3. c.command = "emergency_stop"
    BY <1>3, <2>2 DEF IsReset, Command, Commands
  <2> QED BY <1>1, <2>1, <2>3
<1>6. SentIsLast'
  BY <1>1, <1>2 DEF HeldInv, SentIsLast
<1>7. ShownIsHeld' /\ SuspendedIsStop'
  BY <1>1, <1>5 DEF HeldInv, ShownIsHeld, SuspendedIsStop
<1>8. AckedIsHeld'
  <2> SUFFICES ASSUME NEW i \in 1 .. Len(toBackend'),
                      toBackend'[i].accepted, IsStopOf(toBackend'[i], pending')
               PROVE  estop' # "RESET_REQUESTED" /\ engaged' /\ NoResets(toRobot')
    BY DEF AckedIsHeld
  <2>1. CASE i \in 1 .. Len(toBackend)
    <3>1. toBackend[i].accepted /\ IsStopOf(toBackend[i], pending)
      BY <1>1, <1>4, <2>1
    <3>2. estop # "RESET_REQUESTED" /\ engaged /\ NoResets(toRobot)
      BY <2>1, <3>1 DEF HeldInv, AckedIsHeld
    <3> QED BY <1>1, <1>5, <3>2
  <2>2. CASE i = Len(toBackend) + 1
    <3>1. accepted /\ IsStopOf(c, pending)
      BY <1>1, <1>4, <2>2 DEF IsStopOf
    <3>2. engaged'
      BY <1>1, <3>1 DEF IsStopOf
    <3>3. /\ estop # "RESET_REQUESTED"
          /\ \A j \in 1 .. Len(toRobot) : j > 1 => ~IsReset(toRobot[j])
      BY <1>2, <3>1 DEF HeldInv, SentIsLast
    <3>4. NoResets(toRobot')
      BY <1>2, <3>3 DEF NoResets
    <3> QED BY <1>1, <3>2, <3>3, <3>4
  <2> QED BY <1>4, <2>1, <2>2
<1> QED BY <1>6, <1>7, <1>8 DEF HeldInv

LEMMA HeldStays == IInv /\ HeldInv /\ [Next]_vars /\ [NoStopDuringReset]_vars => HeldInv'
<1> SUFFICES ASSUME IInv, HeldInv, [Next]_vars, [NoStopDuringReset]_vars PROVE HeldInv'
  OBVIOUS
<1>1. CASE UNCHANGED vars
  BY <1>1 DEF vars, rowVars, linkVars, HeldInv, ShownIsHeld, AckedIsHeld, SentIsLast,
              SuspendedIsStop
<1>2. CASE Next /\ NoStopDuringReset
  BY <1>2, ActivateHolds, SendActivationHolds, RequestResetHolds, AcknowledgeHolds,
     TimeoutHolds, SocketHolds, ReconnectHolds, ObeyHolds DEF Next
<1> QED BY <1>1, <1>2

(* As long as nobody presses the stop while a reset is pending, a robot that *)
(* the row shows as stopped is stopped, whatever was lost, repeated, late or *)
(* restarted (emergency_service.py, routers/emergency.py, robot_ws.py).      *)
THEOREM StoppedRobotIsStopped ==
  Spec /\ [][NoStopDuringReset]_vars => []StoppedIsEngaged
<1>1. Init => HeldInv
  BY DEF Init, HeldInv, ShownIsHeld, AckedIsHeld, SentIsLast, SuspendedIsStop
<1>2. HeldInv => StoppedIsEngaged
  BY DEF HeldInv, ShownIsHeld, StoppedIsEngaged
<1> QED BY <1>1, <1>2, Invariant, HeldStays, PTL DEF Spec
=============================================================================
