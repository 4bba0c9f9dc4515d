------------------------- MODULE ManualDrive_proofs -------------------------
(***************************************************************************)
(* No robot is left driving by the manual page, for every fleet, however   *)
(* long the chain of requests grows and however often a button is pressed. *)
(*                                                                         *)
(* MotionEndsWithStop alone is not inductive: a request that is answered    *)
(* arms the next repetition when it carries the number of the present hold, *)
(* without a look at the robot.  Owned adds that a number is never shared   *)
(* by the holds of two robots: no request is numbered ahead of the hold,    *)
(* and one that carries the number of a hold that lasts is for its robot.   *)
(***************************************************************************)
EXTENDS ManualDrive, SequenceTheorems, TLAPS

QueuedRequest == [robot: Robots, kind: {"stop", "drive"}, gen: Nat]

\* A request of the present hold's number is for the robot that is held.
OwnedBy(request) ==
    /\ request.gen <= mdGeneration
    /\ request.kind = "drive" /\ mdDriving /\ request.gen = mdGeneration
         => request.robot = mdRobot

Owned == \A i \in 1..Len(mdQueue) : OwnedBy(mdQueue[i])

MDInv == MDType /\ Owned /\ MotionEndsWithStop

-----------------------------------------------------------------------------
\* What stop() makes of the chain: the old requests, then the stop, then at
\* most one request of a new hold.
LEMMA ChainGrows ==
    ASSUME NEW q \in Seq(QueuedRequest), NEW s \in QueuedRequest,
           NEW t \in Seq(QueuedRequest), NEW new,
           new = Append(q, s) \o t
    PROVE  /\ new \in Seq(QueuedRequest)
           /\ Len(new) = Len(q) + 1 + Len(t)
           /\ \A i \in 1..Len(q) : new[i] = q[i]
           /\ new[Len(q) + 1] = s
           /\ \A i \in 1..Len(t) : new[Len(q) + 1 + i] = t[i]
  <1>1. /\ Append(q, s) \in Seq(QueuedRequest) /\ Len(Append(q, s)) = Len(q) + 1
        /\ \A i \in 1..Len(q) : Append(q, s)[i] = q[i]
        /\ Append(q, s)[Len(q) + 1] = s
    BY AppendProperties
  <1>2. /\ new \in Seq(QueuedRequest) /\ Len(new) = Len(q) + 1 + Len(t)
        /\ \A i \in 1..(Len(q) + 1 + Len(t)) :
             new[i] = IF i <= Len(q) + 1 THEN Append(q, s)[i] ELSE t[i - (Len(q) + 1)]
    BY <1>1, ConcatProperties
  <1>3. Len(q) \in Nat /\ Len(t) \in Nat
    BY LenProperties
  <1> QED BY <1>1, <1>2, <1>3

\* Where a request of the grown chain stands.
LEMMA PlaceInChain ==
    ASSUME NEW n \in Nat, NEW more \in {0, 1}, NEW i \in 1..(n + 1 + more)
    PROVE  i \in 1..n \/ i = n + 1 \/ (i = n + 2 /\ more = 1)
  <1>1. CASE more = 0
    BY <1>1
  <1>2. CASE more = 1
    BY <1>2
  <1> QED BY <1>1, <1>2

-----------------------------------------------------------------------------
\* Whatever ends a hold puts a stop for its robot behind all of its requests;
\* the next hold, if any, begins with a number of its own.
LEMMA StopWithKeeps ==
    ASSUME MDInv, NEW requests, StopWith(requests), UNCHANGED mdLast, mdRobot' \in Robots,
           \/ requests = <<>> /\ mdDriving' = FALSE
           \/ /\ requests = <<Driving(mdRobot, mdGeneration + 1)>>
              /\ mdDriving' = TRUE /\ mdRobot' = mdRobot
    PROVE  /\ mdGeneration' \in Nat /\ mdTimer' = NoTimer /\ mdQueue' \in Seq(QueuedRequest)
           /\ Owned' /\ MotionEndsWithStop'
  <1> DEFINE n == Len(mdQueue)
  <1>1. /\ mdQueue \in Seq(QueuedRequest) /\ mdGeneration \in Nat /\ mdRobot \in Robots
        /\ mdDriving \in BOOLEAN
    BY DEF MDInv, MDType, QueuedRequest
  <1>2. n \in Nat
    BY <1>1, LenProperties
  <1>3. Stopping(mdRobot) \in QueuedRequest /\ Driving(mdRobot, mdGeneration + 1) \in QueuedRequest
    BY <1>1 DEF Stopping, Driving, QueuedRequest
  <1>4. requests \in Seq(QueuedRequest)
    <2>1. CASE requests = <<>>
      BY <2>1
    <2>2. CASE requests = <<Driving(mdRobot, mdGeneration + 1)>>
      <3> HIDE DEF QueuedRequest
      <3> QED BY <1>3, <2>2
    <2> QED BY <2>1, <2>2
  <1>5. /\ mdQueue' \in Seq(QueuedRequest) /\ Len(mdQueue') = n + 1 + Len(requests)
        /\ \A i \in 1..n : mdQueue'[i] = mdQueue[i]
        /\ mdQueue'[n + 1] = Stopping(mdRobot)
        /\ \A i \in 1..Len(requests) : mdQueue'[n + 1 + i] = requests[i]
    BY <1>1, <1>3, <1>4, ChainGrows DEF StopWith
  <1>6. mdGeneration' = mdGeneration + 1 /\ mdTimer' = NoTimer
    BY DEF StopWith
  <1>7. \/ Len(requests) = 0 /\ mdDriving' = FALSE
        \/ /\ Len(requests) = 1 /\ requests[1] = Driving(mdRobot, mdGeneration + 1)
           /\ mdDriving' = TRUE /\ mdRobot' = mdRobot
    OBVIOUS
  <1>8. \A i \in 1..Len(mdQueue') :
          \/ i \in 1..n /\ mdQueue'[i] = mdQueue[i]
          \/ i = n + 1 /\ mdQueue'[i] = Stopping(mdRobot)
          \/ /\ i = n + 2 /\ mdQueue'[i] = Driving(mdRobot, mdGeneration + 1)
             /\ mdDriving' = TRUE /\ mdRobot' = mdRobot
    <2> SUFFICES ASSUME NEW i \in 1..Len(mdQueue')
                 PROVE  \/ i \in 1..n /\ mdQueue'[i] = mdQueue[i]
                        \/ i = n + 1 /\ mdQueue'[i] = Stopping(mdRobot)
                        \/ /\ i = n + 2 /\ mdQueue'[i] = Driving(mdRobot, mdGeneration + 1)
                           /\ mdDriving' = TRUE /\ mdRobot' = mdRobot
      OBVIOUS
    <2>1. i \in 1..n \/ i = n + 1 \/ (i = n + 2 /\ Len(requests) = 1)
      <3>1. Len(mdQueue') = n + 1 + Len(requests) /\ Len(requests) \in {0, 1}
        BY <1>5, <1>7
      <3> QED BY <1>2, <3>1, PlaceInChain
    <2>2. CASE i = n + 2 /\ Len(requests) = 1
      <3>1. mdQueue'[n + 1 + 1] = requests[1] /\ i = n + 1 + 1
        BY <1>2, <1>5, <2>2
      <3> QED BY <1>7, <2>2, <3>1
    <2>3. CASE i = n + 1
      BY <1>5, <2>3
    <2>4. CASE i \in 1..n
      BY <1>5, <2>4
    <2> QED BY <2>1, <2>2, <2>3, <2>4
  <1>9. Owned'
    <2> SUFFICES ASSUME NEW i \in 1..Len(mdQueue') PROVE OwnedBy(mdQueue[i])'
      BY DEF Owned
    <2>1. CASE i \in 1..n /\ mdQueue'[i] = mdQueue[i]
      <3>1. OwnedBy(mdQueue[i]) /\ mdQueue[i] \in QueuedRequest
        BY <1>1, <2>1 DEF MDInv, Owned
      <3>2. mdQueue[i].gen \in Nat /\ mdQueue[i].gen < mdGeneration'
        BY <1>1, <1>6, <3>1 DEF OwnedBy, QueuedRequest
      <3> QED BY <1>1, <1>6, <2>1, <3>2 DEF OwnedBy
    <2>2. CASE i = n + 1 /\ mdQueue'[i] = Stopping(mdRobot)
      BY <1>1, <1>6, <2>2 DEF OwnedBy, Stopping
    <2>3. CASE /\ i = n + 2 /\ mdQueue'[i] = Driving(mdRobot, mdGeneration + 1)
               /\ mdDriving' = TRUE /\ mdRobot' = mdRobot
      BY <1>1, <1>6, <2>3 DEF OwnedBy, Driving
    <2> QED BY <1>8, <2>1, <2>2, <2>3
  <1>10. \A i \in 0..n, r \in Robots :
           r = mdRobot \/ StoppedAfter(i, r) => StoppedAfter(i, r)'
    <2> SUFFICES ASSUME NEW i \in 0..n, NEW r \in Robots, r = mdRobot \/ StoppedAfter(i, r)
                 PROVE  \E j \in (i + 1)..Len(mdQueue') :
                           mdQueue'[j].kind = "stop" /\ mdQueue'[j].robot = r
      BY DEF StoppedAfter
    <2>1. CASE r = mdRobot
      <3>1. n + 1 \in (i + 1)..Len(mdQueue')
        BY <1>2, <1>5, <1>7
      <3> QED BY <1>5, <2>1, <3>1 DEF Stopping
    <2>2. CASE StoppedAfter(i, r)
      <3>1. PICK j \in (i + 1)..n : mdQueue[j].kind = "stop" /\ mdQueue[j].robot = r
        BY <2>2 DEF StoppedAfter
      <3>2. j \in 1..n /\ j \in (i + 1)..Len(mdQueue')
        BY <1>2, <1>5, <1>7, <3>1
      <3> QED BY <1>5, <3>1, <3>2
    <2> QED BY <2>1, <2>2
  <1>11. \A i \in 1..Len(mdQueue') : mdQueue'[i].kind = "drive" =>
           HeldOn(mdQueue[i].robot, mdQueue[i].gen)' \/ StoppedAfter(i, mdQueue[i].robot)'
    <2> SUFFICES ASSUME NEW i \in 1..Len(mdQueue'), mdQueue'[i].kind = "drive"
                 PROVE  \/ HeldOn(mdQueue[i].robot, mdQueue[i].gen)'
                        \/ StoppedAfter(i, mdQueue[i].robot)'
      OBVIOUS
    <2>1. CASE i \in 1..n /\ mdQueue'[i] = mdQueue[i]
      <3>1. HeldOn(mdQueue[i].robot, mdQueue[i].gen) \/ StoppedAfter(i, mdQueue[i].robot)
        BY <2>1 DEF MDInv, MotionEndsWithStop
      <3>2. i \in 0..n /\ mdQueue[i].robot \in Robots
        <4>1. mdQueue[i] \in QueuedRequest
          BY <1>1, <2>1
        <4> QED BY <1>2, <2>1, <4>1 DEF QueuedRequest
      <3>3. mdQueue[i].robot = mdRobot \/ StoppedAfter(i, mdQueue[i].robot)
        BY <3>1 DEF HeldOn
      <3>4. \A r \in Robots : r = mdRobot \/ StoppedAfter(i, r) => StoppedAfter(i, r)'
        BY <1>10, <3>2
      <3>5. PICK r \in Robots : r = mdQueue[i].robot /\ r = mdQueue'[i].robot
        BY <2>1, <3>2
      <3>6. StoppedAfter(i, r)'
        BY <3>3, <3>4, <3>5
      <3> QED BY <3>5, <3>6 DEF StoppedAfter
    <2>2. CASE i = n + 1 /\ mdQueue'[i] = Stopping(mdRobot)
      BY <2>2 DEF Stopping
    <2>3. CASE /\ i = n + 2 /\ mdQueue'[i] = Driving(mdRobot, mdGeneration + 1)
               /\ mdDriving' = TRUE /\ mdRobot' = mdRobot
      BY <1>6, <2>3 DEF HeldOn, Driving
    <2> QED BY <1>8, <2>1, <2>2, <2>3
  <1>12. \A r \in Robots : mdLast'[r] = "drive" =>
           (mdDriving' /\ mdRobot' = r) \/ StoppedAfter(0, r)'
    BY <1>2, <1>10 DEF MDInv, MotionEndsWithStop
  <1>13. MotionEndsWithStop'
    BY <1>6, <1>11, <1>12 DEF MotionEndsWithStop
  <1> QED BY <1>1, <1>5, <1>6, <1>9, <1>13

-----------------------------------------------------------------------------
\* The request in flight is answered: the chain moves up by one.
LEMMA SettleKeeps == MDInv /\ MDSettle => MDInv'
  <1> SUFFICES ASSUME MDInv, MDSettle PROVE MDInv'
    OBVIOUS
  <1> DEFINE n == Len(mdQueue)
             first == Head(mdQueue)
  <1>1. /\ mdQueue \in Seq(QueuedRequest) /\ mdQueue # <<>> /\ mdGeneration \in Nat
        /\ mdRobot \in Robots /\ mdDriving \in BOOLEAN
        /\ mdLast \in [Robots -> {"stop", "drive"}]
        /\ mdTimer \in [robot: Robots, gen: Nat] \cup {NoTimer}
    BY DEF MDInv, MDType, MDSettle, QueuedRequest
  <1>2. /\ first \in QueuedRequest /\ mdQueue' \in Seq(QueuedRequest) /\ Len(mdQueue') = n - 1
        /\ \A i \in 1..Len(mdQueue') : mdQueue'[i] = mdQueue[i + 1]
    BY <1>1, HeadTailProperties DEF MDSettle
  <1>3. n \in Nat /\ n > 0 /\ first = mdQueue[1]
    BY <1>1, LenProperties, EmptySeq
  <1>4. /\ first.robot \in Robots /\ first.kind \in {"stop", "drive"} /\ first.gen \in Nat
        /\ mdLast' = [mdLast EXCEPT ![first.robot] = first.kind]
        /\ mdTimer' = IF Continues(first) THEN [robot |-> first.robot, gen |-> first.gen]
                      ELSE mdTimer
        /\ UNCHANGED <<mdContext, mdDriving, mdGeneration>>
    BY <1>2 DEF MDSettle, QueuedRequest
  <1>5. MDType'
    BY <1>1, <1>2, <1>4 DEF MDInv, MDType, mdContext, QueuedRequest
  <1>6. Owned'
    <2> SUFFICES ASSUME NEW i \in 1..Len(mdQueue') PROVE OwnedBy(mdQueue[i])'
      BY DEF Owned
    <2>1. OwnedBy(mdQueue[i + 1]) /\ mdQueue'[i] = mdQueue[i + 1]
      BY <1>2, <1>3 DEF MDInv, Owned
    <2> QED BY <1>4, <2>1 DEF OwnedBy, mdContext
  <1>7. ASSUME NEW i \in 0..Len(mdQueue'), NEW r \in Robots,
               StoppedAfter(i + 1, r) PROVE StoppedAfter(i, r)'
    <2>1. PICK j \in (i + 2)..n : mdQueue[j].kind = "stop" /\ mdQueue[j].robot = r
      BY <1>3, <1>7 DEF StoppedAfter
    <2>2. j - 1 \in (i + 1)..Len(mdQueue') /\ j - 1 \in 1..Len(mdQueue') /\ (j - 1) + 1 = j
      BY <1>2, <1>3, <2>1
    <2>3. mdQueue'[j - 1] = mdQueue[j]
      BY <1>2, <2>2
    <2> QED BY <2>1, <2>2, <2>3 DEF StoppedAfter
  <1>8. \A i \in 1..Len(mdQueue') : mdQueue'[i].kind = "drive" =>
          HeldOn(mdQueue[i].robot, mdQueue[i].gen)' \/ StoppedAfter(i, mdQueue[i].robot)'
    <2> SUFFICES ASSUME NEW i \in 1..Len(mdQueue'), mdQueue'[i].kind = "drive"
                 PROVE  \/ HeldOn(mdQueue[i].robot, mdQueue[i].gen)'
                        \/ StoppedAfter(i, mdQueue[i].robot)'
      OBVIOUS
    <2>1. i + 1 \in 1..n /\ mdQueue'[i] = mdQueue[i + 1] /\ i \in 0..Len(mdQueue')
      BY <1>2, <1>3
    <2>2. \/ HeldOn(mdQueue[i + 1].robot, mdQueue[i + 1].gen)
          \/ StoppedAfter(i + 1, mdQueue[i + 1].robot)
      BY <2>1 DEF MDInv, MotionEndsWithStop
    <2>3. CASE HeldOn(mdQueue[i + 1].robot, mdQueue[i + 1].gen)
      BY <1>4, <2>1, <2>3 DEF HeldOn, mdContext
    <2>4. CASE StoppedAfter(i + 1, mdQueue[i + 1].robot)
      <3>1. mdQueue[i + 1] \in QueuedRequest
        BY <1>1, <2>1
      <3>2. PICK r \in Robots : r = mdQueue[i + 1].robot /\ r = mdQueue'[i].robot
        BY <2>1, <3>1 DEF QueuedRequest
      <3>3. StoppedAfter(i, r)'
        BY <1>7, <2>1, <2>4, <3>2
      <3> QED BY <3>2, <3>3 DEF StoppedAfter
    <2> QED BY <2>2, <2>3, <2>4
  <1>9. first.kind = "drive" =>
          HeldOn(first.robot, first.gen) \/ StoppedAfter(1, first.robot)
    BY <1>3 DEF MDInv, MotionEndsWithStop
  <1>10. \A r \in Robots : mdLast'[r] = "drive" =>
           (mdDriving' /\ mdRobot' = r) \/ StoppedAfter(0, r)'
    <2> SUFFICES ASSUME NEW r \in Robots, mdLast'[r] = "drive"
                 PROVE  (mdDriving' /\ mdRobot' = r) \/ StoppedAfter(0, r)'
      OBVIOUS
    <2>1. 0 \in 0..Len(mdQueue') /\ 0 + 1 = 1
      BY <1>2, <1>3
    <2>2. CASE r = first.robot
      <3>1. first.kind = "drive"
        BY <1>1, <1>4, <2>2
      <3>2. CASE HeldOn(first.robot, first.gen)
        BY <1>4, <2>2, <3>2 DEF HeldOn, mdContext
      <3>3. CASE StoppedAfter(1, first.robot)
        BY <1>7, <2>1, <2>2, <3>3
      <3> QED BY <1>9, <3>1, <3>2, <3>3
    <2>3. CASE r # first.robot
      <3>1. mdLast[r] = "drive"
        BY <1>1, <1>4, <2>3
      <3>2. CASE mdDriving /\ mdRobot = r
        BY <1>4, <3>2 DEF mdContext
      <3>3. CASE StoppedAfter(0, r)
        <4>1. PICK j \in 1..n : mdQueue[j].kind = "stop" /\ mdQueue[j].robot = r
          BY <3>3 DEF StoppedAfter
        <4>2. j \in (1 + 1)..n
          BY <1>3, <2>3, <4>1
        <4>3. StoppedAfter(1, r)
          BY <4>1, <4>2 DEF StoppedAfter
        <4> QED BY <1>7, <2>1, <4>3
      <3> QED BY <3>1, <3>2, <3>3 DEF MDInv, MotionEndsWithStop
    <2> QED BY <2>2, <2>3
  <1>11. mdTimer' # NoTimer => HeldOn(mdTimer.robot, mdTimer.gen)'
    <2>1. CASE Continues(first)
      <3>1. first.kind = "drive" /\ mdDriving /\ first.gen = mdGeneration
        BY <2>1 DEF Continues
      <3>2. first.robot = mdRobot
        BY <1>3, <3>1 DEF MDInv, Owned, OwnedBy
      <3> QED BY <1>4, <2>1, <3>1, <3>2 DEF HeldOn, mdContext
    <2>2. CASE ~Continues(first)
      BY <1>4, <2>2 DEF MDInv, MotionEndsWithStop, HeldOn, mdContext
    <2> QED BY <2>1, <2>2
  <1> QED BY <1>5, <1>6, <1>8, <1>10, <1>11 DEF MDInv, MotionEndsWithStop

\* The next repetition joins the chain for the hold that armed it.
LEMMA RepeatKeeps == MDInv /\ MDRepeat => MDInv'
  <1> SUFFICES ASSUME MDInv, MDRepeat PROVE MDInv'
    OBVIOUS
  <1> DEFINE n == Len(mdQueue)
             next == Driving(mdTimer.robot, mdTimer.gen)
  <1>1. /\ mdQueue \in Seq(QueuedRequest) /\ mdGeneration \in Nat /\ mdTimer # NoTimer
        /\ mdTimer \in [robot: Robots, gen: Nat]
    BY DEF MDInv, MDType, MDRepeat, QueuedRequest
  <1>2. HeldOn(mdTimer.robot, mdTimer.gen)
    BY <1>1 DEF MDInv, MotionEndsWithStop
  <1>3. next \in QueuedRequest /\ next.kind = "drive" /\ next.robot = mdRobot
        /\ next.gen = mdGeneration /\ mdDriving
    BY <1>1, <1>2 DEF QueuedRequest, Driving, HeldOn
  <1>4. /\ mdQueue' \in Seq(QueuedRequest) /\ n \in Nat /\ Len(mdQueue') = n + 1
        /\ \A i \in 1..n : mdQueue'[i] = mdQueue[i]
        /\ mdQueue'[n + 1] = next
    BY <1>1, <1>3, AppendProperties, LenProperties DEF MDRepeat
  <1>5. mdTimer' = NoTimer /\ UNCHANGED <<mdContext, mdDriving, mdGeneration, mdLast>>
    BY DEF MDRepeat
  <1>6. MDType'
    BY <1>4, <1>5 DEF MDInv, MDType, mdContext, QueuedRequest
  <1>7. Owned'
    <2> SUFFICES ASSUME NEW i \in 1..Len(mdQueue') PROVE OwnedBy(mdQueue[i])'
      BY DEF Owned
    <2>1. CASE i \in 1..n
      <3>1. OwnedBy(mdQueue[i]) /\ mdQueue'[i] = mdQueue[i]
        BY <1>4, <2>1 DEF MDInv, Owned
      <3> QED BY <1>5, <3>1 DEF OwnedBy, mdContext
    <2>2. CASE i = n + 1
      BY <1>1, <1>3, <1>4, <1>5, <2>2 DEF OwnedBy, mdContext
    <2> QED BY <1>4, <2>1, <2>2
  <1>8. \A i \in 0..n : \A r : StoppedAfter(i, r) => StoppedAfter(i, r)'
    <2> SUFFICES ASSUME NEW i \in 0..n, NEW r, StoppedAfter(i, r) PROVE StoppedAfter(i, r)'
      OBVIOUS
    <2>1. PICK j \in (i + 1)..n : mdQueue[j].kind = "stop" /\ mdQueue[j].robot = r
      BY DEF StoppedAfter
    <2>2. j \in 1..n /\ j \in (i + 1)..Len(mdQueue')
      BY <1>4, <2>1
    <2> QED BY <1>4, <2>1, <2>2 DEF StoppedAfter
  <1>9. \A i \in 1..Len(mdQueue') : mdQueue'[i].kind = "drive" =>
          HeldOn(mdQueue[i].robot, mdQueue[i].gen)' \/ StoppedAfter(i, mdQueue[i].robot)'
    <2> SUFFICES ASSUME NEW i \in 1..Len(mdQueue'), mdQueue'[i].kind = "drive"
                 PROVE  \/ HeldOn(mdQueue[i].robot, mdQueue[i].gen)'
                        \/ StoppedAfter(i, mdQueue[i].robot)'
      OBVIOUS
    <2>1. CASE i \in 1..n
      <3>1. mdQueue'[i] = mdQueue[i] /\ i \in 0..n
        BY <1>4, <2>1
      <3>2. HeldOn(mdQueue[i].robot, mdQueue[i].gen) \/ StoppedAfter(i, mdQueue[i].robot)
        BY <2>1, <3>1 DEF MDInv, MotionEndsWithStop
      <3>3. CASE HeldOn(mdQueue[i].robot, mdQueue[i].gen)
        BY <1>5, <3>1, <3>3 DEF HeldOn, mdContext
      <3>4. CASE StoppedAfter(i, mdQueue[i].robot)
        BY <1>8, <3>1, <3>4 DEF StoppedAfter
      <3> QED BY <3>2, <3>3, <3>4
    <2>2. CASE i = n + 1
      BY <1>3, <1>4, <1>5, <2>2 DEF HeldOn, mdContext
    <2> QED BY <1>4, <2>1, <2>2
  <1>10. 0 \in 0..n
    BY <1>4
  <1>11. \A r \in Robots : mdLast'[r] = "drive" =>
           (mdDriving' /\ mdRobot' = r) \/ StoppedAfter(0, r)'
    BY <1>5, <1>8, <1>10 DEF MDInv, MotionEndsWithStop, mdContext
  <1> QED BY <1>5, <1>6, <1>7, <1>9, <1>11 DEF MDInv, MotionEndsWithStop

-----------------------------------------------------------------------------
LEMMA InitHolds == MDInit => MDInv
  <1> SUFFICES ASSUME MDInit PROVE MDInv
    OBVIOUS
  <1>1. Len(mdQueue) = 0
    BY DEF MDInit
  <1>2. \A i \in 1..Len(mdQueue) : FALSE
    BY <1>1
  <1>3. mdQueue \in Seq([robot: Robots, kind: {"stop", "drive"}, gen: Nat])
    BY DEF MDInit
  <1>4. MDType
    BY <1>3 DEF MDInit, MDType
  <1>5. \A r \in Robots : mdLast[r] # "drive"
    BY DEF MDInit
  <1>6. MotionEndsWithStop
    BY <1>2, <1>5 DEF MDInit, MotionEndsWithStop
  <1> QED BY <1>2, <1>4, <1>6 DEF MDInv, Owned

LEMMA StepKeeps == MDInv /\ [MDNext]_mdVars => MDInv'
  <1> SUFFICES ASSUME MDInv, [MDNext]_mdVars PROVE MDInv'
    OBVIOUS
  <1>1. CASE MDPress
    BY <1>1, StopWithKeeps DEF MDInv, MDPress, MDType, mdContext, QueuedRequest
  <1>2. CASE MDRelease
    BY <1>2, StopWithKeeps DEF MDInv, MDRelease, MDType, mdContext, QueuedRequest
  <1>3. CASE MDCommit
    BY <1>3, StopWithKeeps DEF MDInv, MDCommit, MDType, QueuedRequest
  <1>4. CASE MDLeave
    BY <1>4, StopWithKeeps DEF MDInv, MDLeave, MDType, QueuedRequest
  <1>5. CASE MDSettle
    BY <1>5, SettleKeeps
  <1>6. CASE MDRepeat
    BY <1>6, RepeatKeeps
  <1>7. CASE MDTask
    BY <1>7 DEF MDTask, MDInv, MDType, Owned, OwnedBy, MotionEndsWithStop, HeldOn, StoppedAfter
  <1>8. ASSUME NEW r \in Robots, MDSelect(r) PROVE MDInv'
    BY <1>8 DEF MDSelect, MDInv, MDType, Owned, OwnedBy, MotionEndsWithStop, HeldOn, StoppedAfter
  <1>9. CASE UNCHANGED mdVars
    BY <1>9 DEF mdVars, MDInv, MDType, Owned, OwnedBy, MotionEndsWithStop, HeldOn, StoppedAfter
  <1> QED BY <1>1, <1>2, <1>3, <1>4, <1>5, <1>6, <1>7, <1>8, <1>9 DEF MDNext

\* Behind every motion request of an ended hold waits a stop for its robot
\* (manual/page.tsx 27-79): for any number of robots, presses and requests.
THEOREM MotionEndsWithStopHolds == MDSpec => []MotionEndsWithStop
  <1>1. MDInv => MotionEndsWithStop
    BY DEF MDInv
  <1> QED BY <1>1, InitHolds, StepKeeps, PTL DEF MDSpec
=============================================================================
