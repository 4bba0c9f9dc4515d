------------------------- MODULE DeliveryPages_proofs -------------------------
(***************************************************************************)
(* From the map to the finished delivery: a delivery is created as it was   *)
(* reviewed, the pointer means what is drawn under it, and the bar goes     *)
(* with the mission, for every fleet, map, window and number of requests.  *)
(***************************************************************************)
EXTENDS Pages, SequenceTheorems, WellFoundedInduction, TLAPS

\* What a step of the dashboard is to each page: a step of its own or none.
LEMMA DeliverySteps ==
    ASSUME [PagesNext]_pagesVars
    PROVE  /\ [DPNext \/ QDNext]_dpVars
           /\ [MPNext]_mpVars
           /\ [MCNext]_mcVars
  <1> USE DEF pagesVars, mapVars, taskVars
  <1>1. CASE UNCHANGED pagesVars
    BY <1>1
  <1>2. CASE DriveNext /\ UNCHANGED <<mapVars, viewVars, taskVars>>
    BY <1>2
  <1>3. CASE MapNext /\ UNCHANGED <<driveVars, viewVars, taskVars>>
    BY <1>3 DEF MapNext
  <1>4. CASE ViewNext /\ UNCHANGED <<driveVars, mapVars, taskVars>>
    BY <1>4
  <1>5. CASE TaskNext /\ UNCHANGED <<driveVars, mapVars, viewVars>>
    BY <1>5 DEF TaskNext
  <1> QED BY <1>1, <1>2, <1>3, <1>4, <1>5 DEF PagesNext

-----------------------------------------------------------------------------
(* Creating a delivery                                                     *)

\* A preview is asked for once per run of the effect, and a run that is numbered
\* like the present one asked for what the form says now.
AsksOfRuns ==
    /\ dpRun \in Nat
    /\ \A ask \in dpAsks :
         /\ ask.run \in Nat /\ ask.run <= dpRun /\ (dpTimer => ask.run < dpRun)
         /\ ask.run = dpRun =>
              ask.robot = dpForm.robot /\ (ask.supervised => dpTick)
    /\ \A ask, other \in dpAsks : ask.run = other.run => ask = other

\* Each number is with the request, the validation or the delivery made of it.
PlansOfRuns ==
    LET plans == dpValid \cup {task.plan : task \in dpTasks} IN
    /\ \A plan \in plans :
         /\ plan.id \in Nat /\ plan.id <= dpRun /\ (dpTimer => plan.id < dpRun)
         /\ \A ask \in dpAsks : ask.run # plan.id
    /\ \A plan, other \in dpValid : plan.id = other.id => plan = other
    /\ \A plan \in dpValid, task \in dpTasks : task.plan.id # plan.id

\* The preview on the page was planned for what the form says now, once the
\* 250 ms since the last change are over, and supervised only as ticked.
PreviewFits ==
    dpPreview # NoPreview =>
      /\ dpAdmin /\ ~dpTimer => dpPreview.robot = dpForm.robot
      /\ dpPreview.supervised => dpTick

SubmitFits ==
    dpSubmit # NoSubmit =>
      /\ dpAdmin /\ dpSubmit.settled => dpSubmit.preview.robot = dpSubmit.form.robot
      /\ dpSubmit.preview.supervised => dpSubmit.tick

DPInv == AsksOfRuns /\ PlansOfRuns /\ PreviewFits /\ SubmitFits /\ CreatedAsReviewed

\* The effect runs again: what is under way is of an earlier run, and the preview
\* that may stay is not yet settled.
LEMMA RerunKeeps ==
    ASSUME DPInv, NEW form, NEW tick, NEW ready, NEW clear \in BOOLEAN,
           Rerun(form, tick, ready, clear), clear \/ tick = dpTick
    PROVE  AsksOfRuns' /\ PlansOfRuns' /\ PreviewFits' /\ CreatedAsReviewed'
  <1> DEFINE plan == CanPlan(form, tick, ready)
  <1>1. /\ dpRun' = dpRun + 1 /\ UNCHANGED <<dpAdmin, dpAsks, dpValid, dpTasks>>
        /\ dpTick' = tick /\ dpTimer' = plan
        /\ dpPreview' = IF clear \/ ~plan THEN NoPreview ELSE dpPreview
    BY DEF Rerun
  <1> HIDE DEF plan
  <1>2. dpRun \in Nat
    BY DEF DPInv, AsksOfRuns
  <1>3. AsksOfRuns'
    BY <1>1, <1>2 DEF DPInv, AsksOfRuns
  <1>4. PlansOfRuns'
    BY <1>1, <1>2 DEF DPInv, PlansOfRuns
  <1>5. PreviewFits'
    BY <1>1 DEF DPInv, PreviewFits
  <1>6. CreatedAsReviewed'
    BY <1>1 DEF DPInv, CreatedAsReviewed, AllowedPriority
  <1> QED BY <1>3, <1>4, <1>5, <1>6

\* The create request that is out stays, or there is none any more.
LEMMA SubmitKeeps ==
    ASSUME DPInv, dpSubmit' = dpSubmit \/ dpSubmit' = NoSubmit, dpAdmin' = dpAdmin
    PROVE  SubmitFits'
  BY DEF DPInv, SubmitFits

LEMMA TimerKeeps ==
    ASSUME DPInv, DPTimer
    PROVE  DPInv'
  <1> DEFINE ask == [run |-> dpRun, route |-> dpForm.route, robot |-> dpForm.robot,
                     priority |-> AllowedPriority(dpForm.priority),
                     supervised |-> dpAdmin /\ dpReady = "degraded" /\ dpTick]
  <1>1. /\ dpTimer /\ dpTimer' = FALSE /\ dpPreview' = NoPreview
        /\ dpAsks' = dpAsks \cup {ask}
        /\ UNCHANGED <<dpAdmin, dpForm, dpTick, dpRun, dpSubmit, dpValid, dpTasks>>
    BY DEF DPTimer
  <1>2. ask.run = dpRun /\ ask.robot = dpForm.robot /\ (ask.supervised => dpTick)
    OBVIOUS
  <1> HIDE DEF ask
  <1>3. AsksOfRuns'
    BY <1>1, <1>2 DEF DPInv, AsksOfRuns
  <1>4. PlansOfRuns'
    BY <1>1, <1>2 DEF DPInv, AsksOfRuns, PlansOfRuns
  <1>5. PreviewFits' /\ SubmitFits'
    BY <1>1, SubmitKeeps DEF PreviewFits
  <1>6. CreatedAsReviewed'
    BY <1>1 DEF DPInv, CreatedAsReviewed, AllowedPriority
  <1> QED BY <1>3, <1>4, <1>5, <1>6 DEF DPInv

\* A preview is taken only for the present run with its timer gone off.
LEMMA AnswerKeeps ==
    ASSUME DPInv, NEW ask \in dpAsks, NEW failed \in BOOLEAN, DPAnswer(ask, failed)
    PROVE  DPInv'
  <1>1. PICK robot \in (IF dpAdmin THEN {ask.robot} ELSE Robots) :
          /\ dpValid' = IF failed THEN dpValid ELSE dpValid \cup {Validation(ask, robot)}
          /\ dpPreview' = IF Wanted(ask) /\ ~failed THEN Validation(ask, robot) ELSE dpPreview
    BY DEF DPAnswer
  <1>2. /\ dpAsks' = dpAsks \ {ask}
        /\ UNCHANGED <<dpAdmin, dpForm, dpTick, dpRun, dpTimer, dpSubmit, dpTasks>>
    BY DEF DPAnswer
  <1> DEFINE plan == Validation(ask, robot)
  <1>3. plan.id = ask.run /\ plan.robot = robot /\ plan.supervised = ask.supervised
    BY DEF Validation
  <1> HIDE DEF plan
  <1>4. AsksOfRuns'
    BY <1>2 DEF DPInv, AsksOfRuns
  <1>5. PlansOfRuns'
    BY <1>1, <1>2, <1>3 DEF DPInv, AsksOfRuns, PlansOfRuns, plan
  <1>6. PreviewFits'
    BY <1>1, <1>2, <1>3 DEF DPInv, AsksOfRuns, PreviewFits, Wanted, plan
  <1>7. CreatedAsReviewed' /\ SubmitFits'
    BY <1>2, SubmitKeeps DEF DPInv, CreatedAsReviewed, AllowedPriority
  <1> QED BY <1>4, <1>5, <1>6, <1>7 DEF DPInv

LEMMA SubmitFromKeeps ==
    ASSUME DPInv, NEW step, SubmitFrom(step)
    PROVE  DPInv'
  <1>1. /\ dpPreview # NoPreview
        /\ dpSubmit' = [preview |-> dpPreview, form |-> dpForm, tick |-> dpTick,
                        settled |-> ~dpTimer]
        /\ UNCHANGED <<dpAdmin, dpForm, dpTick, dpRun, dpTimer, dpAsks, dpPreview, dpValid,
                       dpTasks>>
    BY DEF SubmitFrom
  <1>2. SubmitFits'
    BY <1>1 DEF DPInv, PreviewFits, SubmitFits
  <1> QED BY <1>1, <1>2
          DEF DPInv, AsksOfRuns, PlansOfRuns, PreviewFits, CreatedAsReviewed, AllowedPriority

\* The validation is used up by the delivery, which takes over its number.
LEMMA CreateKeeps ==
    ASSUME DPInv, NEW step, NEW validation \in dpValid, NEW lost \in BOOLEAN,
           CreateFrom(step, validation, lost)
    PROVE  DPInv'
  <1> DEFINE task == [plan |-> validation, shown |-> dpSubmit.form, tick |-> dpSubmit.tick,
                      settled |-> dpSubmit.settled, order |-> Cardinality(dpTasks) + 1]
  <1>1. /\ dpSubmit # NoSubmit /\ Accepts(validation, dpSubmit) /\ dpSubmit' = NoSubmit
        /\ dpValid' = dpValid \ {validation} /\ dpTasks' = dpTasks \cup {task}
        /\ UNCHANGED <<dpAdmin, dpForm, dpTick, dpAsks>>
    BY DEF CreateFrom
  <1>2. task.plan = validation /\ task.shown = dpSubmit.form /\ task.tick = dpSubmit.tick
        /\ task.settled = dpSubmit.settled
    OBVIOUS
  <1> HIDE DEF task
  <1>3. \/ dpRun' = dpRun + 1 /\ dpPreview' = NoPreview
        \/ UNCHANGED <<dpRun, dpPreview, dpTimer>>
    BY DEF CreateFrom
  <1>4. CreatedAsReviewed'
    <2>1. /\ validation.route = task.shown.route
          /\ validation.priority = AllowedPriority(task.shown.priority)
          /\ dpAdmin /\ task.settled => validation.robot = task.shown.robot
          /\ validation.supervised => task.tick
      BY <1>1, <1>2 DEF DPInv, SubmitFits, Accepts
    <2>2. \A other \in dpTasks : other.plan.id # validation.id
      BY DEF DPInv, PlansOfRuns
    <2> QED BY <1>1, <1>2, <2>1, <2>2 DEF DPInv, CreatedAsReviewed, AllowedPriority
  <1>5. AsksOfRuns'
    BY <1>1, <1>3 DEF DPInv, AsksOfRuns
  <1>6. PlansOfRuns'
    BY <1>1, <1>2, <1>3 DEF DPInv, AsksOfRuns, PlansOfRuns
  <1>7. PreviewFits' /\ SubmitFits'
    BY <1>1, <1>3, SubmitKeeps DEF DPInv, PreviewFits
  <1> QED BY <1>4, <1>5, <1>6, <1>7 DEF DPInv

LEMMA DPStarts == DPInit \/ QDInit => DPInv
  <1> SUFFICES ASSUME DPInit \/ QDInit PROVE DPInv
    OBVIOUS
  <1>1. /\ dpRun = 0 /\ dpTimer = FALSE /\ dpAsks = {} /\ dpPreview = NoPreview
        /\ dpSubmit = NoSubmit /\ dpValid = {} /\ dpTasks = {}
    BY DEF DPInit, QDInit
  <1> QED BY <1>1 DEF DPInv, AsksOfRuns, PlansOfRuns, PreviewFits, SubmitFits, CreatedAsReviewed

LEMMA DPStepKeeps == DPInv /\ [DPNext \/ QDNext]_dpVars => DPInv'
  <1> SUFFICES ASSUME DPInv, [DPNext \/ QDNext]_dpVars PROVE DPInv'
    OBVIOUS
  <1>1. CASE UNCHANGED <<dpAdmin, dpForm, dpTick, dpRun, dpTimer, dpAsks, dpPreview, dpSubmit,
                         dpTasks>> /\ dpValid' \subseteq dpValid
    BY <1>1 DEF DPInv, AsksOfRuns, PlansOfRuns, PreviewFits, SubmitFits, CreatedAsReviewed,
                AllowedPriority
  <1>2. ASSUME NEW form, NEW tick, NEW ready, NEW clear \in BOOLEAN,
               Rerun(form, tick, ready, clear), clear \/ tick = dpTick,
               dpSubmit' = dpSubmit \/ dpSubmit' = NoSubmit
        PROVE  DPInv'
    <2>1. dpAdmin' = dpAdmin
      BY <1>2 DEF Rerun
    <2> QED BY <1>2, <2>1, RerunKeeps, SubmitKeeps DEF DPInv
  <1>3. CASE DPTick \/ DPSpeed \/ DPPriority \/ DPMap \/ DPStale \/ DPRefused \/ DPAgain
    BY <1>2, <1>3 DEF DPTick, DPSpeed, DPPriority, DPMap, DPStale, DPRefused, DPAgain
  <1>4. CASE QDOpen \/ QDTick \/ QDPriority \/ QDSpeed \/ QDAnother \/ QDRefused \/ QDClose
    BY <1>2, <1>4 DEF QDOpen, QDTick, QDPriority, QDSpeed, QDAnother, QDRefused, QDClose, QDChange
  <1>5. ASSUME NEW route \in Routes, DPRoute(route) \/ QDRoute(route)
        PROVE  DPInv'
    BY <1>2, <1>5 DEF DPRoute, QDRoute, QDChange
  <1>6. ASSUME NEW robot \in Robots, NEW ready \in {"ready", "degraded", "blocked"},
               DPRobot(robot, ready)
        PROVE  DPInv'
    BY <1>2, <1>6 DEF DPRobot
  <1>7. ASSUME NEW ask \in dpAsks, NEW failed \in BOOLEAN, DPAnswer(ask, failed)
        PROVE  DPInv'
    BY <1>7, AnswerKeeps
  <1>8. ASSUME NEW validation \in dpValid, NEW lost \in BOOLEAN,
               DPCreate(validation, lost) \/ QDCreate(validation, lost)
        PROVE  DPInv'
    BY <1>8, CreateKeeps DEF DPCreate, QDCreate
  <1>9. ASSUME NEW validation \in dpValid, DPExpire(validation)
        PROVE  DPInv'
    BY <1>1, <1>9 DEF DPExpire
  <1>10. ASSUME NEW step \in {"form", "details", "review"}, DPStep(step)
         PROVE  DPInv'
    BY <1>1, <1>10 DEF DPStep
  <1>11. CASE DPBackendMap \/ UNCHANGED dpVars
    BY <1>1, <1>11 DEF DPBackendMap, dpVars
  <1>12. CASE DPTimer \/ DPSubmit \/ QDSubmit
    BY <1>12, TimerKeeps, SubmitFromKeeps DEF DPSubmit, QDSubmit
  <1> QED BY <1>3, <1>4, <1>5, <1>6, <1>7, <1>8, <1>9, <1>10, <1>11, <1>12 DEF DPNext, QDNext

\* A delivery is what its operator reviewed, on a validation of its own, however
\* changes of the form, previews, lost answers and retries interleave
\* (delivery/page.tsx 83-160, DashboardDeliveryMap.tsx, route_preview.py 83-152).
THEOREM CreatedAsReviewedHolds == PagesSpec => []CreatedAsReviewed
  <1>1. PagesInit => DPInv
    BY DPStarts DEF PagesInit
  <1>2. DPInv /\ [PagesNext]_pagesVars => DPInv'
    BY DeliverySteps, DPStepKeeps
  <1>3. DPInv => CreatedAsReviewed
    BY DEF DPInv
  <1> QED BY <1>1, <1>2, <1>3, PTL DEF PagesSpec

-----------------------------------------------------------------------------
(* The map the operator points at                                          *)

Points == Int \X Int

\* The first of the naturals of a set that has one.
LEMMA LeastNatural ==
    ASSUME NEW T \in SUBSET Nat, T # {}
    PROVE  \E n \in T : \A m \in T : n <= m
  <1> DEFINE less == {p \in Nat \X Nat : p[1] < p[2]}
  <1>1. less = OpToRel(<, Nat)
    BY DEF OpToRel
  <1>2. IsWellFoundedOn(less, Nat)
    BY <1>1, NatLessThanWellFounded
  <1>3. PICK n \in T : \A m \in T : <<m, n>> \notin less
    BY <1>2, WFMin
  <1>4. ASSUME NEW m \in T PROVE n <= m
    <2>1. <<m, n>> \in Nat \X Nat /\ ~(<<m, n>>[1] < <<m, n>>[2])
      BY <1>3
    <2> QED BY <2>1
  <1> QED BY <1>4

LEMMA AddTimesArePoints ==
    ASSUME NEW p \in Points, NEW q \in Points, NEW k \in Int
    PROVE  Add(p, q) \in Points /\ Times(k, p) \in Points
  BY DEF Points, Add, Times

LEMMA MinusIsAPoint ==
    ASSUME NEW p \in Points, NEW q \in Points
    PROVE  Add(p, Times(-1, q)) \in Points
  BY DEF Points, Add, Times

LEMMA Remainder ==
    ASSUME NEW x \in Int, NEW d \in Int, NEW r \in 0..3, x = 4 * d + r
    PROVE  x % 4 = r
  <1>1. x % 4 \in 0..3 /\ x \div 4 \in Int /\ x = 4 * (x \div 4) + (x % 4)
    OBVIOUS
  <1> QED BY <1>1

\* The turns, spelled out.
LEMMA TurnsAre ==
    ASSUME NEW t \in 0..3, NEW p \in Points
    PROVE  /\ t = 0 => Turn(t, p) = p /\ Turn(-t, p) = p
           /\ t = 1 => Turn(t, p) = <<-p[2], p[1]>> /\ Turn(-t, p) = <<p[2], -p[1]>>
           /\ t = 2 => Turn(t, p) = <<-p[1], -p[2]>> /\ Turn(-t, p) = <<-p[1], -p[2]>>
           /\ t = 3 => Turn(t, p) = <<p[2], -p[1]>> /\ Turn(-t, p) = <<-p[2], p[1]>>
  <1> DEFINE u == -t
  <1>1. /\ u \in Int
        /\ t = 0 => u = 4 * 0 + 0
        /\ t \in 1..3 => u = 4 * (-1) + (4 - t) /\ 4 - t \in 0..3
    OBVIOUS
  <1> HIDE DEF u
  <1>2. (t = 0 => u % 4 = 0) /\ (t = 1 => u % 4 = 3) /\ (t = 2 => u % 4 = 2) /\ (t = 3 => u % 4 = 1)
    <2>1. t = 0 => u % 4 = 0
      BY <1>1, Remainder
    <2>2. t \in 1..3 => u % 4 = 4 - t
      <3>1. -1 \in Int
        OBVIOUS
      <3> QED BY <1>1, <3>1, Remainder
    <2> QED BY <2>1, <2>2
  <1>3. t % 4 = t
    OBVIOUS
  <1> QED BY <1>2, <1>3 DEF Turn, u

\* A turn is undone by the opposite one, moves no distances, goes through sums
\* and scales.
LEMMA TurnIsRigid ==
    ASSUME NEW t \in 0..3, NEW p \in Points, NEW q \in Points, NEW k \in Int
    PROVE  /\ Turn(t, p) \in Points /\ Turn(-t, p) \in Points
           /\ Turn(-t, Turn(t, p)) = p /\ Turn(t, Turn(-t, p)) = p
           /\ Square(Turn(-t, p)) = Square(p)
           /\ Turn(-t, Add(p, q)) = Add(Turn(-t, p), Turn(-t, q))
           /\ Turn(-t, Times(k, p)) = Times(k, Turn(-t, p))
  <1> DEFINE x == p[1]
             y == p[2]
             u == q[1]
             v == q[2]
  <1>1. /\ p = <<x, y>> /\ q = <<u, v>>
        /\ x \in Int /\ y \in Int /\ u \in Int /\ v \in Int
    BY DEF Points
  <1> HIDE DEF x, y, u, v
  <1>2. /\ x * x = (-x) * (-x) /\ y * y = (-y) * (-y) /\ x * x \in Int /\ y * y \in Int
        /\ k * (-x) = -(k * x) /\ k * (-y) = -(k * y) /\ k * x \in Int /\ k * y \in Int
        /\ - (-x) = x /\ - (-y) = y
    BY <1>1
  <1>3. /\ Add(p, q) = <<x + u, y + v>> /\ Times(k, p) = <<k * x, k * y>>
        /\ Square(p) = x * x + y * y
        /\ Add(p, q) \in Points /\ Times(k, p) \in Points
    BY <1>1, <1>2 DEF Add, Times, Square, Points
  <1>4. CASE t = 0
    <2>1. Turn(t, p) = p /\ Turn(-t, p) = p /\ Turn(-t, q) = q
      BY <1>4, TurnsAre
    <2>2. Turn(-t, Add(p, q)) = Add(p, q) /\ Turn(-t, Times(k, p)) = Times(k, p)
      BY <1>3, <1>4, TurnsAre
    <2> QED BY <2>1, <2>2
  <1>5. CASE t = 1
    <2>1. Turn(t, p) = <<-y, x>> /\ Turn(-t, p) = <<y, -x>> /\ Turn(-t, q) = <<v, -u>>
      BY <1>1, <1>5, TurnsAre
    <2>2. Turn(-t, Turn(t, p)) = p /\ Turn(t, Turn(-t, p)) = p
      <3>1. <<-y, x>> \in Points /\ <<y, -x>> \in Points
        BY <1>1 DEF Points
      <3>2. Turn(-t, <<-y, x>>) = p /\ Turn(t, <<y, -x>>) = p
        BY <1>1, <1>2, <1>5, <3>1, TurnsAre
      <3> QED BY <2>1, <3>2
    <2>3. /\ Turn(-t, Add(p, q)) = <<y + v, -(x + u)>>
          /\ Turn(-t, Times(k, p)) = <<k * y, -(k * x)>>
      BY <1>1, <1>2, <1>3, <1>5, TurnsAre
    <2> QED BY <1>1, <1>2, <1>3, <2>1, <2>2, <2>3 DEF Points, Add, Times, Square
  <1>6. CASE t = 2
    <2>1. Turn(t, p) = <<-x, -y>> /\ Turn(-t, p) = <<-x, -y>> /\ Turn(-t, q) = <<-u, -v>>
      BY <1>1, <1>6, TurnsAre
    <2>2. Turn(-t, Turn(t, p)) = p /\ Turn(t, Turn(-t, p)) = p
      <3>1. <<-x, -y>> \in Points /\ <<-x, -y>> \in Points
        BY <1>1 DEF Points
      <3>2. Turn(-t, <<-x, -y>>) = p /\ Turn(t, <<-x, -y>>) = p
        BY <1>1, <1>2, <1>6, <3>1, TurnsAre
      <3> QED BY <2>1, <3>2
    <2>3. /\ Turn(-t, Add(p, q)) = <<-(x + u), -(y + v)>>
          /\ Turn(-t, Times(k, p)) = <<-(k * x), -(k * y)>>
      BY <1>1, <1>2, <1>3, <1>6, TurnsAre
    <2> QED BY <1>1, <1>2, <1>3, <2>1, <2>2, <2>3 DEF Points, Add, Times, Square
  <1>7. CASE t = 3
    <2>1. Turn(t, p) = <<y, -x>> /\ Turn(-t, p) = <<-y, x>> /\ Turn(-t, q) = <<-v, u>>
      BY <1>1, <1>7, TurnsAre
    <2>2. Turn(-t, Turn(t, p)) = p /\ Turn(t, Turn(-t, p)) = p
      <3>1. <<y, -x>> \in Points /\ <<-y, x>> \in Points
        BY <1>1 DEF Points
      <3>2. Turn(-t, <<y, -x>>) = p /\ Turn(t, <<-y, x>>) = p
        BY <1>1, <1>2, <1>7, <3>1, TurnsAre
      <3> QED BY <2>1, <3>2
    <2>3. /\ Turn(-t, Add(p, q)) = <<-(y + v), x + u>>
          /\ Turn(-t, Times(k, p)) = <<-(k * y), k * x>>
      BY <1>1, <1>2, <1>3, <1>7, TurnsAre
    <2>4. Square(Turn(-t, p)) = Square(p)
      BY <1>1, <1>2, <1>3, <2>1 DEF Square
    <2>5. Turn(-t, Add(p, q)) = Add(Turn(-t, p), Turn(-t, q))
      BY <1>1, <2>1, <2>3 DEF Add
    <2>6. Turn(-t, Times(k, p)) = Times(k, Turn(-t, p))
      BY <1>1, <1>2, <2>1, <2>3 DEF Times
    <2>7. Turn(t, p) \in Points /\ Turn(-t, p) \in Points
      BY <1>1, <2>1 DEF Points
    <2> QED BY <2>2, <2>4, <2>5, <2>6, <2>7
  <1> QED BY <1>4, <1>5, <1>6, <1>7

LEMMA WithinIsDistance ==
    ASSUME NEW p \in Points, NEW r \in Nat
    PROVE  /\ Square(p) \in Nat
           /\ Within(p, r) <=> Square(p) <= r * r
  <1> DEFINE x == p[1]
             y == p[2]
  <1>1. x \in Int /\ y \in Int
    BY DEF Points
  <1> HIDE DEF x, y
  <1>2. x * x \in Nat /\ y * y \in Nat
    BY <1>1
  <1>3. x * x <= r * r => x \in -r..r
    BY <1>1
  <1>4. y * y <= r * r => y \in -r..r
    BY <1>1
  <1>5. Square(p) = x * x + y * y
    BY DEF Square, x, y
  <1> QED BY <1>2, <1>3, <1>4, <1>5 DEF Within, x, y

LEMMA QuotientOfProduct ==
    ASSUME NEW z \in Nat \ {0}, NEW s \in Nat \ {0}, NEW g \in Int
    PROVE  ((z * s) * g) \div (z * s) = g
  <1> DEFINE m == z * s
  <1>1. m \in Nat \ {0}
    OBVIOUS
  <1> HIDE DEF m
  <1>2. (m * g) \div m = g
    BY <1>1
  <1> QED BY <1>2 DEF m

LEMMA QuotientIsWhole ==
    ASSUME NEW n \in Int, NEW m \in Nat \ {0}
    PROVE  n \div m \in Int
  OBVIOUS

LEMMA TakeOffset ==
    ASSUME NEW z \in Int, NEW s \in Int, NEW a \in Int, NEW g \in Int
    PROVE  z * (a + g * s) - z * a = (z * s) * g
  OBVIOUS

MCTyped ==
    /\ mcPlan \in Plans /\ mcWidth \in Widths
    /\ mcView \in [zoom: Nat \ {0}, turns: 0..3, offset: Points]
    /\ mcAt \in Points
    /\ mcPan \in [down: BOOLEAN, from: Points, start: Points, moved: BOOLEAN]
    /\ mcGesture \in [at: Points, yaw: Points, set: BOOLEAN]
    /\ mcPose \in [at: Points, yaw: Points, set: BOOLEAN]

\* Only a canvas for poses has a gesture, which turns the pose and leaves it where
\* it began.
GestureHolds ==
    mcGesture.set => mcPurpose = "pose" /\ mcPose.at = mcGesture.at

MCInv == MCTyped /\ GestureHolds

\* The map fits into the canvas in whole pixels.
LEMMA ViewportTyped ==
    ASSUME MCTyped
    PROVE  /\ Centre \in Points /\ Corner \in Points /\ Scale \in Nat \ {0}
           /\ mcPlan.rows \in Nat /\ mcPlan.columns \in Nat
           /\ mcPlan.origin \in Points /\ mcPlan.quarters \in 0..3
           /\ mcView.zoom \in Nat \ {0} /\ mcView.turns \in 0..3 /\ mcView.offset \in Points
  <1>1. /\ mcPlan.columns \in Nat \ {0} /\ mcPlan.rows \in Nat \ {0} /\ mcWidth \in Nat
        /\ mcPlan.origin \in Points /\ mcPlan.quarters \in 0..3
        /\ mcPlan.columns <= mcWidth - 36
        /\ mcPlan.rows <= Height(mcWidth, mcPlan) - 36
    BY CanvasAssumption DEF MCTyped, Points
  <1> DEFINE columns == mcPlan.columns
             rows == mcPlan.rows
             height == Height(mcWidth, mcPlan)
  <1>2. height \in Nat
    <2>1. (mcWidth * rows) \div columns \in Int
      BY <1>1
    <2> QED BY <2>1 DEF Height, Lower, Upper
  <1>3. Size[1] = mcWidth /\ Size[2] = height
    BY DEF Size
  <1> HIDE DEF columns, rows, height
  <1>4. \A n \in Nat, m \in Nat \ {0} : m <= n => n \div m \in Nat \ {0}
    OBVIOUS
  <1>5. (mcWidth - 36) \div columns \in Nat \ {0} /\ (height - 36) \div rows \in Nat \ {0}
    BY <1>1, <1>2, <1>4 DEF columns, rows, height
  <1>6. Scale \in Nat \ {0}
    BY <1>1, <1>2, <1>3, <1>5 DEF Scale, Lower, columns, rows
  <1>7. Centre \in Points
    BY <1>1, <1>2, <1>3 DEF Centre, Points
  <1>8. Corner \in Points
    <2>1. columns * Scale \in Int /\ rows * Scale \in Int
      BY <1>1, <1>6 DEF columns, rows
    <2>2. (mcWidth - columns * Scale) \div 2 \in Int /\ (height - rows * Scale) \div 2 \in Int
      BY <1>1, <1>2, <2>1
    <2> QED BY <1>3, <2>2 DEF Corner, Points, columns, rows
  <1> QED BY <1>1, <1>6, <1>7, <1>8 DEF MCTyped

LEMMA WorldTyped ==
    ASSUME MCTyped, NEW world \in Points
    PROVE  /\ GridOf(world) \in Points /\ WorldToCanvas(world) \in Points
           /\ CanvasOf(world) \in Points
  <1>1. GridOf(world) \in Points
    <2>1. Add(world, Times(-1, mcPlan.origin)) \in Points
      BY ViewportTyped, MinusIsAPoint
    <2> QED BY <2>1, ViewportTyped, TurnIsRigid DEF GridOf
  <1>2. WorldToCanvas(world) \in Points
    <2> DEFINE grid == GridOf(world)
    <2>1. /\ grid[1] \in Int /\ grid[2] \in Int /\ Corner[1] \in Int /\ Corner[2] \in Int
          /\ Scale \in Int /\ mcPlan.rows \in Int
      BY <1>1, ViewportTyped DEF Points
    <2> HIDE DEF grid
    <2>2. grid[1] * Scale \in Int /\ (mcPlan.rows - 1 - grid[2]) * Scale \in Int
      BY <2>1
    <2> QED BY <2>1, <2>2 DEF WorldToCanvas, Points, grid
  <1>3. Turn(mcView.turns, Add(WorldToCanvas(world), Times(-1, Centre))) \in Points
    <2>1. Add(WorldToCanvas(world), Times(-1, Centre)) \in Points
      BY <1>2, ViewportTyped, MinusIsAPoint
    <2> QED BY <2>1, ViewportTyped, TurnIsRigid
  <1>4. /\ Times(mcView.zoom, Turn(mcView.turns, Add(WorldToCanvas(world), Times(-1, Centre))))
             \in Points
        /\ Add(Times(100, Centre), mcView.offset) \in Points
    BY <1>3, ViewportTyped, AddTimesArePoints
  <1> QED BY <1>1, <1>2, <1>4, AddTimesArePoints DEF CanvasOf

\* Taken back, a point of the canvas is as far from where a world point is drawn
\* as the pointer is, turned.
LEMMA TakenBack ==
    ASSUME MCTyped, NEW world \in Points, NEW at \in Points
    PROVE  PointFromClient(at) =
             Add(Times(mcView.zoom, WorldToCanvas(world)),
                 Turn(-mcView.turns, Add(at, Times(-1, CanvasOf(world)))))
  <1> DEFINE z == mcView.zoom
             t == mcView.turns
             w == WorldToCanvas(world)
             c == Centre
             o == Add(Times(100, c), mcView.offset)
             away == Add(at, Times(-1, CanvasOf(world)))
             arm == Add(w, Times(-1, c))
  <1>1. /\ z \in Int /\ t \in 0..3 /\ w \in Points /\ c \in Points /\ o \in Points
        /\ CanvasOf(world) \in Points /\ away \in Points /\ arm \in Points
        /\ Turn(t, arm) \in Points
    <2>1. /\ z \in Int /\ t \in 0..3 /\ w \in Points /\ c \in Points
          /\ CanvasOf(world) \in Points /\ o \in Points
      BY ViewportTyped, WorldTyped, AddTimesArePoints
    <2>2. away \in Points /\ arm \in Points
      BY <2>1, MinusIsAPoint
    <2> QED BY <2>1, <2>2, TurnIsRigid
  <1>2. CanvasOf(world) = Add(o, Times(z, Turn(t, arm)))
    BY DEF CanvasOf
  <1>3. PointFromClient(at) = Add(Turn(-t, Add(at, Times(-1, o))), Times(z, c))
    BY DEF PointFromClient
  <1> HIDE DEF z, t, w, c, o, arm
  <1>4. Add(at, Times(-1, o)) = Add(Times(z, Turn(t, arm)), away)
    <2> DEFINE b == Times(z, Turn(t, arm))
    <2>1. b \in Points
      BY <1>1, AddTimesArePoints
    <2> HIDE DEF b
    <2> QED BY <1>1, <1>2, <2>1 DEF Add, Times, Points, b
  <1> HIDE DEF away
  <1>5. Turn(-t, Add(at, Times(-1, o))) = Add(Times(z, arm), Turn(-t, away))
    <2>1. Times(z, Turn(t, arm)) \in Points
      BY <1>1, AddTimesArePoints
    <2>2. Turn(-t, Times(z, Turn(t, arm))) = Times(z, arm)
      BY <1>1, TurnIsRigid
    <2> QED BY <1>1, <1>4, <2>1, <2>2, TurnIsRigid
  <1>6. Add(Add(Times(z, arm), Turn(-t, away)), Times(z, c)) = Add(Times(z, w), Turn(-t, away))
    <2>1. Turn(-t, away) \in Points
      BY <1>1, TurnIsRigid
    <2> DEFINE d == Turn(-t, away)
    <2> HIDE DEF d
    <2>2. /\ z * (w[1] - c[1]) + z * c[1] = z * w[1] /\ z * (w[2] - c[2]) + z * c[2] = z * w[2]
          /\ z * (w[1] - c[1]) \in Int /\ z * (w[2] - c[2]) \in Int
          /\ z * c[1] \in Int /\ z * c[2] \in Int /\ d[1] \in Int /\ d[2] \in Int
      BY <1>1, <2>1 DEF Points, d
    <2>3. Times(z, arm) = <<z * (w[1] - c[1]), z * (w[2] - c[2])>>
      BY <1>1 DEF arm, Add, Times, Points
    <2>4. Add(Add(Times(z, arm), d), Times(z, c)) = Add(Times(z, w), d)
      BY <2>2, <2>3 DEF Add, Times
    <2> QED BY <2>4 DEF d
  <1> QED BY <1>1, <1>2, <1>3, <1>5, <1>6 DEF z, t, w, away


\* What is drawn of a world point is taken back to it.
LEMMA DrawnIsTakenBack ==
    ASSUME MCTyped, NEW world \in Points
    PROVE  CanvasToWorld(PointFromClient(CanvasOf(world))) = world
  <1> DEFINE z == mcView.zoom
             grid == GridOf(world)
             place == WorldToCanvas(world)
             s == Scale
             rows == mcPlan.rows
             at == CanvasOf(world)
             point == PointFromClient(at)
  <1>1. /\ z \in Nat \ {0} /\ s \in Nat \ {0} /\ rows \in Nat
        /\ grid[1] \in Int /\ grid[2] \in Int /\ grid = <<grid[1], grid[2]>>
        /\ Corner[1] \in Int /\ Corner[2] \in Int
        /\ at \in Points /\ place \in Points /\ grid \in Points
    BY ViewportTyped, WorldTyped DEF Points
  <1>2. point = Times(z, place)
    <2>1. point = Add(Times(z, place), Turn(-mcView.turns, Add(at, Times(-1, at))))
      BY <1>1, TakenBack
    <2>2. Add(at, Times(-1, at)) = <<0, 0>>
      BY <1>1 DEF Add, Times, Points
    <2>3. Turn(-mcView.turns, <<0, 0>>) = <<0, 0>>
      <3>1. mcView.turns \in 0..3 /\ <<0, 0>> \in Points
        BY ViewportTyped DEF Points
      <3> QED BY <3>1, TurnsAre
    <2>4. Times(z, place) \in Points
      BY <1>1, AddTimesArePoints
    <2>5. Add(Times(z, place), <<0, 0>>) = Times(z, place)
      BY <2>4 DEF Add, Points
    <2> QED BY <2>1, <2>2, <2>3, <2>5
  <1>3. place = <<Corner[1] + grid[1] * s, Corner[2] + (rows - 1 - grid[2]) * s>>
    BY DEF WorldToCanvas
  <1>4. point = <<z * (Corner[1] + grid[1] * s), z * (Corner[2] + (rows - 1 - grid[2]) * s)>>
    BY <1>2, <1>3 DEF Times
  <1>5. CanvasToGrid(point) = <<(point[1] - z * Corner[1]) \div (z * s),
                                rows - 1 - (point[2] - z * Corner[2]) \div (z * s)>>
    BY DEF CanvasToGrid
  <1>6. GridOf(world) = grid
    OBVIOUS
  <1> DEFINE a == Corner[1]
             b == Corner[2]
             g == grid[1]
             h == grid[2]
  <1>7. a \in Int /\ b \in Int /\ g \in Int /\ h \in Int /\ grid = <<g, h>>
    BY <1>1
  <1>8. /\ point = <<z * (a + g * s), z * (b + (rows - 1 - h) * s)>>
        /\ CanvasToGrid(point) = <<(point[1] - z * a) \div (z * s),
                                   rows - 1 - (point[2] - z * b) \div (z * s)>>
    BY <1>4, <1>5
  <1> HIDE DEF z, grid, place, s, rows, at, point, a, b, g, h
  <1>9. (point[1] - z * a) \div (z * s) = g
    <2>1. point[1] - z * a = (z * s) * g
      BY <1>1, <1>7, <1>8, TakeOffset
    <2> QED BY <1>1, <1>7, <2>1, QuotientOfProduct
  <1>10. (point[2] - z * b) \div (z * s) = rows - 1 - h
    <2>1. rows - 1 - h \in Int
      BY <1>1, <1>7
    <2>2. point[2] - z * b = (z * s) * (rows - 1 - h)
      BY <1>1, <1>7, <1>8, <2>1, TakeOffset
    <2> QED BY <1>1, <2>1, <2>2, QuotientOfProduct
  <1>11. CanvasToGrid(point) = grid
    BY <1>1, <1>7, <1>8, <1>9, <1>10
  <1>12. Turn(mcPlan.quarters, grid) = Add(world, Times(-1, mcPlan.origin))
    <2>1. Add(world, Times(-1, mcPlan.origin)) \in Points /\ mcPlan.quarters \in 0..3
      BY ViewportTyped, MinusIsAPoint
    <2> QED BY <2>1, TurnIsRigid, <1>6 DEF GridOf
  <1>13. Add(mcPlan.origin, Add(world, Times(-1, mcPlan.origin))) = world
    BY ViewportTyped DEF Add, Times, Points
  <1> QED BY <1>11, <1>12, <1>13 DEF CanvasToWorld, point, at

LEMMA PointerIsTakenBack ==
    ASSUME MCTyped, NEW at \in Points
    PROVE  /\ PointFromClient(at) \in Points
           /\ CanvasToWorld(PointFromClient(at)) \in Points
  <1> DEFINE point == PointFromClient(at)
  <1>1. point \in Points
    <2>1. Add(Times(100, Centre), mcView.offset) \in Points
      BY ViewportTyped, AddTimesArePoints
    <2>2. Add(at, Times(-1, Add(Times(100, Centre), mcView.offset))) \in Points
      BY <2>1, MinusIsAPoint
    <2>3. Turn(-mcView.turns, Add(at, Times(-1, Add(Times(100, Centre), mcView.offset))))
            \in Points
      BY <2>2, ViewportTyped, TurnIsRigid
    <2>4. Times(mcView.zoom, Centre) \in Points
      BY ViewportTyped, AddTimesArePoints
    <2> QED BY <2>3, <2>4, AddTimesArePoints DEF PointFromClient
  <1> HIDE DEF point
  <1>2. CanvasToGrid(point) \in Points
    <2> DEFINE z == mcView.zoom
               s == Scale
               a == Corner[1]
               b == Corner[2]
    <2>1. /\ z \in Nat \ {0} /\ s \in Nat \ {0} /\ a \in Int /\ b \in Int
          /\ mcPlan.rows \in Int /\ point[1] \in Int /\ point[2] \in Int
      BY <1>1, ViewportTyped DEF Points
    <2>2. CanvasToGrid(point) = <<(point[1] - z * a) \div (z * s),
                                  mcPlan.rows - 1 - (point[2] - z * b) \div (z * s)>>
      BY DEF CanvasToGrid
    <2> HIDE DEF z, s, a, b
    <2>3. /\ z * s \in Nat \ {0}
          /\ point[1] - z * a \in Int /\ point[2] - z * b \in Int
      BY <2>1
    <2>4. (point[1] - z * a) \div (z * s) \in Int /\ (point[2] - z * b) \div (z * s) \in Int
      BY <2>3, QuotientIsWhole
    <2> QED BY <2>1, <2>2, <2>4 DEF Points
  <1>3. Turn(mcPlan.quarters, CanvasToGrid(point)) \in Points
    BY <1>2, ViewportTyped, TurnIsRigid
  <1>4. CanvasToWorld(point) \in Points
    BY <1>3, ViewportTyped, AddTimesArePoints DEF CanvasToWorld
  <1> QED BY <1>1, <1>4 DEF point

\* A station is as far from the pointer taken back as its drawing is from the pointer.
LEMMA AwayIsAsDrawn ==
    ASSUME MCTyped, NEW at \in Points, NEW name \in DOMAIN Places
    PROVE  /\ Places[name] \in Points
           /\ Away(at, name) \in Points
           /\ Add(at, Times(-1, CanvasOf(Places[name]))) \in Points
           /\ Square(Away(at, name)) = Square(Add(at, Times(-1, CanvasOf(Places[name]))))
  <1> DEFINE w == WorldToCanvas(Places[name])
             z == mcView.zoom
             away == Add(at, Times(-1, CanvasOf(Places[name])))
             d == Turn(-mcView.turns, away)
  <1>1. Places[name] \in Points
    BY CanvasAssumption DEF Points
  <1>2. w \in Points /\ CanvasOf(Places[name]) \in Points /\ z \in Int /\ mcView.turns \in 0..3
    BY <1>1, WorldTyped, ViewportTyped
  <1>3. away \in Points
    BY <1>2, MinusIsAPoint
  <1>4. d \in Points /\ Square(d) = Square(away)
    BY <1>2, <1>3, TurnIsRigid
  <1>5. PointFromClient(at) = Add(Times(z, w), d)
    BY <1>1, TakenBack
  <1>6. Away(at, name) = Add(Add(Times(z, w), d), Times(-z, w))
    BY <1>5 DEF Away
  <1> HIDE DEF w, z, d, away
  <1>7. Add(Add(Times(z, w), d), Times(-z, w)) = d
    <2>1. z * w[1] \in Int /\ z * w[2] \in Int /\ (-z) * w[1] = -(z * w[1])
          /\ (-z) * w[2] = -(z * w[2])
      BY <1>2 DEF Points
    <2> QED BY <1>4, <2>1 DEF Add, Times, Points
  <1> QED BY <1>1, <1>3, <1>4, <1>6, <1>7 DEF away

\* The nearest station is found where there is one, and on a disc it is the disc's.
LEMMA NearestIsUnder ==
    ASSUME MCTyped, NEW at \in Points, Under(at) # {}
    PROVE  Nearest(at) # {} /\ Nearest(at) \subseteq Under(at)
  <1> DEFINE z == mcView.zoom
             D(name) == Square(Away(at, name))
             near == {name \in OnMap : Within(Away(at, name), 20 * z)}
  <1>1. /\ z \in Nat \ {0} /\ 20 * z \in Nat /\ 13 * z \in Nat
        /\ (13 * z) * (13 * z) <= (20 * z) * (20 * z)
        /\ (13 * z) * (13 * z) \in Nat /\ (20 * z) * (20 * z) \in Nat
    <2>1. z \in Nat \ {0}
      BY ViewportTyped
    <2> HIDE DEF z
    <2>2. z * z \in Nat /\ (13 * z) * (13 * z) = 169 * (z * z)
          /\ (20 * z) * (20 * z) = 400 * (z * z)
      BY <2>1
    <2> QED BY <2>1, <2>2
  <1>2. \A name \in OnMap :
           /\ D(name) \in Nat
           /\ name \in near <=> D(name) <= (20 * z) * (20 * z)
           /\ name \in Under(at) <=> D(name) <= (13 * z) * (13 * z)
    <2> TAKE name \in OnMap
    <2> DEFINE away == Add(at, Times(-1, CanvasOf(Places[name])))
    <2>1. name \in DOMAIN Places
      BY DEF OnMap
    <2>2. Away(at, name) \in Points /\ away \in Points /\ D(name) = Square(away)
      BY <2>1, AwayIsAsDrawn
    <2>3. D(name) \in Nat /\ (Within(Away(at, name), 20 * z) <=> D(name) <= (20 * z) * (20 * z))
      BY <1>1, <2>2, WithinIsDistance
    <2>4. Within(away, 13 * z) <=> D(name) <= (13 * z) * (13 * z)
      BY <1>1, <2>2, WithinIsDistance
    <2> QED BY <2>3, <2>4 DEF Under
  <1>3. Under(at) \subseteq OnMap
    BY DEF Under
  <1>4. Nearest(at) = {name \in near : \A other \in near : D(name) <= D(other)}
    BY DEF Nearest
  <1>5. near \subseteq OnMap
    OBVIOUS
  <1> HIDE DEF z, D, near
  <1>6. Under(at) \subseteq near
    BY <1>1, <1>2, <1>3
  <1> DEFINE T == {D(name) : name \in near}
  <1>7. T \in SUBSET Nat /\ T # {}
    BY <1>2, <1>5, <1>6
  <1>8. PICK n \in T : \A m \in T : n <= m
    <2> HIDE DEF T
    <2> QED BY <1>7, LeastNatural
  <1>9. PICK first \in near : D(first) = n
    BY <1>8
  <1>10. first \in Nearest(at)
    BY <1>4, <1>8, <1>9
  <1>11. ASSUME NEW name \in Nearest(at) PROVE name \in Under(at)
    <2>1. PICK other \in Under(at) : TRUE
      OBVIOUS
    <2>2. other \in near /\ other \in OnMap /\ name \in near /\ name \in OnMap
      BY <1>3, <1>4, <1>5, <1>6, <1>11
    <2>3. D(name) <= D(other)
      BY <1>4, <1>11, <2>2
    <2>4. D(other) <= (13 * z) * (13 * z) /\ D(name) \in Nat /\ D(other) \in Nat
      BY <1>2, <2>2
    <2>5. D(name) <= (13 * z) * (13 * z)
      BY <1>1, <2>3, <2>4
    <2> QED BY <1>2, <2>2, <2>5
  <1> QED BY <1>10, <1>11

LEMMA CanvasInitial == ASSUME MCInit PROVE MCInv
  <1>1. mcPlan \in Plans
    BY CanvasAssumption DEF MCInit
  <1>2. mcWidth \in Widths
    <2>1. PICK width \in Widths : \A other \in Widths : width <= other
      BY CanvasAssumption
    <2> QED BY <2>1 DEF MCInit
  <1>3. <<0, 0>> \in Points /\ <<100, 100>> \in Points
    BY DEF Points
  <1> QED BY <1>1, <1>2, <1>3 DEF MCInit, MCInv, MCTyped, GestureHolds, NoPan, NoPose

\* Where the pointer is moved to.
LEMMA AimsArePoints ==
    ASSUME MCTyped, NEW to \in Aims
    PROVE  to \in Points
  <1>1. CASE mcPan.down
    <2>1. mcAt \in Points /\ <<300, 0>> \in Points /\ <<0, -40000>> \in Points
      BY DEF MCTyped, Points
    <2> QED BY <1>1, <2>1, AddTimesArePoints DEF Aims
  <1>2. CASE ~mcPan.down
    <2>1. PICK world \in Spots : to = CanvasOf(world)
      BY <1>2 DEF Aims
    <2>2. world \in Points
      BY CanvasAssumption DEF Points
    <2> QED BY <2>1, <2>2, WorldTyped
  <1> QED BY <1>1, <1>2

\* A pose begins where the pointer is, and that is where the world point under
\* it is drawn.
LEMMA PoseBegins ==
    ASSUME MCInv, MCDown
    PROVE  /\ MCInv'
           /\ mcPose'.at # mcPose.at => mcPose'.at = CanvasToWorld(PointFromClient(mcAt))
           /\ UNCHANGED <<mcAt, mcPick, mcHover>>
  <1> DEFINE pose == [at |-> CanvasToWorld(PointFromClient(mcAt)), yaw |-> mcPose.yaw,
                      set |-> TRUE]
  <1>1. pose \in [at: Points, yaw: Points, set: BOOLEAN]
    <2>1. CanvasToWorld(PointFromClient(mcAt)) \in Points
      BY PointerIsTakenBack DEF MCInv, MCTyped
    <2> QED BY <2>1 DEF MCInv, MCTyped
  <1>2. CASE mcPurpose # "pose"
    <2>1. mcPan' = [down |-> TRUE, from |-> mcAt, start |-> mcView.offset, moved |-> FALSE]
      BY <1>2 DEF MCDown
    <2>2. mcPan' \in [down: BOOLEAN, from: Points, start: Points, moved: BOOLEAN]
      BY <2>1 DEF MCInv, MCTyped
    <2>3. UNCHANGED <<mcGesture, mcPose>>
      BY <1>2 DEF MCDown
    <2> QED BY <2>2, <2>3 DEF MCDown, MCInv, MCTyped, GestureHolds
  <1>3. CASE mcPurpose = "pose"
    <2>1. mcGesture' = pose /\ mcPose' = pose /\ mcPan' = mcPan
      BY <1>3 DEF MCDown
    <2>2. mcPose'.at = CanvasToWorld(PointFromClient(mcAt))
      BY <2>1
    <2> HIDE DEF pose
    <2> QED BY <1>1, <1>3, <2>1, <2>2 DEF MCDown, MCInv, MCTyped, GestureHolds
  <1> QED BY <1>2, <1>3

LEMMA PointerMoves ==
    ASSUME MCInv, NEW to \in Points, MCMove(to)
    PROVE  /\ MCInv'
           /\ mcPose'.at = mcPose.at /\ UNCHANGED mcPick
           /\ ~mcPan.down /\ ~mcGesture.set =>
                mcHover' \in IF Nearest(to) = {} THEN {NoPlace} ELSE Nearest(to)
           /\ mcAt' = to
  <1> DEFINE shift == Add(to, Times(-1, mcPan.from))
             point == CanvasToWorld(PointFromClient(to))
  <1>1. point \in Points /\ shift \in Points
    BY PointerIsTakenBack, MinusIsAPoint DEF MCInv, MCTyped
  <1>2. /\ mcAt' = to /\ UNCHANGED <<mcPurpose, mcPlan, mcWidth, mcGesture, mcPick>>
    BY DEF MCMove
  <1>3. CASE mcPan.down
    <2>1. /\ mcPan' = [mcPan EXCEPT !.moved = @ \/ ~Within(shift, 400)]
          /\ mcView' = [mcView EXCEPT !.offset = Add(mcPan.start, shift)]
          /\ UNCHANGED mcPose
      BY <1>3 DEF MCMove
    <2>2. Add(mcPan.start, shift) \in Points
      BY <1>1, AddTimesArePoints DEF MCInv, MCTyped
    <2>3. (mcPan.moved \/ ~Within(shift, 400)) \in BOOLEAN
      OBVIOUS
    <2> HIDE DEF shift, point
    <2>4. mcPan' \in [down: BOOLEAN, from: Points, start: Points, moved: BOOLEAN]
      BY <2>1, <2>3 DEF MCInv, MCTyped
    <2>5. mcView' \in [zoom: Nat \ {0}, turns: 0..3, offset: Points]
      BY <2>1, <2>2 DEF MCInv, MCTyped
    <2> QED BY <1>2, <1>3, <2>1, <2>4, <2>5 DEF MCInv, MCTyped, GestureHolds
  <1>4. CASE ~mcPan.down /\ mcGesture.set
    <2> DEFINE yaw == Add(point, Times(-1, mcGesture.at))
    <2>1. /\ mcPose' = IF PointsInside(to) /\ point # mcGesture.at
                       THEN [mcGesture EXCEPT !.yaw = yaw]
                       ELSE IF PointsInside(to) THEN mcGesture ELSE mcPose
          /\ UNCHANGED <<mcPan, mcView, mcHover>>
      BY <1>4 DEF MCMove
    <2>2. yaw \in Points
      BY <1>1, MinusIsAPoint DEF MCInv, MCTyped
    <2> HIDE DEF yaw, point
    <2>3. mcPose' \in [at: Points, yaw: Points, set: BOOLEAN] /\ mcPose'.at = mcGesture.at
      <3>1. mcPose.at = mcGesture.at
        BY <1>4 DEF MCInv, GestureHolds
      <3> QED BY <2>1, <2>2, <3>1 DEF MCInv, MCTyped
    <2> QED BY <1>2, <1>4, <2>1, <2>3 DEF MCInv, MCTyped, GestureHolds
  <1>5. CASE ~mcPan.down /\ ~mcGesture.set
    <2>1. /\ mcHover' \in IF Nearest(to) = {} THEN {NoPlace} ELSE Nearest(to)
          /\ UNCHANGED <<mcPan, mcView, mcPose>>
      BY <1>5 DEF MCMove
    <2> QED BY <1>2, <2>1 DEF MCInv, MCTyped, GestureHolds
  <1> QED BY <1>2, <1>3, <1>4, <1>5

LEMMA PointerIsReleased ==
    ASSUME MCInv, NEW cancelled \in BOOLEAN, MCUp(cancelled)
    PROVE  /\ MCInv'
           /\ mcPose'.at # mcPose.at => mcPose'.at = CanvasToWorld(PointFromClient(mcAt))
           /\ mcPick'.count # mcPick.count => Nearest(mcAt) # {} /\ mcPick'.place \in Nearest(mcAt)
           /\ UNCHANGED mcAt
  <1> DEFINE pose == [at |-> CanvasToWorld(PointFromClient(mcAt)), yaw |-> mcPose.yaw,
                      set |-> TRUE]
  <1>1. /\ pose \in [at: Points, yaw: Points, set: BOOLEAN]
        /\ pose.at = CanvasToWorld(PointFromClient(mcAt))
    <2>1. CanvasToWorld(PointFromClient(mcAt)) \in Points
      BY PointerIsTakenBack DEF MCInv, MCTyped
    <2> QED BY <2>1 DEF MCInv, MCTyped
  <1>2. mcPose' \in {mcPose, pose}
    BY DEF MCUp
  <1>3. mcPick' # mcPick =>
          /\ Nearest(mcAt) # {}
          /\ mcPick' \in {[count |-> 1 - mcPick.count, place |-> name] : name \in Nearest(mcAt)}
    BY DEF MCUp
  <1>4. /\ mcPan' = NoPan /\ mcGesture' = NoPose
        /\ UNCHANGED <<mcPurpose, mcPlan, mcWidth, mcView, mcAt>>
    BY DEF MCUp
  <1> HIDE DEF pose
  <1>5. /\ NoPan \in [down: BOOLEAN, from: Points, start: Points, moved: BOOLEAN]
        /\ NoPose \in [at: Points, yaw: Points, set: BOOLEAN] /\ ~NoPose.set
    BY DEF NoPan, NoPose, Points
  <1>6. MCInv'
    BY <1>1, <1>2, <1>4, <1>5 DEF MCInv, MCTyped, GestureHolds
  <1>7. ASSUME mcPick' # mcPick
        PROVE  Nearest(mcAt) # {} /\ mcPick'.place \in Nearest(mcAt)
    <2>1. PICK name \in Nearest(mcAt) :
             mcPick' = [count |-> 1 - mcPick.count, place |-> name]
      BY <1>3, <1>7
    <2>2. mcPick'.place = name
      BY <2>1
    <2> QED BY <2>1, <2>2
  <1> QED BY <1>1, <1>2, <1>4, <1>6, <1>7

\* The view changes, and nothing is handed to the page.
LEMMA ViewChanges ==
    ASSUME MCInv,
           \/ MCReset \/ MCRotate
           \/ \E amount \in {20, -15} : MCZoom(amount)
           \/ \E width \in Widths : MCResize(width, mcPlan)
           \/ \E plan \in Plans : MCResize(mcWidth, plan)
    PROVE  MCInv' /\ UNCHANGED <<mcAt, mcPick, mcPose>>
  <1>1. mcView' \in [zoom: Nat \ {0}, turns: 0..3, offset: Points]
    <2>1. mcView \in [zoom: Nat \ {0}, turns: 0..3, offset: Points] /\ <<0, 0>> \in Points
      BY DEF MCInv, MCTyped, Points
    <2>2. CASE MCReset
      BY <2>1, <2>2 DEF MCReset
    <2>3. CASE MCRotate
      <3>1. (mcView.turns + 1) % 4 \in 0..3
        BY <2>1
      <3> QED BY <2>1, <2>3, <3>1 DEF MCRotate
    <2>4. CASE \E amount \in {20, -15} : MCZoom(amount)
      <3>1. PICK amount \in {20, -15} : MCZoom(amount)
        BY <2>4
      <3>2. Lower(400, Upper(60, mcView.zoom + amount)) \in Nat \ {0}
        BY <2>1 DEF Lower, Upper
      <3>3. mcView' = [mcView EXCEPT !.zoom = Lower(400, Upper(60, mcView.zoom + amount))]
        BY <3>1 DEF MCZoom
      <3> QED BY <2>1, <3>2, <3>3
    <2>5. CASE \/ \E width \in Widths : MCResize(width, mcPlan)
               \/ \E plan \in Plans : MCResize(mcWidth, plan)
      BY <2>1, <2>5 DEF MCResize
    <2> QED BY <2>2, <2>3, <2>4, <2>5
  <1>2. mcPlan' \in Plans /\ mcWidth' \in Widths
    BY DEF MCReset, MCRotate, MCZoom, MCResize, MCInv, MCTyped
  <1>3. UNCHANGED <<mcPurpose, mcAt, mcPan, mcGesture, mcPick, mcPose>>
    BY DEF MCReset, MCRotate, MCZoom, MCResize
  <1> QED BY <1>1, <1>2, <1>3 DEF MCInv, MCTyped, GestureHolds

LEMMA CanvasStep ==
    ASSUME MCInv, [MCNext]_mcVars
    PROVE  /\ MCInv'
           /\ mcPick'.count # mcPick.count =>
                \A name \in Under(mcAt) : Under(mcAt) = {name} => mcPick'.place = name
           /\ mcAt' # mcAt /\ ~mcPan.down /\ ~mcGesture.set /\ Under(mcAt') # {} =>
                mcHover' \in Under(mcAt')
           /\ mcPose'.at # mcPose.at =>
                \A world \in Spots : CanvasOf(world) = mcAt => mcPose'.at = world
  <1>1. MCTyped /\ mcAt \in Points
    BY DEF MCInv, MCTyped
  <1>2. ASSUME mcPose'.at = CanvasToWorld(PointFromClient(mcAt))
        PROVE  \A world \in Spots : CanvasOf(world) = mcAt => mcPose'.at = world
    <2> TAKE world \in Spots
    <2>1. world \in Points
      BY CanvasAssumption DEF Points
    <2> QED BY <1>1, <1>2, <2>1, DrawnIsTakenBack
  <1>3. CASE MCDown
    BY <1>2, <1>3, PoseBegins
  <1>4. CASE \E to \in Aims : MCMove(to)
    <2>1. PICK to \in Aims : MCMove(to)
      BY <1>4
    <2>2. to \in Points
      BY <1>1, <2>1, AimsArePoints
    <2>3. /\ MCInv' /\ mcPose'.at = mcPose.at /\ mcPick' = mcPick /\ mcAt' = to
          /\ ~mcPan.down /\ ~mcGesture.set =>
               mcHover' \in IF Nearest(to) = {} THEN {NoPlace} ELSE Nearest(to)
      BY <2>1, <2>2, PointerMoves
    <2>4. Under(to) # {} => Nearest(to) # {} /\ Nearest(to) \subseteq Under(to)
      BY <1>1, <2>2, NearestIsUnder
    <2> QED BY <2>3, <2>4
  <1>5. CASE \E cancelled \in BOOLEAN : MCUp(cancelled)
    <2>1. PICK cancelled \in BOOLEAN : MCUp(cancelled)
      BY <1>5
    <2>2. /\ MCInv' /\ mcAt' = mcAt
          /\ mcPose'.at # mcPose.at => mcPose'.at = CanvasToWorld(PointFromClient(mcAt))
          /\ mcPick'.count # mcPick.count => mcPick'.place \in Nearest(mcAt)
      BY <2>1, PointerIsReleased
    <2>3. Under(mcAt) # {} => Nearest(mcAt) \subseteq Under(mcAt)
      BY <1>1, NearestIsUnder
    <2> QED BY <1>2, <2>2, <2>3
  <1>6. CASE \/ MCReset \/ MCRotate
             \/ \E amount \in {20, -15} : MCZoom(amount)
             \/ \E width \in Widths : MCResize(width, mcPlan)
             \/ \E plan \in Plans : MCResize(mcWidth, plan)
    BY <1>6, ViewChanges
  <1>7. CASE UNCHANGED mcVars
    BY <1>7 DEF mcVars, MCInv, MCTyped, GestureHolds
  <1> QED BY <1>3, <1>4, <1>5, <1>6, <1>7 DEF MCNext

\* What the operator points at is what is drawn there: for every map with its
\* place and turn, every window the map fits into, and whatever was zoomed, turned
\* and panned before (RobotMap.tsx 165-171 and 213-306, mapGeometry.ts 39-91).
THEOREM PointsAtWhatIsDrawnHolds == PagesSpec => PointsAtWhatIsDrawn
  <1>1. PagesInit => MCInv
    BY CanvasInitial DEF PagesInit
  <1>2. MCInv /\ [PagesNext]_pagesVars => MCInv'
    BY DeliverySteps, CanvasStep
  <1>3. MCInv /\ [PagesNext]_pagesVars =>
          [ /\ mcPick'.count # mcPick.count =>
                 \A name \in Under(mcAt) : Under(mcAt) = {name} => mcPick'.place = name
            /\ mcAt' # mcAt /\ ~mcPan.down /\ ~mcGesture.set /\ Under(mcAt') # {} =>
                 mcHover' \in Under(mcAt')
            /\ mcPose'.at # mcPose.at =>
                 \A world \in Spots : CanvasOf(world) = mcAt => mcPose'.at = world ]_mcVars
    BY DeliverySteps, CanvasStep
  <1> QED BY <1>1, <1>2, <1>3, PTL DEF PagesSpec, PointsAtWhatIsDrawn

-----------------------------------------------------------------------------
(* The progress of a mission                                               *)

\* What the bar may say of a mission in each stage.
Band == [queued |-> 0..0, pickup |-> 5..30, loading |-> 35..35, delivery |-> 40..85,
         unloading |-> 90..90, completed |-> 100..100, failed |-> 0..0]

MissionStages == {"queued", "pickup", "loading", "delivery", "unloading", "completed", "failed"}
Reports == [stage: {"none", "pickup", "delivery"}, remaining: Nat]

MPTyped ==
    /\ mpMission \in [stage: MissionStages, attempt: Nat]
    /\ mpRoute \in [pickup: Nat, delivery: Nat]
    /\ mpSocket \in Seq(Reports) /\ mpFeedback \in Reports
    /\ mpAnswers \subseteq MissionStages /\ mpShown \in MissionStages
    /\ mpFits \in BOOLEAN

LEMMA QuotientBetween ==
    ASSUME NEW n \in Nat, NEW t \in Nat \ {0}, NEW low \in Nat, NEW high \in Nat,
           t * low <= n, n < t * (high + 1)
    PROVE  n \div t \in low..high
  <1> DEFINE q == n \div t
  <1>1. q \in Nat /\ t * q <= n /\ n < t * (q + 1)
    OBVIOUS
  <1> HIDE DEF q
  <1>2. ~(q + 1 <= low)
    <2> SUFFICES ASSUME q + 1 <= low PROVE FALSE
      OBVIOUS
    <2>1. t * (q + 1) <= t * low
      BY <1>1
    <2>2. t * (q + 1) \in Nat /\ t * low \in Nat
      BY <1>1
    <2> QED BY <1>1, <2>1, <2>2
  <1>3. ~(high + 1 <= q)
    <2> SUFFICES ASSUME high + 1 <= q PROVE FALSE
      OBVIOUS
    <2>1. t * (high + 1) <= t * q
      BY <1>1
    <2>2. t * (high + 1) \in Nat /\ t * q \in Nat
      BY <1>1
    <2> QED BY <1>1, <2>1, <2>2
  <1> QED BY <1>1, <1>2, <1>3 DEF q

\* routeProgress() stays in the band of its leg, whatever remains.
LEMMA RouteProgressInBand ==
    ASSUME NEW total \in Nat, NEW remaining \in Nat, NEW start \in Nat, NEW end \in Nat,
           start <= end
    PROVE  RouteProgress(total, remaining, start, end) \in start..end
  <1>1. CASE total = 0
    BY <1>1 DEF RouteProgress
  <1>2. CASE total # 0
    <2> DEFINE covered == AtLeast(0, total - AtLeast(0, remaining))
               part == covered * (end - start)
               n == 2 * (start * total + part) + total
    <2>1. covered \in 0..total
      BY DEF AtLeast
    <2> HIDE DEF covered
    <2>2. part \in Nat /\ part <= total * (end - start)
      BY <2>1
    <2>3. total * (end - start) = end * total - start * total
          /\ start * total \in Nat /\ end * total \in Nat
      OBVIOUS
    <2> HIDE DEF part
    <2>4. n \in Nat /\ 2 * (start * total) <= n /\ n < 2 * (end * total) + 2 * total
      BY <1>2, <2>2, <2>3
    <2>5. 2 * (start * total) = (2 * total) * start
          /\ 2 * (end * total) + 2 * total = (2 * total) * (end + 1)
      OBVIOUS
    <2> HIDE DEF n
    <2>6. n \div (2 * total) \in start..end
      BY <1>2, <2>4, <2>5, QuotientBetween
    <2>7. RouteProgress(total, remaining, start, end) = n \div (2 * total)
      BY <1>2 DEF RouteProgress, n, part, covered
    <2> QED BY <2>6, <2>7
  <1> QED BY <1>1, <1>2

LEMMA BarInBand ==
    ASSUME mpRoute \in [pickup: Nat, delivery: Nat], NEW stage \in MissionStages,
           NEW feedback \in Reports
    PROVE  DisplayedTaskProgress(stage, feedback) \in Band[stage]
  <1> DEFINE Left(total, start, end) == RouteProgress(total, feedback.remaining, start, end)
  <1>1. /\ Left(mpRoute.pickup, 5, 30) \in 5..30
        /\ Left(mpRoute.delivery, 40, 85) \in 40..85
    <2>1. /\ feedback.remaining \in Nat /\ mpRoute.pickup \in Nat /\ mpRoute.delivery \in Nat
          /\ 5 \in Nat /\ 30 \in Nat /\ 5 <= 30 /\ 40 \in Nat /\ 85 \in Nat /\ 40 <= 85
      BY DEF Reports
    <2>2. RouteProgress(mpRoute.pickup, feedback.remaining, 5, 30) \in 5..30
      BY <2>1, RouteProgressInBand, Zenon
    <2>3. RouteProgress(mpRoute.delivery, feedback.remaining, 40, 85) \in 40..85
      BY <2>1, RouteProgressInBand, Zenon
    <2> QED BY <2>2, <2>3
  <1> HIDE DEF Left
  <1>2. DisplayedTaskProgress(stage, feedback) \in
          IF stage = "pickup" THEN {Left(mpRoute.pickup, 5, 30), 20}
          ELSE IF stage = "delivery" THEN {Left(mpRoute.delivery, 40, 85), 70}
          ELSE {Milestone[stage]}
    BY DEF DisplayedTaskProgress, Milestone, Left
  <1> QED BY <1>1, <1>2 DEF MissionStages, Milestone, Band

LEMMA OrderOfStages ==
    /\ Order("queued") = 1 /\ Order("pickup") = 2 /\ Order("loading") = 3
    /\ Order("delivery") = 4 /\ Order("unloading") = 5 /\ Order("completed") = 6
  <1>1. \A i \in 1..6 : Order(Stages[i]) = i
    BY DEF Order, Stages
  <1> QED BY <1>1 DEF Stages

LEMMA MPStarts == MPInit => MPTyped
  <1> SUFFICES ASSUME MPInit PROVE MPTyped
    OBVIOUS
  <1>1. mpRoute \in [pickup: Nat, delivery: Nat]
    BY ProgressAssumption DEF MPInit
  <1>2. mpMission \in [stage: MissionStages, attempt: Nat]
    BY DEF MPInit, MissionStages
  <1>3. mpFeedback \in Reports /\ mpSocket \in Seq(Reports)
    BY EmptySeq DEF MPInit, Reports, NoFeedback
  <1> QED BY <1>1, <1>2, <1>3 DEF MPInit, MPTyped, MissionStages

LEMMA MPStepKeeps == MPTyped /\ [MPNext]_mpVars => MPTyped'
  <1> SUFFICES ASSUME MPTyped, [MPNext]_mpVars PROVE MPTyped'
    OBVIOUS
  <1> USE DEF MPTyped
  <1>1. CASE UNCHANGED mpVars
    BY <1>1 DEF mpVars
  <1>2. CASE MPAdvances
    <2>1. mpMission.stage \in {"queued", "pickup", "loading", "delivery", "unloading"}
      BY <1>2 DEF MPAdvances, MissionStages
    <2>2. Stages[Order(mpMission.stage) + 1] \in MissionStages
      BY <2>1, OrderOfStages DEF Stages, MissionStages
    <2> QED BY <1>2, <2>2 DEF MPAdvances
  <1>3. CASE MPFails \/ MPRetried
    BY <1>3, ProgressAssumption DEF MPFails, MPRetried, MissionStages
  <1>4. CASE MPFeedback
    BY <1>4, HeadTailProperties DEF MPFeedback
  <1>5. CASE MPDropped \/ MPRefresh
    BY <1>5 DEF MPDropped, MPRefresh, NoFeedback, Reports
  <1>6. ASSUME NEW remaining \in Distances, MPReports(remaining)
        PROVE  MPTyped'
    <2>1. [stage |-> mpMission.stage, remaining |-> remaining] \in Reports
      BY <1>6, ProgressAssumption DEF MPReports, Reports
    <2>2. mpSocket' \in Seq(Reports)
      BY <1>6, <2>1, AppendProperties DEF MPReports
    <2> QED BY <1>6, <2>2 DEF MPReports
  <1>7. ASSUME NEW stage \in mpAnswers, MPRefreshed(stage)
        PROVE  MPTyped'
    BY <1>7 DEF MPRefreshed
  <1> QED BY <1>1, <1>2, <1>3, <1>4, <1>5, <1>6, <1>7 DEF MPNext

\* The cards by the stage that is shown.
LEMMA CardsOfStage ==
    ASSUME NEW stage \in MissionStages, NEW fits \in BOOLEAN
    PROVE  /\ Eta(stage, fits).pickup = "picked-up"
                 <=> stage \in {"delivery", "unloading", "completed"}
           /\ Eta(stage, fits).destination = "completed" <=> stage = "completed"
  BY DEF Eta, MissionStages

BarInItsBand == MPBar \in Band[mpShown]

LEMMA BarStep ==
    ASSUME MPTyped, BarInItsBand, MPTyped', BarInItsBand'
    PROVE  /\ (mpShown # mpShown' /\ {mpShown, mpShown'} \cap {"failed"} = {}
                 /\ Order(mpShown') > Order(mpShown)) => MPBar' >= MPBar
           /\ MPCards'.pickup = "picked-up" <=> MPBar' >= 40
           /\ MPCards'.destination = "completed" <=> MPBar' = 100
  <1>1. MPBar \in Band[mpShown] /\ MPBar' \in Band[mpShown']
    BY DEF BarInItsBand, Band
  <1>2. /\ MPCards'.pickup = "picked-up" <=> mpShown' \in {"delivery", "unloading", "completed"}
        /\ MPCards'.destination = "completed" <=> mpShown' = "completed"
    BY CardsOfStage DEF MPTyped, MPCards
  <1>3. /\ mpShown \in MissionStages /\ mpShown' \in MissionStages
    BY DEF MPTyped
  <1> HIDE DEF MPBar, MPCards
  <1>4. mpShown' \in {"delivery", "unloading", "completed"} <=> MPBar' >= 40
    BY <1>1, <1>3 DEF MissionStages, Band
  <1>5. mpShown' = "completed" <=> MPBar' = 100
    BY <1>1, <1>3 DEF MissionStages, Band
  <1>6. (mpShown # mpShown' /\ {mpShown, mpShown'} \cap {"failed"} = {}
           /\ Order(mpShown') > Order(mpShown)) => MPBar' >= MPBar
    <2> SUFFICES ASSUME mpShown # "failed", mpShown' # "failed",
                        Order(mpShown') > Order(mpShown)
                 PROVE  MPBar' >= MPBar
      OBVIOUS
    <2>1. MPBar \in 0..100 /\ MPBar' \in 0..100
      BY <1>1, <1>3 DEF MissionStages, Band
    <2>2. CASE mpShown = "queued" \/ mpShown' = "completed"
      BY <1>1, <2>1, <2>2 DEF Band
    <2>3. CASE mpShown = "pickup"
      BY <1>1, <1>3, <2>3, OrderOfStages DEF MissionStages, Band
    <2>4. CASE mpShown = "loading"
      BY <1>1, <1>3, <2>4, OrderOfStages DEF MissionStages, Band
    <2>5. CASE mpShown = "delivery"
      BY <1>1, <1>3, <2>5, OrderOfStages DEF MissionStages, Band
    <2>6. CASE mpShown \in {"unloading", "completed"}
      BY <1>1, <1>3, <2>6, OrderOfStages DEF MissionStages, Band
    <2> QED BY <1>3, <2>2, <2>3, <2>4, <2>5, <2>6 DEF MissionStages
  <1> QED BY <1>2, <1>4, <1>5, <1>6

\* Bar and arrival cards tell one story: the bar does not fall along the stages
\* shown, and agrees with the cards, in whatever order rows, feedback and
\* estimates arrive (taskProgress.ts 7-56, taskEta.ts 38-80).
THEOREM BarFollowsMissionHolds == PagesSpec => BarFollowsMission
  <1>1. PagesInit => MPTyped
    BY MPStarts DEF PagesInit
  <1>2. MPTyped /\ [PagesNext]_pagesVars => MPTyped'
    BY DeliverySteps, MPStepKeeps
  <1>3. MPTyped => BarInItsBand
    BY BarInBand DEF MPTyped, BarInItsBand, MPBar
  <1>4. MPTyped /\ MPTyped' /\ BarInItsBand /\ BarInItsBand' /\ [PagesNext]_pagesVars =>
          [ /\ (mpShown # mpShown' /\ {mpShown, mpShown'} \cap {"failed"} = {}
                  /\ Order(mpShown') > Order(mpShown)) => MPBar' >= MPBar
            /\ MPCards'.pickup = "picked-up" <=> MPBar' >= 40
            /\ MPCards'.destination = "completed" <=> MPBar' = 100 ]_mpVars
    BY BarStep
  <1> QED BY <1>1, <1>2, <1>3, <1>4, PTL DEF PagesSpec, BarFollowsMission

=============================================================================
