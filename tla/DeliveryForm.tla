----------------------------- MODULE DeliveryForm -----------------------------
(***************************************************************************)
(* Creating a delivery (src/src/app/delivery/page.tsx) against the         *)
(* backend's validated route previews (src/backend/app/route_preview.py):  *)
(* stations, robot and priority are chosen, 250 ms later a preview of the  *)
(* route is asked for, the operator reviews it, and the task is created    *)
(* from the form together with the preview's id.                           *)
(***************************************************************************)
EXTENDS Integers, FiniteSets, PageConstants

CONSTANTS Routes, NoRoute, MaxRuns, MaxRevision   \* two bounds

VARIABLES
    dpAdmin,               \* the user is an administrator
    dpForm, dpTick,        \* the form; the box that allows a supervised drive
    dpReady,               \* readiness of the selected robot as shown
    dpSeen, dpRevision,    \* map revision in the browser and at the backend
    dpRun, dpTimer,        \* runs of the preview effect; its 250 ms timer is armed
    dpAsks,                \* preview requests out
    dpPreview, dpPreviewing,
    dpStep, dpSubmit,      \* the open dialog; the create request out
    dpValid,               \* the backend's validations
    dpTasks                \* the deliveries created, each with what was shown

dpVars == <<dpAdmin, dpForm, dpTick, dpReady, dpSeen, dpRevision, dpRun, dpTimer,
            dpAsks, dpPreview, dpPreviewing, dpStep, dpSubmit, dpValid, dpTasks>>

NoPreview == [id |-> 0]
NoSubmit  == [preview |-> NoPreview]
EmptyForm(robot) ==
    [route |-> NoRoute, robot |-> robot, priority |-> "NORMAL", open |-> TRUE]

\* allowedPriority: only an administrator's choice counts.
AllowedPriority(priority) == IF dpAdmin THEN priority ELSE "NORMAL"

CanPlan(form, tick, ready) ==
    /\ form.open /\ form.route # NoRoute
    /\ ready # "blocked" /\ (ready = "degraded" => tick)

\* The effect runs again: the request out is cancelled and the timer armed;
\* a preview goes at once only with clear, or when nothing can be planned.
Rerun(form, tick, ready, clear) ==
    LET plan == CanPlan(form, tick, ready) IN
    /\ dpRun < MaxRuns /\ dpRun' = dpRun + 1 /\ dpTimer' = plan
    /\ dpPreview' = IF clear \/ ~plan THEN NoPreview ELSE dpPreview
    /\ dpPreviewing' = (dpPreviewing /\ plan)
    /\ dpForm' = form /\ dpTick' = tick /\ dpReady' = ready
    /\ UNCHANGED <<dpAdmin, dpRevision, dpAsks, dpValid, dpTasks>>

\* chooseStation() and the station lists: never the same station twice.
DPRoute(route) ==
    /\ dpStep = "form" /\ route # dpForm.route
    /\ Rerun([dpForm EXCEPT !.route = route], dpTick, dpReady, FALSE)
    /\ UNCHANGED <<dpSeen, dpStep, dpSubmit>>

\* Another robot is selected (the form keeps the ticked box), or a refresh
\* shows it as more or less ready.
DPRobot(robot, ready) ==
    /\ robot # dpForm.robot \/ ready # dpReady
    /\ Rerun([dpForm EXCEPT !.robot = robot], dpTick, ready, FALSE)
    /\ UNCHANGED <<dpSeen, dpStep, dpSubmit>>

DPTick ==
    /\ dpAdmin /\ dpStep = "form" /\ dpReady = "degraded"
    /\ Rerun(dpForm, ~dpTick, dpReady, TRUE)
    /\ UNCHANGED <<dpSeen, dpStep, dpSubmit>>

\* The two speed sliders: the preview goes at once.
DPSpeed ==
    /\ dpStep = "details" /\ Rerun(dpForm, dpTick, dpReady, TRUE)
    /\ UNCHANGED <<dpSeen, dpStep, dpSubmit>>

DPPriority ==
    /\ dpStep = "details" /\ dpAdmin
    /\ Rerun([dpForm EXCEPT !.priority = IF @ = "HIGH" THEN "NORMAL" ELSE "HIGH"],
             dpTick, dpReady, FALSE)
    /\ UNCHANGED <<dpSeen, dpStep, dpSubmit>>

\* A new map at the backend, and later in the browser.
DPBackendMap ==
    /\ dpRevision < MaxRevision /\ dpRevision' = dpRevision + 1
    /\ UNCHANGED <<dpAdmin, dpForm, dpTick, dpReady, dpSeen, dpRun, dpTimer, dpAsks,
                   dpPreview, dpPreviewing, dpStep, dpSubmit, dpValid, dpTasks>>

DPMap ==
    /\ dpSeen < dpRevision /\ dpSeen' = dpRevision
    /\ Rerun(dpForm, dpTick, dpReady, FALSE) /\ UNCHANGED <<dpStep, dpSubmit>>

DPTimer ==
    /\ dpTimer /\ dpTimer' = FALSE /\ dpPreviewing' = TRUE /\ dpPreview' = NoPreview
    /\ dpAsks' = dpAsks \cup
         {[run |-> dpRun, route |-> dpForm.route, robot |-> dpForm.robot,
           priority |-> AllowedPriority(dpForm.priority),
           supervised |-> dpAdmin /\ dpReady = "degraded" /\ dpTick]}
    /\ UNCHANGED <<dpAdmin, dpForm, dpTick, dpReady, dpSeen, dpRevision, dpRun,
                   dpStep, dpSubmit, dpValid, dpTasks>>

\* The backend plans: for an administrator with the robot asked for, else with
\* one of its choice.
Validation(ask, robot) ==
    [id |-> ask.run, route |-> ask.route, robot |-> robot, priority |-> ask.priority,
     supervised |-> ask.supervised, revision |-> dpRevision]

\* Seeded fault: the answer to a cancelled request is still taken.
Wanted_Always(ask) == TRUE

Wanted(ask) == ask.run = dpRun /\ ~dpTimer

DPAnswer(ask, failed) ==
    /\ dpAsks' = dpAsks \ {ask}
    /\ \E robot \in IF dpAdmin THEN {ask.robot} ELSE Robots :
         /\ dpValid' = IF failed THEN dpValid ELSE dpValid \cup {Validation(ask, robot)}
         /\ dpPreview' = IF Wanted(ask) /\ ~failed THEN Validation(ask, robot)
                         ELSE dpPreview
    /\ dpPreviewing' = (dpPreviewing /\ ~Wanted(ask))
    /\ UNCHANGED <<dpAdmin, dpForm, dpTick, dpReady, dpSeen, dpRevision, dpRun,
                   dpTimer, dpStep, dpSubmit, dpTasks>>

\* After a minute the backend drops a validation.
DPExpire(validation) ==
    /\ dpValid' = dpValid \ {validation}
    /\ UNCHANGED <<dpAdmin, dpForm, dpTick, dpReady, dpSeen, dpRevision, dpRun, dpTimer,
                   dpAsks, dpPreview, dpPreviewing, dpStep, dpSubmit, dpTasks>>

\* Continue, review, back and close.
DPStep(step) ==
    /\ <<dpStep, step>> \in {<<"form", "details">>, <<"details", "review">>,
                             <<"review", "details">>, <<"details", "form">>,
                             <<"review", "form">>}
    /\ <<dpStep, step>> \in {<<"form", "details">>, <<"details", "review">>} =>
         dpPreview # NoPreview /\ ~dpPreviewing
    /\ dpStep = "review" => dpSubmit = NoSubmit
    /\ dpStep' = step
    /\ UNCHANGED <<dpAdmin, dpForm, dpTick, dpReady, dpSeen, dpRevision, dpRun, dpTimer,
                   dpAsks, dpPreview, dpPreviewing, dpSubmit, dpValid, dpTasks>>

\* submit(): the request is made of the form and the preview of this moment.
SubmitFrom(step) ==
    /\ dpStep = step /\ dpSubmit = NoSubmit /\ dpPreview # NoPreview /\ ~dpPreviewing
    /\ dpSubmit' = [preview |-> dpPreview, form |-> dpForm, tick |-> dpTick,
                    settled |-> ~dpTimer]
    /\ UNCHANGED <<dpAdmin, dpForm, dpTick, dpReady, dpSeen, dpRevision, dpRun, dpTimer,
                   dpAsks, dpPreview, dpPreviewing, dpStep, dpValid, dpTasks>>
DPSubmit == SubmitFrom("review")

\* The preview has expired by the browser's clock: another is asked for.
DPStale ==
    /\ dpStep = "review" /\ dpSubmit = NoSubmit /\ dpPreview # NoPreview /\ ~dpPreviewing
    /\ dpStep' = "form" /\ Rerun(dpForm, dpTick, dpReady, FALSE)
    /\ UNCHANGED <<dpSeen, dpSubmit>>

\* consume_validation: what is created is exactly what was planned, once.
Accepts(validation, submit) ==
    /\ validation.id = submit.preview.id
    /\ validation.robot = submit.preview.robot
    /\ validation.supervised = submit.preview.supervised
    /\ validation.route = submit.form.route
    /\ validation.priority = AllowedPriority(submit.form.priority)
    /\ validation.revision = dpRevision

\* The task is created; the answer may be lost, which the page takes for a
\* refusal: it asks for another preview and stays where it was.
CreateFrom(step, validation, lost) ==
    /\ dpSubmit # NoSubmit /\ Accepts(validation, dpSubmit) /\ dpSubmit' = NoSubmit
    /\ dpValid' = dpValid \ {validation}
    /\ dpTasks' = dpTasks \cup {[plan |-> validation, shown |-> dpSubmit.form,
                                 tick |-> dpSubmit.tick, settled |-> dpSubmit.settled,
                                 order |-> Cardinality(dpTasks) + 1]}
    /\ IF lost
       THEN /\ dpRun < MaxRuns /\ dpRun' = dpRun + 1 /\ dpPreview' = NoPreview
            /\ dpTimer' = CanPlan(dpForm, dpTick, dpReady) /\ dpStep' = step
            /\ dpPreviewing' = (dpPreviewing /\ dpTimer')
       ELSE dpStep' = "success" /\ UNCHANGED <<dpRun, dpPreview, dpTimer, dpPreviewing>>
    /\ UNCHANGED <<dpAdmin, dpForm, dpTick, dpReady, dpSeen, dpRevision, dpAsks>>
DPCreate(validation, lost) == CreateFrom("review", validation, lost)

DPRefused ==
    /\ dpSubmit # NoSubmit /\ dpSubmit' = NoSubmit /\ dpStep' = "review"
    /\ Rerun(dpForm, dpTick, dpReady, TRUE) /\ UNCHANGED dpSeen

\* createAnotherDelivery()
DPAgain ==
    /\ dpStep = "success" /\ dpStep' = "form"
    /\ Rerun(EmptyForm(dpForm.robot), FALSE, dpReady, TRUE)
    /\ UNCHANGED <<dpSeen, dpSubmit>>

DPInit ==
    /\ dpAdmin \in BOOLEAN
    /\ dpForm = EmptyForm(CHOOSE r \in Robots : TRUE) /\ dpTick = FALSE
    /\ dpReady = "ready" /\ dpSeen = 1 /\ dpRevision = 1 /\ dpRun = 0 /\ dpTimer = FALSE
    /\ dpAsks = {} /\ dpPreview = NoPreview /\ dpPreviewing = FALSE
    /\ dpStep = "form" /\ dpSubmit = NoSubmit /\ dpValid = {} /\ dpTasks = {}

DPNext ==
    \/ DPTick \/ DPSpeed \/ DPPriority \/ DPBackendMap \/ DPMap \/ DPTimer
    \/ DPSubmit \/ DPStale \/ DPRefused \/ DPAgain
    \/ \E route \in Routes : DPRoute(route)
    \/ \E robot \in Robots, ready \in {"ready", "degraded", "blocked"} : DPRobot(robot, ready)
    \/ \E ask \in dpAsks, failed \in BOOLEAN : DPAnswer(ask, failed)
    \/ \E step \in {"form", "details", "review"} : DPStep(step)
    \/ \E validation \in dpValid :
         DPExpire(validation) \/ \E lost \in BOOLEAN : DPCreate(validation, lost)

-----------------------------------------------------------------------------
\* A delivery is what its operator reviewed: the stations and priority shown
\* when the button was pressed, the robot then selected (unless it changed in
\* the 250 ms before), supervised only with the box ticked, planned on one
\* validation that no other delivery used, however previews, map changes,
\* lost answers and retries interleave (lines 83-160).
CreatedAsReviewed ==
    /\ \A task \in dpTasks :
         /\ task.plan.route = task.shown.route
         /\ task.plan.priority = AllowedPriority(task.shown.priority)
         /\ dpAdmin /\ task.settled => task.plan.robot = task.shown.robot
         /\ task.plan.supervised => task.tick
    /\ \A t, u \in dpTasks : t.plan.id = u.plan.id => t = u
=============================================================================
