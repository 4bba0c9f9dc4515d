---------------------------- MODULE QuickDelivery ----------------------------
(***************************************************************************)
(* Creating a delivery from the dashboard's map                            *)
(* (src/src/components/DashboardDeliveryMap.tsx): a click on a station      *)
(* opens a dialog with the whole form.  It shares the previews, the timer  *)
(* and the backend's validations with DeliveryForm, but clears the preview *)
(* with every change, has no review step and can be closed.                *)
(***************************************************************************)
EXTENDS DeliveryForm

QDChange(form, tick) ==
    /\ dpStep = "form" /\ Rerun(form, tick, dpReady, TRUE)
    /\ UNCHANGED <<dpSeen, dpStep, dpSubmit>>

\* openFromStation(): a fresh form with one station chosen.
QDOpen ==
    /\ dpStep = "closed" /\ dpStep' = "form"
    /\ Rerun(EmptyForm(dpForm.robot), FALSE, dpReady, TRUE)
    /\ UNCHANGED <<dpSeen, dpSubmit>>

\* The station buttons and lists, also while a create request is out.
QDRoute(route) ==
    route # dpForm.route /\ QDChange([dpForm EXCEPT !.route = route], dpTick)

QDTick == dpAdmin /\ dpReady = "degraded" /\ QDChange(dpForm, ~dpTick)

\* Anyone may choose a priority here; allowedPriority decides whether it counts.
QDPriority ==
    QDChange([dpForm EXCEPT !.priority = IF @ = "HIGH" THEN "NORMAL" ELSE "HIGH"], dpTick)

\* The two speeds; and another preview after a failed one or an expired one.
QDSpeed == QDChange(dpForm, dpTick)

QDAnother ==
    /\ dpStep = "form" /\ dpSubmit = NoSubmit
    /\ \E clear \in BOOLEAN : Rerun(dpForm, dpTick, dpReady, clear)
    /\ UNCHANGED <<dpSeen, dpStep, dpSubmit>>

QDSubmit == SubmitFrom("form")
QDCreate(validation, lost) == CreateFrom("form", validation, lost)

QDRefused ==
    /\ dpSubmit # NoSubmit /\ dpSubmit' = NoSubmit
    /\ Rerun(dpForm, dpTick, dpReady, TRUE) /\ UNCHANGED <<dpSeen, dpStep>>

\* closeDialog(): not while a create request is out.
QDClose ==
    /\ dpStep # "closed" /\ dpSubmit = NoSubmit /\ dpStep' = "closed"
    /\ Rerun([dpForm EXCEPT !.open = FALSE], dpTick, dpReady, TRUE)
    /\ UNCHANGED <<dpSeen, dpSubmit>>

QDNext ==
    \/ QDOpen \/ QDTick \/ QDPriority \/ QDSpeed \/ QDAnother \/ QDSubmit \/ QDRefused
    \/ QDClose \/ DPAgain \/ DPBackendMap \/ DPMap \/ DPTimer
    \/ \E route \in Routes : QDRoute(route)
    \/ \E robot \in Robots, ready \in {"ready", "degraded", "blocked"} : DPRobot(robot, ready)
    \/ \E ask \in dpAsks, failed \in BOOLEAN : DPAnswer(ask, failed)
    \/ \E validation \in dpValid :
         DPExpire(validation) \/ \E lost \in BOOLEAN : QDCreate(validation, lost)

\* The dashboard starts with the dialog closed.
QDInit ==
    /\ dpAdmin \in BOOLEAN
    /\ dpForm = [EmptyForm(CHOOSE r \in Robots : TRUE) EXCEPT !.open = FALSE]
    /\ dpTick = FALSE /\ dpReady = "ready" /\ dpSeen = 1 /\ dpRevision = 1
    /\ dpRun = 0 /\ dpTimer = FALSE /\ dpAsks = {} /\ dpPreview = NoPreview
    /\ dpPreviewing = FALSE /\ dpStep = "closed" /\ dpSubmit = NoSubmit
    /\ dpValid = {} /\ dpTasks = {}
=============================================================================
