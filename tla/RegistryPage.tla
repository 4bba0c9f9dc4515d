---------------------------- MODULE RegistryPage ----------------------------
(***************************************************************************)
(* The robot registry page (src/src/app/robots/page.tsx): pairing requests  *)
(* and robots, read again every five seconds by loads that may overtake    *)
(* one another, and the operations confirmed in its dialog.  A robot comes  *)
(* as one pairing request and one row, told apart by its state; expiry,     *)
(* validation results and the wording are left out.                        *)
(***************************************************************************)
EXTENDS PageConstants

VARIABLES
    rpState,           \* the backend: how far each robot has come
    rpArchived,        \* showArchived
    rpRows,            \* enrollments and robots
    rpLoads,           \* loads under way: with archived robots, of an operation
    rpDialog,          \* the dialog: the operation and its robot
    rpCode,            \* pairingCode: the robot whose code is typed in
    rpOut,             \* the operation under way
    rpBusy

rpVars == <<rpState, rpArchived, rpRows, rpLoads, rpDialog, rpCode, rpOut, rpBusy>>

NoOperation == [kind |-> "none", robot |-> NoRobot]

\* The state an operation needs and the one it leads to.
Needs == [approve |-> "requested", rotate |-> "paired", revoke |-> "paired",
          archive |-> "revoked"]
LeadsTo == [approve |-> "approved", rotate |-> "paired", revoke |-> "revoked",
            archive |-> "archived"]
Operations == DOMAIN Needs

\* The lists as the backend answers them now.
RowsOf(archived) ==
    {[robot |-> r, state |-> rpState[r]] :
       r \in {s \in Robots : archived \/ rpState[s] # "archived"}}

\* The robot claims its credential; a revoked one asks for pairing again.
RPRobot(r) ==
    /\ rpState[r] \in {"approved", "revoked"}
    /\ rpState' = [rpState EXCEPT ![r] = IF @ = "approved" THEN "paired" ELSE "requested"]
    /\ UNCHANGED <<rpArchived, rpRows, rpLoads, rpDialog, rpCode, rpOut, rpBusy>>

\* The interval of five seconds.
RPTick ==
    /\ rpLoads' = rpLoads \cup {[archived |-> rpArchived, last |-> FALSE]}
    /\ UNCHANGED <<rpState, rpArchived, rpRows, rpDialog, rpCode, rpOut, rpBusy>>

\* The box; its change runs the effect again, the loads out are not disowned.
RPShowArchived ==
    /\ rpDialog = NoOperation /\ rpArchived' = ~rpArchived
    /\ rpLoads' = rpLoads \cup {[archived |-> rpArchived', last |-> FALSE]}
    /\ UNCHANGED <<rpState, rpRows, rpDialog, rpCode, rpOut, rpBusy>>

RPLoaded(load, ok) ==
    /\ rpLoads' = rpLoads \ {load} /\ rpBusy' = (rpBusy /\ ~load.last)
    /\ rpRows' = IF ok THEN RowsOf(load.archived) ELSE rpRows
    /\ UNCHANGED <<rpState, rpArchived, rpDialog, rpCode, rpOut>>

\* Seeded fault: the code typed for another robot is still there.
RPOpen_KeepsCode(row, kind) ==
    /\ rpDialog = NoOperation /\ row.state = Needs[kind]
    /\ rpDialog' = [kind |-> kind, robot |-> row.robot] /\ UNCHANGED rpCode
    /\ UNCHANGED <<rpState, rpArchived, rpRows, rpLoads, rpOut, rpBusy>>

\* The buttons of a row; the one that approves empties the code.
RPOpen(row, kind) ==
    /\ rpDialog = NoOperation /\ row.state = Needs[kind]
    /\ rpDialog' = [kind |-> kind, robot |-> row.robot]
    /\ rpCode' = IF kind = "approve" THEN NoRobot ELSE rpCode
    /\ UNCHANGED <<rpState, rpArchived, rpRows, rpLoads, rpOut, rpBusy>>

\* The operator types the code that the robot of the dialog displays; the field
\* stays open while a request is out.
RPType ==
    /\ rpDialog.kind = "approve" /\ rpCode = NoRobot /\ rpCode' = rpDialog.robot
    /\ UNCHANGED <<rpState, rpArchived, rpRows, rpLoads, rpDialog, rpOut, rpBusy>>

\* The escape key, the backdrop and the cancel button.
RPCancel ==
    /\ rpDialog # NoOperation /\ ~rpBusy /\ rpDialog' = NoOperation
    /\ UNCHANGED <<rpState, rpArchived, rpRows, rpLoads, rpCode, rpOut, rpBusy>>

\* submitDialog()
RPSubmit ==
    /\ rpDialog # NoOperation /\ ~rpBusy /\ rpBusy' = TRUE
    /\ rpDialog.kind = "approve" => rpCode # NoRobot
    /\ rpOut' = [kind |-> rpDialog.kind, robot |-> rpDialog.robot, code |-> rpCode]
    /\ UNCHANGED <<rpState, rpArchived, rpRows, rpLoads, rpDialog, rpCode>>

Allowed == /\ rpState[rpOut.robot] = Needs[rpOut.kind]
           /\ rpOut.kind = "approve" => rpOut.code = rpOut.robot

Performed == rpState' = [rpState EXCEPT ![rpOut.robot] = LeadsTo[rpOut.kind]]

\* Success closes the dialog, empties the code and loads; only then is the page
\* idle again, although another dialog may already be open.
RPDone ==
    /\ rpOut # NoOperation /\ Allowed /\ Performed
    /\ rpOut' = NoOperation /\ rpDialog' = NoOperation /\ rpCode' = NoRobot
    /\ rpLoads' = rpLoads \cup {[archived |-> rpArchived, last |-> TRUE]}
    /\ UNCHANGED <<rpArchived, rpRows, rpBusy>>

\* A refusal, or an answer the network lost, leaves the dialog as it is.
RPFails ==
    /\ rpOut # NoOperation /\ (UNCHANGED rpState \/ (Allowed /\ Performed))
    /\ rpOut' = NoOperation /\ rpBusy' = FALSE
    /\ UNCHANGED <<rpArchived, rpRows, rpLoads, rpDialog, rpCode>>

RPInit ==
    /\ rpState = [r \in Robots |-> "requested"] /\ rpArchived = FALSE /\ rpRows = {}
    /\ rpLoads = {[archived |-> FALSE, last |-> FALSE]}
    /\ rpDialog = NoOperation /\ rpCode = NoRobot /\ rpOut = NoOperation /\ rpBusy = FALSE

RPNext ==
    \/ RPTick \/ RPShowArchived \/ RPType \/ RPCancel \/ RPSubmit \/ RPDone \/ RPFails
    \/ \E r \in Robots : RPRobot(r)
    \/ \E load \in rpLoads, ok \in BOOLEAN : RPLoaded(load, ok)
    \/ \E row \in rpRows, kind \in Operations : RPOpen(row, kind)

-----------------------------------------------------------------------------
\* An operation under way is the one of the dialog on screen, so that its end
\* closes no other robot's dialog, and the code it carries was typed for its
\* robot: through cancelled and failed approvals, lists that change under the
\* dialog and a next dialog opened before the page is idle again (lines 54-114,
\* 142, 184-200).
OperatesAsConfirmed ==
    rpOut # NoOperation =>
        /\ rpDialog = [kind |-> rpOut.kind, robot |-> rpOut.robot]
        /\ rpOut.kind = "approve" => rpOut.code = rpOut.robot
=============================================================================
