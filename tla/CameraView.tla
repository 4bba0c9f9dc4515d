------------------------------ MODULE CameraView ------------------------------
(***************************************************************************)
(* The live camera (src/src/components/LiveCamera.tsx).  Every run of its  *)
(* effect (a view) has a socket and variables of its own; a cleaned-up view *)
(* may still have an image being decoded, and its socket may still fail.   *)
(***************************************************************************)
EXTENDS Integers, PageConstants

CONSTANTS MaxViews, MaxFrames                \* bounds

VARIABLES
    cvRobot,                   \* the robot the view is of
    cvView,                    \* how many times the effect ran
    cvSocket,                  \* off, connecting, open, closing, closed (timer armed)
    cvSequence,                \* the last frame received on this socket
    cvWanted,                  \* a next_frame request is with the backend
    cvPending, cvDecoding,     \* the frames waiting and in the decoder, 0 for none
    cvOld,                     \* earlier views, each with its image in the decoder
    cvCanvas,                  \* what was drawn last: view, robot and frame
    cvLoaded, cvFailed

cvVars == <<cvRobot, cvView, cvSocket, cvSequence, cvWanted, cvPending, cvDecoding,
            cvOld, cvCanvas, cvLoaded, cvFailed>>

\* The effect runs anew: the old view is cleaned up, a socket is opened.
NewView(robot, enabled) ==
    /\ cvView < MaxViews /\ cvView' = cvView + 1 /\ cvRobot' = robot
    /\ cvSocket' = IF enabled THEN "connecting" ELSE "off"
    /\ cvSequence' = 0 /\ cvWanted' = FALSE /\ cvPending' = 0 /\ cvDecoding' = 0
    /\ cvOld' = IF cvDecoding = 0 THEN cvOld
                ELSE cvOld \cup {[view |-> cvView, robot |-> cvRobot, frame |-> cvDecoding]}
    /\ cvLoaded' = FALSE /\ cvFailed' = FALSE
    /\ UNCHANGED cvCanvas

\* Another robot, or the same one going on or offline.
CVShow(robot, enabled) == NewView(robot, enabled)

\* The retry button, or the timer of a closed socket.
CVRetry ==
    /\ cvFailed \/ cvSocket = "closed"
    /\ NewView(cvRobot, cvSocket # "off")

CVOpen ==
    /\ cvSocket = "connecting" /\ cvSocket' = "open" /\ cvWanted' = TRUE
    /\ UNCHANGED <<cvRobot, cvView, cvSequence, cvPending, cvDecoding, cvOld,
                   cvCanvas, cvLoaded, cvFailed>>

\* A frame: the next one is asked for, only the newest waits for the decoder.
CVFrame ==
    /\ cvSocket = "open" /\ cvWanted /\ cvSequence < MaxFrames
    /\ cvSequence' = cvSequence + 1
    /\ IF cvDecoding = 0
       THEN cvDecoding' = cvSequence' /\ cvPending' = 0
       ELSE cvPending' = cvSequence' /\ UNCHANGED cvDecoding
    /\ UNCHANGED <<cvRobot, cvView, cvSocket, cvWanted, cvOld, cvCanvas,
                   cvLoaded, cvFailed>>

\* A text message, or a frame this view cannot read.
CVBadMessage ==
    /\ cvSocket = "open" /\ cvSocket' = "closing" /\ cvFailed' = TRUE
    /\ UNCHANGED <<cvRobot, cvView, cvSequence, cvWanted, cvPending, cvDecoding,
                   cvOld, cvCanvas, cvLoaded>>

\* A decoded image is drawn unless a newer frame arrived meanwhile.
CVDecoded ==
    /\ cvDecoding # 0 /\ cvDecoding' = cvPending /\ cvPending' = 0
    /\ IF cvPending # 0
       THEN UNCHANGED <<cvCanvas, cvLoaded, cvFailed>>
       ELSE /\ cvCanvas' = [view |-> cvView, robot |-> cvRobot, frame |-> cvDecoding]
            /\ cvLoaded' = TRUE /\ cvFailed' = FALSE
    /\ UNCHANGED <<cvRobot, cvView, cvSocket, cvSequence, cvWanted, cvOld>>

CVDecodeFails ==
    /\ cvDecoding # 0 /\ cvDecoding' = cvPending /\ cvPending' = 0
    /\ cvFailed' = TRUE
    /\ cvSocket' = IF cvSocket = "open" THEN "closing" ELSE cvSocket
    /\ UNCHANGED <<cvRobot, cvView, cvSequence, cvWanted, cvOld, cvCanvas, cvLoaded>>

\* Seeded fault: a late image is drawn without asking whether the view is active.
CVOldDecoded_Draws(image) ==
    /\ cvOld' = cvOld \ {image} /\ cvCanvas' = image /\ cvLoaded' = TRUE
    /\ UNCHANGED <<cvRobot, cvView, cvSocket, cvSequence, cvWanted, cvPending,
                   cvDecoding, cvFailed>>

\* The image of an inactive view is discarded.
CVOldDecoded(image) ==
    /\ cvOld' = cvOld \ {image}
    /\ UNCHANGED <<cvRobot, cvView, cvSocket, cvSequence, cvWanted, cvPending,
                   cvDecoding, cvCanvas, cvLoaded, cvFailed>>

\* An old view's image or socket fails: that does set the shared flag.
CVOldFails ==
    /\ cvView > 1 /\ cvFailed' = TRUE
    /\ cvOld' \in {cvOld} \cup {cvOld \ {image} : image \in cvOld}
    /\ UNCHANGED <<cvRobot, cvView, cvSocket, cvSequence, cvWanted, cvPending,
                   cvDecoding, cvCanvas, cvLoaded>>

CVClosed ==
    /\ cvSocket \in {"connecting", "open", "closing"}
    /\ cvSocket' = "closed" /\ cvWanted' = FALSE /\ cvFailed' = TRUE
    /\ UNCHANGED <<cvRobot, cvView, cvSequence, cvPending, cvDecoding, cvOld,
                   cvCanvas, cvLoaded>>

CVInit ==
    /\ cvRobot = (CHOOSE r \in Robots : TRUE) /\ cvView = 1 /\ cvSocket = "connecting"
    /\ cvSequence = 0 /\ cvWanted = FALSE /\ cvPending = 0 /\ cvDecoding = 0
    /\ cvOld = {} /\ cvCanvas = [view |-> 0, robot |-> cvRobot, frame |-> 0]
    /\ cvLoaded = FALSE /\ cvFailed = FALSE

CVNext ==
    \/ CVRetry \/ CVOpen \/ CVFrame \/ CVBadMessage \/ CVDecoded \/ CVDecodeFails
    \/ CVOldFails \/ CVClosed
    \/ \E robot \in Robots, enabled \in BOOLEAN : CVShow(robot, enabled)
    \/ \E image \in cvOld : CVOldDecoded(image)

-----------------------------------------------------------------------------
\* What is called live is of the robot shown: the picture was drawn by the
\* present view, however late the images of earlier views leave the decoder;
\* and the newest frame received is drawn, decoding or next, so a frame is only
\* ever dropped for a newer one (lines 58-105, 108-128).
LiveIsOfShownRobot ==
    /\ cvLoaded => cvCanvas.view = cvView /\ cvCanvas.robot = cvRobot
    /\ cvSequence > 0 /\ ~cvFailed =>
         \/ cvSequence \in {cvDecoding, cvPending}
         \/ cvCanvas.view = cvView /\ cvCanvas.frame = cvSequence
=============================================================================
