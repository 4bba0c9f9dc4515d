----------------------------- MODULE RecoveryDrive -----------------------------
(***************************************************************************)
(* Driving by hand while the robot searches its pose                       *)
(* (src/src/components/LocalizationWorkspace.tsx): the drive callbacks of   *)
(* the mapping page, open while recoveryActive, plus the automatic scan,   *)
(* during which only the robot turns itself.                               *)
(***************************************************************************)
EXTENDS AssistedDrive

VARIABLES rdScan,              \* status.automaticScanActive as rendered
          rdBound              \* the keyboard effect has seen that

rdVars == <<dmVars, rdScan, rdBound>>

\* A drive button is disabled, and its key unbound, while a scan is shown.
RDPress == ~rdScan /\ DMPress /\ UNCHANGED <<rdScan, rdBound>>

\* The status poll shows a scan that started or ended.
RDScan == dmMounted /\ rdScan' = ~rdScan /\ UNCHANGED <<dmVars, rdBound>>

\* The keyboard effect is bound anew; its cleanup stops the robot.
RDBind ==
    /\ dmMounted /\ rdBound # rdScan /\ rdBound' = rdScan /\ StopDrive
    /\ UNCHANGED <<dmProps, dmClosed, dmOut, rdScan>>

RDInit == DMInit /\ rdScan = FALSE /\ rdBound = FALSE

RDStep ==
    \/ DMRelease \/ DMStopTimer \/ DMStop \/ DMRepeat \/ DMCommit \/ DMLeave
    \/ \E request \in dmOut : DMAnswered(request) \/ DMFailed(request)
    \/ \E robot \in Robots, active \in BOOLEAN : DMRender(robot, active)

RDNext == RDPress \/ RDScan \/ RDBind \/ (RDStep /\ UNCHANGED <<rdScan, rdBound>>)
=============================================================================
