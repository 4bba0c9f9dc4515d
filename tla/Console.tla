------------------------------- MODULE Console -------------------------------
(***************************************************************************)
(* What surrounds every page: the provider of the session (AuthContext.tsx, *)
(* AppShell.tsx) and, inside it, the provider of the data                   *)
(* (ApiDeliveryContext.tsx).  A behaviour follows one of the two: they meet *)
(* in a lost session only, which each of them models.  A requester's console *)
(* is followed with its robot's pose only.                                 *)
(***************************************************************************)
EXTENDS DashboardView, BrowserSession

VARIABLE followed

consoleVars == <<followed, vars, abVars>>

ConsoleInit == followed \in {"session", "data"} /\ ABInit /\ Init
    /\ (followed = "session" => role = "USER")
    /\ (role = "USER" => tracked = "telemetry")

ConsoleNext ==
    \/ followed = "session" /\ ABNext /\ UNCHANGED <<followed, vars>>
    \/ followed = "data" /\ Next /\ UNCHANGED <<followed, abVars>>

\* What the browser and the backend do by themselves: effects run, messages
\* are delivered, a lost socket reconnects, requests are answered and applied,
\* and a visible tab polls.  Strong fairness stands where a bound may block a
\* step the browser would take at once, or where an answer may be lost.
ConsoleSpec ==
    /\ ConsoleInit /\ [][ConsoleNext]_consoleVars
    /\ SF_abVars(followed = "session" /\ ABPoll)
    /\ SF_abVars(followed = "session" /\ ServeData)
    /\ SF_abVars(followed = "session" /\ AnswerData)
    /\ WF_abVars(followed = "session" /\ ABRoute)
    /\ SF_vars(followed = "data" /\ \E young \in BOOLEAN : Commit(young))
    /\ SF_vars(followed = "data" /\ Receive)
    /\ SF_vars(followed = "data" /\ Poll)
    /\ WF_vars(followed = "data" /\ \E held \in SUBSET Robots : Connect(held))
    /\ WF_vars(followed = "data" /\ \E q \in refreshes : Read(q))
    /\ WF_vars(followed = "data" /\ \E q \in refreshes : Apply(q))
    /\ WF_vars(followed = "data" /\ LoseSession)

-----------------------------------------------------------------------------
\* Overlapping refreshes may be applied out of order, messages lost and the
\* session ended, but a tab that stays visible ends with the present deliveries
\* of the selected robot, its refs in step, or without a session (context lines
\* 391-396, 520-529).
ViewSettles == <>[](followed = "session" \/ Settled \/ ~mounted)
=============================================================================
