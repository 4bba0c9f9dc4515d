--------------------------- MODULE EmergencyClaims ---------------------------
(* A sentence of the documentation about commands, stated of the emergency  *)
(* stop's; a run of its own refutes it, and README.md says how.             *)
EXTENDS EmergencyStop

(* docs/agent-protocol-v1.md:87, command ids are idempotency keys: two      *)
(* commands that reach the robot under one id are the same command.         *)
IdNamesOneCommand ==
  \A i, j \in DOMAIN toRobot :
    toRobot[i].id = toRobot[j].id /\ toRobot[i].id # NoId =>
      toRobot[i].command = toRobot[j].command
=============================================================================
