----------------------------- MODULE MC_Dashboard -----------------------------
(***************************************************************************)
(* What people do at the dashboard, in parts that share no state: the      *)
(* administrator's terminal, the administration of people and settings,    *)
(* the figures, and the floor plan.  An initial state says which part is   *)
(* followed; the others stay as they began, where nothing that their       *)
(* fairness asks for is enabled.                                           *)
(***************************************************************************)
EXTENDS RemoteShell, Administration, Statistics, TwinPage

CONSTANTS root, boss

\* The seeded roles of Staff = {root, boss}.
SeededRole == [u \in Staff |-> IF u = root THEN "ENTERPRISE_ADMIN" ELSE "WAREHOUSE_MANAGER"]

VARIABLE followed

board == <<followed, terminal, admin, statistics, floorPlan>>

BoardInit ==
    /\ followed \in {"shell", "admin", "figures", "plan"}
    /\ RemoteShellInit /\ AdministrationInit /\ StatisticsInit /\ TwinPageInit
    /\ followed # "plan" => \A k \in Items : stored[k] = 0

BoardNext ==
    /\ UNCHANGED followed
    /\ \/ followed = "shell" /\ RemoteShellNext /\ UNCHANGED <<admin, statistics, floorPlan>>
       \/ followed = "admin" /\ AdministrationNext /\ UNCHANGED <<terminal, statistics, floorPlan>>
       \/ followed = "figures" /\ StatisticsNext /\ UNCHANGED <<terminal, admin, floorPlan>>
       \/ followed = "plan" /\ TwinPageNext /\ UNCHANGED <<terminal, admin, statistics>>

BoardSpec == BoardInit /\ [][BoardNext]_board /\ RemoteShellFairness /\ AdministrationFairness

\* In every part its invariant: no client is open that nothing could close
\* (ssh_proxy.py), rows hold what was last asked and who has a token has
\* logged in (admin_router.py, auth_service.py), and the floor plan shows
\* what the twin stores (DigitalTwin.tsx).
BoardInv == RemoteShellInv /\ AdministrationInv /\ StatisticsTypeOK /\ TwinPageInv
=============================================================================
