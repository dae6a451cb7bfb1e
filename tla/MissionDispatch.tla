--------------------------- MODULE MissionDispatch ---------------------------
(***************************************************************************)
(* How audit missions reach robots: the handlers of mission_router.py on   *)
(* the `robots` and `missions` tables, and the agents of                   *)
(* simulator/runner.py that poll them over HTTP.                           *)
(*                                                                         *)
(* A handler runs inside one database session.  It awaits between its      *)
(* SELECT and its COMMIT, so other handlers run in between, and the ORM    *)
(* writes at the commit only the columns that differ from the row it       *)
(* loaded (Flush).  The database is READ COMMITTED and no handler locks a  *)
(* row.  An agent waits for one answer in its main loop and for one in its *)
(* heartbeat loop, may stop waiting (httpx timeout) while the handler goes *)
(* on, and loses everything it knows when the process restarts.            *)
(***************************************************************************)
EXTENDS Naturals

CONSTANTS
    Robots,           \* the agents, one row of `robots` each
    NumMissions,      \* bound: how many missions are ever created
    Priorities,       \* the priorities a mission may be created with
    Sessions,         \* the connections of the database pool
    Mortal,           \* the robots whose hardware may fail
    Draining,         \* the robots whose battery may run low
    NoRobot,          \* NULL in missions.robot_id
    NoSession,        \* an agent that awaits no answer
    MaxOperatorCalls, \* bound: start / pause / complete / cancel from the web
    MaxFaults,        \* bound: answers not waited for, handlers rolled back
    MaxRestarts       \* bound: restarts of the process

ASSUME RobotsAssumption ==
    NoRobot \notin Robots /\ Mortal \cup Draining \subseteq Robots
ASSUME SessionsAssumption == NoSession \notin Sessions
ASSUME BoundsAssumption ==
    /\ NumMissions \in Nat
    /\ Priorities \subseteq Nat
    /\ MaxOperatorCalls \in Nat
    /\ MaxFaults \in Nat
    /\ MaxRestarts \in Nat

\* Mission ids in the order of their created_at; 0 is NULL.
Missions == 1 .. NumMissions
NoMission == 0

VARIABLES
    missionStatus, \* missions.status, "ABSENT" before the row exists
    missionRobot,  \* missions.robot_id
    priority,      \* missions.priority
    robotStatus,   \* robots.status, "ABSENT" before the row exists
    robotActive,   \* robots.active_mission_id
    session,       \* the handler that holds each connection
    phase,         \* where an agent is in its main loop
    status,        \* agent.status
    task,          \* agent.mission_id
    call,          \* the session whose answer the main loop awaits
    beat,          \* the session whose answer the heartbeat loop awaits
    dedicated,     \* history: the robot_id a mission was created with
    raced,         \* history: missions loaded by overlapping next-task handlers
    calls, faults, restarts \* counters for the bounds

db     == <<missionStatus, missionRobot, priority, robotStatus, robotActive>>
agents == <<phase, status, task, call, beat>>
bounds == <<calls, faults, restarts>>
vars   == <<db, session, agents, dedicated, raced, bounds>>

MissionStatus == {"ABSENT", "SCHEDULED", "IN_PROGRESS", "COMPLETED", "FAILED",
                  "CANCELLED", "PAUSED"}
RobotStatus   == {"ABSENT", "IDLE", "AUDITING", "CHARGING", "FAULTED",
                  "OFFLINE", "MAINTENANCE"}
AgentStatus   == {"IDLE", "AUDITING", "CHARGING"}
Phase         == {"boot", "registering", "polling", "asking", "auditing",
                  "reporting", "lost", "dead"}
OperatorOp    == {"start", "pause", "complete", "cancel"}
Op            == OperatorOp \cup {"register", "heartbeat", "next_task"}
Stage         == {"sent", "loaded", "picked", "done", "failed"}

\* A handler at work: what it was asked and what it has read so far.
Handler == [op          : Op \cup {"none"},
            stage       : Stage,
            robot       : Robots \cup {NoRobot},   \* who asks
            mission     : Missions \cup {NoMission},
            reported    : AgentStatus,             \* payload.status
            seenStatus  : MissionStatus,           \* the mission row it loaded
            seenRobot   : Robots \cup {NoRobot},
            seenRStatus : RobotStatus,             \* the robot row it loaded
            seenActive  : Missions \cup {NoMission}]

\* A handler that remembers nothing of the rows.
Request(op, stage, r, m) ==
    [op |-> op, stage |-> stage, robot |-> r, mission |-> m,
     reported |-> "IDLE", seenStatus |-> "ABSENT", seenRobot |-> NoRobot,
     seenRStatus |-> "ABSENT", seenActive |-> NoMission]

Idle == Request("none", "done", NoRobot, NoMission)

Free(s) == session[s].op = "none"

\* A handler that has only its answer left: what it read is of no more use.
Finished(h, outcome) == Request(h.op, outcome, h.robot, h.mission)

\* What the unit of work leaves in a column: it issues an UPDATE for the
\* column only if the value set differs from the value loaded.
Flush(loaded, set, stored) == IF set # loaded THEN set ELSE stored

Init ==
    /\ missionStatus = [m \in Missions |-> "ABSENT"]
    /\ missionRobot  = [m \in Missions |-> NoRobot]
    /\ priority      = [m \in Missions |-> 0]
    /\ robotStatus   = [r \in Robots |-> "ABSENT"]
    /\ robotActive   = [r \in Robots |-> NoMission]
    /\ session       = [s \in Sessions |-> Idle]
    /\ phase         = [r \in Robots |-> "boot"]
    /\ status        = [r \in Robots |-> "IDLE"]
    /\ task          = [r \in Robots |-> NoMission]
    /\ call          = [r \in Robots |-> NoSession]
    /\ beat          = [r \in Robots |-> NoSession]
    /\ dedicated     = [m \in Missions |-> NoRobot]
    /\ raced         = {}
    /\ calls = 0 /\ faults = 0 /\ restarts = 0

-----------------------------------------------------------------------------
(* Registration: POST /robots, an upsert by serial number.                 *)

RegisterBegin(r, s) ==
    /\ phase[r] = "boot"
    /\ Free(s)
    /\ session' = [session EXCEPT ![s] =
                     [Request("register", "loaded", r, NoMission)
                        EXCEPT !.seenRStatus = robotStatus[r]]]
    /\ phase' = [phase EXCEPT ![r] = "registering"]
    /\ call' = [call EXCEPT ![r] = s]
    /\ UNCHANGED <<db, status, task, beat, dedicated, raced, bounds>>

\* An agent registers with status IDLE; the columns it does not send (and
\* active_mission_id is one) keep their values.
RegisterCommit(s) ==
    LET r == session[s].robot
    IN  /\ session[s].op = "register" /\ session[s].stage = "loaded"
        /\ robotStatus' = [robotStatus EXCEPT
                             ![r] = Flush(session[s].seenRStatus, "IDLE", @)]
        /\ session' = [session EXCEPT ![s] = Finished(@, "done")]
        /\ UNCHANGED <<missionStatus, missionRobot, priority, robotActive,
                       agents, dedicated, raced, bounds>>

-----------------------------------------------------------------------------
(* GET /robots/{id}/next-task.                                             *)

\* The agent asks, and the handler loads the robot's row.
NextTaskBegin(r, s) ==
    /\ phase[r] = "polling" /\ status[r] = "IDLE"
    /\ Free(s)
    /\ session' = [session EXCEPT ![s] =
                     [Request("next_task", "loaded", r, NoMission)
                        EXCEPT !.seenRStatus = robotStatus[r],
                               !.seenActive = robotActive[r]]]
    /\ phase' = [phase EXCEPT ![r] = "asking"]
    /\ call' = [call EXCEPT ![r] = s]
    /\ UNCHANGED <<db, status, task, beat, dedicated, raced, bounds>>

\* Faulty variant: the poll forgets whose mission it is.
EligibleToAny(r) == {m \in Missions : missionStatus[m] = "SCHEDULED"}

\* Faulty variant: a mission without a robot is nobody's.
EligibleToOwner(r) == {m \in Missions : /\ missionStatus[m] = "SCHEDULED"
                                        /\ missionRobot[m] = r}

Eligible(r) == {m \in Missions : /\ missionStatus[m] = "SCHEDULED"
                                 /\ missionRobot[m] \in {r, NoRobot}}

\* ORDER BY priority, created_at
Before(m, k) == \/ priority[m] < priority[k]
                \/ priority[m] = priority[k] /\ m < k

\* The handler in s has loaded m and not yet committed.
Loaded(s, m) == /\ session[s].op = "next_task"
                /\ session[s].stage = "picked"
                /\ session[s].mission = m

\* The handler loads the first eligible mission.
NextTaskPick(s, m) ==
    /\ session[s].op = "next_task" /\ session[s].stage = "loaded"
    /\ m \in Eligible(session[s].robot)
    /\ \A k \in Eligible(session[s].robot) \ {m} : Before(m, k)
    /\ session' = [session EXCEPT ![s].stage = "picked",
                                  ![s].mission = m,
                                  ![s].seenStatus = missionStatus[m],
                                  ![s].seenRobot = missionRobot[m]]
    /\ raced' = IF \E t \in Sessions \ {s} : Loaded(t, m)
                  THEN raced \cup {m} ELSE raced
    /\ UNCHANGED <<db, agents, dedicated, bounds>>

\* Nothing is eligible: 204.
NextTaskNone(s) ==
    /\ session[s].op = "next_task" /\ session[s].stage = "loaded"
    /\ Eligible(session[s].robot) = {}
    /\ session' = [session EXCEPT ![s] = Finished(@, "done")]
    /\ UNCHANGED <<db, agents, dedicated, raced, bounds>>

\* Faulty variant: the mission's row does not get the robot.
NextTaskCommitUnowned(s) ==
    /\ session[s].op = "next_task" /\ session[s].stage = "picked"
    /\ missionStatus' = [missionStatus EXCEPT ![session[s].mission] = "IN_PROGRESS"]
    /\ robotActive' = [robotActive EXCEPT ![session[s].robot] = session[s].mission]
    /\ session' = [session EXCEPT ![s] = Finished(@, "done")]
    /\ UNCHANGED <<missionRobot, robotStatus, priority, agents, dedicated,
                   raced, bounds>>

\* The handler writes both rows back in one transaction.
NextTaskCommit(s) ==
    LET h == session[s]
        r == h.robot
        m == h.mission
    IN  /\ h.op = "next_task" /\ h.stage = "picked"
        /\ missionStatus' = [missionStatus EXCEPT
                               ![m] = Flush(h.seenStatus, "IN_PROGRESS", @)]
        /\ missionRobot' = [missionRobot EXCEPT ![m] = Flush(h.seenRobot, r, @)]
        /\ robotActive' = [robotActive EXCEPT ![r] = Flush(h.seenActive, m, @)]
        /\ robotStatus' = [robotStatus EXCEPT
                             ![r] = Flush(h.seenRStatus, "AUDITING", @)]
        /\ session' = [session EXCEPT ![s] = Finished(@, "done")]
        /\ UNCHANGED <<priority, agents, dedicated, raced, bounds>>

-----------------------------------------------------------------------------
(* POST /missions and POST /missions/{id}/{start,pause,complete,cancel}.   *)

\* A mission is created SCHEDULED, for one robot or for any.
CreateMission(m, p, r) ==
    /\ missionStatus[m] = "ABSENT"
    /\ \A k \in Missions : k < m => missionStatus[k] # "ABSENT"
    /\ r # NoRobot => robotStatus[r] # "ABSENT"
    /\ missionStatus' = [missionStatus EXCEPT ![m] = "SCHEDULED"]
    /\ missionRobot' = [missionRobot EXCEPT ![m] = r]
    /\ priority' = [priority EXCEPT ![m] = p]
    /\ dedicated' = [dedicated EXCEPT ![m] = r]
    /\ UNCHANGED <<robotStatus, robotActive, session, agents, raced, bounds>>

\* The status each call sets; none of them looks at the present one.
Target(op) == CASE op = "start"    -> "IN_PROGRESS"
                [] op = "pause"    -> "SCHEDULED"
                [] op = "complete" -> "COMPLETED"
                [] op = "cancel"   -> "CANCELLED"

Load(s, op, m, r) ==
    session' = [session EXCEPT ![s] =
                  [Request(op, "loaded", r, m)
                     EXCEPT !.seenStatus = missionStatus[m]]]

OperatorBegin(op, m, s) ==
    /\ calls < MaxOperatorCalls
    /\ Free(s)
    /\ missionStatus[m] # "ABSENT"
    /\ Load(s, op, m, NoRobot)
    /\ calls' = calls + 1
    /\ UNCHANGED <<db, agents, dedicated, raced, faults, restarts>>

\* The agent has visited its bins and reports the mission complete.
ReportBegin(r, s) ==
    /\ phase[r] = "auditing"
    /\ Free(s)
    /\ Load(s, "complete", task[r], r)
    /\ phase' = [phase EXCEPT ![r] = "reporting"]
    /\ call' = [call EXCEPT ![r] = s]
    /\ UNCHANGED <<db, status, task, beat, dedicated, raced, bounds>>

\* Faulty variant: a pause takes the mission from its robot.
TransitionCommitDisowning(s) ==
    LET h == session[s]
    IN  /\ h.op \in OperatorOp /\ h.stage = "loaded"
        /\ missionStatus' = [missionStatus EXCEPT ![h.mission] = Target(h.op)]
        /\ missionRobot' = [missionRobot EXCEPT
                              ![h.mission] = IF h.op = "pause" THEN NoRobot ELSE @]
        /\ session' = [session EXCEPT ![s] = IF h.robot = NoRobot THEN Idle
                                             ELSE Finished(h, "done")]
        /\ UNCHANGED <<priority, robotStatus, robotActive, agents, dedicated,
                       raced, bounds>>

\* Faulty variant: only a mission seen IN_PROGRESS changes.
TransitionCommitRunning(s) ==
    LET h == session[s]
    IN  /\ h.op \in OperatorOp /\ h.stage = "loaded"
        /\ missionStatus' = [missionStatus EXCEPT
               ![h.mission] = IF h.seenStatus = "IN_PROGRESS"
                              THEN Target(h.op) ELSE @]
        /\ session' = [session EXCEPT ![s] = IF h.robot = NoRobot THEN Idle
                                             ELSE Finished(h, "done")]
        /\ UNCHANGED <<missionRobot, priority, robotStatus, robotActive,
                       agents, dedicated, raced, bounds>>

TransitionCommit(s) ==
    LET h == session[s]
    IN  /\ h.op \in OperatorOp /\ h.stage = "loaded"
        /\ missionStatus' = [missionStatus EXCEPT
                      ![h.mission] = Flush(h.seenStatus, Target(h.op), @)]
        /\ session' = [session EXCEPT ![s] = IF h.robot = NoRobot THEN Idle
                                             ELSE Finished(h, "done")]
        /\ UNCHANGED <<missionRobot, priority, robotStatus, robotActive,
                       agents, dedicated, raced, bounds>>

-----------------------------------------------------------------------------
(* The heartbeat loop and POST /robots/{id}/heartbeat.                     *)

Beating(r) == /\ phase[r] \in {"polling", "asking", "auditing", "reporting"}
              /\ beat[r] = NoSession

\* A low battery sends the agent to its dock, whatever it is doing.
Drained(r, low) == IF low THEN "CHARGING" ELSE status[r]

\* One turn of the loop with the network up: the report leaves the agent.
HeartbeatSend(r, s, low) ==
    /\ Beating(r)
    /\ Free(s)
    /\ low => r \in Draining
    /\ status' = [status EXCEPT ![r] = Drained(r, low)]
    /\ session' = [session EXCEPT ![s] =
                     [Request("heartbeat", "sent", r, task[r])
                        EXCEPT !.reported = Drained(r, low)]]
    /\ beat' = [beat EXCEPT ![r] = s]
    /\ UNCHANGED <<db, phase, task, call, dedicated, raced, bounds>>

\* One turn with the network down that finds the battery low.
HeartbeatOffline(r) ==
    /\ Beating(r)
    /\ status[r] # "CHARGING"
    /\ r \in Draining
    /\ status' = [status EXCEPT ![r] = Drained(r, TRUE)]
    /\ UNCHANGED <<db, session, phase, task, call, beat, dedicated, raced,
                   bounds>>

HeartbeatLoad(s) ==
    LET r == session[s].robot
    IN  /\ session[s].op = "heartbeat" /\ session[s].stage = "sent"
        /\ session' = [session EXCEPT ![s].stage = "loaded",
                                      ![s].seenRStatus = robotStatus[r],
                                      ![s].seenActive = robotActive[r]]
        /\ UNCHANGED <<db, agents, dedicated, raced, bounds>>

\* Faulty variant: a robot without a mission does not report its status.
HeartbeatCommitBusy(s) ==
    LET h == session[s]
        r == h.robot
    IN  /\ h.op = "heartbeat" /\ h.stage = "loaded"
        /\ IF h.mission = NoMission
             THEN UNCHANGED <<robotStatus, robotActive>>
             ELSE /\ robotStatus' = [robotStatus EXCEPT ![r] = h.reported]
                  /\ robotActive' = [robotActive EXCEPT ![r] = h.mission]
        /\ session' = [session EXCEPT ![s] = Idle]
        /\ beat' = [beat EXCEPT ![r] = IF @ = s THEN NoSession ELSE @]
        /\ UNCHANGED <<missionStatus, missionRobot, priority, phase, status,
                       task, call, dedicated, raced, bounds>>

\* The row takes the reported status; a report without a mission leaves
\* active_mission_id as it is.
HeartbeatCommit(s) ==
    LET h == session[s]
        r == h.robot
    IN  /\ h.op = "heartbeat" /\ h.stage = "loaded"
        /\ robotStatus' = [robotStatus EXCEPT
                             ![r] = Flush(h.seenRStatus, h.reported, @)]
        /\ robotActive' = [robotActive EXCEPT
                             ![r] = IF h.mission = NoMission THEN @
                                    ELSE Flush(h.seenActive, h.mission, @)]
        /\ session' = [session EXCEPT ![s] = Idle]
        /\ beat' = [beat EXCEPT ![r] = IF @ = s THEN NoSession ELSE @]
        /\ UNCHANGED <<missionStatus, missionRobot, priority, phase, status,
                       task, call, dedicated, raced, bounds>>

-----------------------------------------------------------------------------
(* Answers, timeouts and failures.                                         *)

\* A report ends the run whatever became of it.
Ended(r) ==
    /\ phase' = [phase EXCEPT ![r] = "polling"]
    /\ status' = [status EXCEPT ![r] = "IDLE"]
    /\ task' = [task EXCEPT ![r] = NoMission]

\* An agent whose registration fails keeps its local id, which no row has:
\* its heartbeats and polls are refused for the rest of its life.
NoAnswer(r) ==
    \/ /\ phase[r] = "registering"
       /\ phase' = [phase EXCEPT ![r] = "lost"]
       /\ UNCHANGED <<status, task>>
    \/ /\ phase[r] = "asking"
       /\ phase' = [phase EXCEPT ![r] = "polling"]
       /\ UNCHANGED <<status, task>>
    \/ phase[r] = "reporting" /\ Ended(r)

Answer(r, h) ==
    \/ /\ h.op = "register"
       /\ phase' = [phase EXCEPT ![r] = "polling"]
       /\ UNCHANGED <<status, task>>
    \/ /\ h.op = "next_task" /\ h.mission # NoMission
       /\ phase' = [phase EXCEPT ![r] = "auditing"]
       /\ status' = [status EXCEPT ![r] = "AUDITING"]
       /\ task' = [task EXCEPT ![r] = h.mission]
    \/ /\ h.op = "next_task" /\ h.mission = NoMission
       /\ phase' = [phase EXCEPT ![r] = "polling"]
       /\ UNCHANGED <<status, task>>
    \/ h.op = "complete" /\ Ended(r)

\* The answer reaches the agent if it still waits for it.
Reply(s) ==
    LET h == session[s]
        r == h.robot
    IN  /\ h.op \in {"register", "next_task", "complete"}
        /\ h.stage \in {"done", "failed"}
        /\ session' = [session EXCEPT ![s] = Idle]
        /\ IF call[r] = s
             THEN /\ call' = [call EXCEPT ![r] = NoSession]
                  /\ IF h.stage = "done" THEN Answer(r, h) ELSE NoAnswer(r)
             ELSE UNCHANGED <<phase, status, task, call>>
        /\ UNCHANGED <<db, beat, dedicated, raced, bounds>>

\* The agent stops waiting; the handler does not notice.
CallTimeout(r) ==
    /\ faults < MaxFaults
    /\ faults' = faults + 1
    /\ call[r] # NoSession
    /\ call' = [call EXCEPT ![r] = NoSession]
    /\ NoAnswer(r)
    /\ UNCHANGED <<db, session, beat, dedicated, raced, calls, restarts>>

BeatTimeout(r) ==
    /\ faults < MaxFaults
    /\ faults' = faults + 1
    /\ beat[r] # NoSession
    /\ beat' = [beat EXCEPT ![r] = NoSession]
    /\ UNCHANGED <<db, session, phase, status, task, call, dedicated, raced,
                   calls, restarts>>

\* A statement of the handler raises and the answer is an error: get_db
\* rolls back what is not yet committed.
HandlerFails(s) ==
    LET h == session[s]
    IN  /\ faults < MaxFaults
        /\ h.op # "none" /\ h.stage # "failed"
        /\ faults' = faults + 1
        /\ session' = [session EXCEPT ![s] =
                         IF h.robot = NoRobot \/ h.op = "heartbeat" THEN Idle
                         ELSE Finished(h, "failed")]
        /\ beat' = [r \in Robots |-> IF h.op = "heartbeat" /\ beat[r] = s
                                     THEN NoSession ELSE beat[r]]
        /\ UNCHANGED <<db, phase, status, task, call, dedicated, raced, calls,
                       restarts>>

\* The process restarts: the tables survive, handlers and agents do not.
Restart ==
    /\ restarts < MaxRestarts
    /\ restarts' = restarts + 1
    /\ session' = [s \in Sessions |-> Idle]
    /\ phase' = [r \in Robots |-> IF phase[r] = "dead" THEN "dead" ELSE "boot"]
    /\ status' = [r \in Robots |-> "IDLE"]
    /\ task' = [r \in Robots |-> NoMission]
    /\ call' = [r \in Robots |-> NoSession]
    /\ beat' = [r \in Robots |-> NoSession]
    /\ UNCHANGED <<db, dedicated, raced, calls, faults>>

\* The robot falls silent for good.
RobotDies(r) ==
    /\ r \in Mortal /\ phase[r] # "dead"
    /\ phase' = [phase EXCEPT ![r] = "dead"]
    /\ status' = [status EXCEPT ![r] = "IDLE"]
    /\ task' = [task EXCEPT ![r] = NoMission]
    /\ call' = [call EXCEPT ![r] = NoSession]
    /\ beat' = [beat EXCEPT ![r] = NoSession]
    /\ UNCHANGED <<db, session, dedicated, raced, bounds>>

-----------------------------------------------------------------------------

Operators ==
    \/ \E m \in Missions, p \in Priorities, r \in Robots \cup {NoRobot} :
          CreateMission(m, p, r)
    \/ \E op \in OperatorOp, m \in Missions, s \in Sessions :
          OperatorBegin(op, m, s)

\* The next step of the handler that holds s.
Advance(s) ==
    \/ RegisterCommit(s)
    \/ \E m \in Missions : NextTaskPick(s, m)
    \/ NextTaskNone(s)
    \/ NextTaskCommit(s)
    \/ TransitionCommit(s)
    \/ HeartbeatLoad(s)
    \/ HeartbeatCommit(s)
    \/ Reply(s)

\* The next request of the agent's main loop.
Ask(r) ==
    \E s \in Sessions :
        RegisterBegin(r, s) \/ NextTaskBegin(r, s) \/ ReportBegin(r, s)

Beat(r) == \E s \in Sessions, low \in BOOLEAN : HeartbeatSend(r, s, low)

Faults ==
    \/ \E r \in Robots : CallTimeout(r)
    \/ \E r \in Robots : BeatTimeout(r)
    \/ \E s \in Sessions : HandlerFails(s)
    \/ Restart
    \/ \E r \in Robots : RobotDies(r)

Next ==
    \/ Operators
    \/ \E s \in Sessions : Advance(s)
    \/ \E r \in Robots : Ask(r) \/ Beat(r) \/ HeartbeatOffline(r)
    \/ Faults

Spec == Init /\ [][Next]_vars

\* Every handler finishes and every answer is sent.  The pool serves its
\* waiters in turn, so an agent that asks for a connection again and again
\* gets one, and the network is up again and again when a heartbeat is due.
\* Operators, low batteries, timeouts and failures are owed nothing.
Fairness ==
    /\ \A s \in Sessions : WF_vars(Advance(s))
    /\ \A r \in Robots : SF_vars(Ask(r)) /\ SF_vars(Beat(r))

FairSpec == Spec /\ Fairness

-----------------------------------------------------------------------------
(* Properties.                                                             *)

\* Every variable has its type: the rows hold values of their enum types and
\* what a handler remembers of a row is a value the row can have.
TypeOK ==
    /\ missionStatus \in [Missions -> MissionStatus]
    /\ missionRobot \in [Missions -> Robots \cup {NoRobot}]
    /\ priority \in [Missions -> Priorities \cup {0}]
    /\ robotStatus \in [Robots -> RobotStatus]
    /\ robotActive \in [Robots -> Missions \cup {NoMission}]
    /\ session \in [Sessions -> Handler]
    /\ phase \in [Robots -> Phase]
    /\ status \in [Robots -> AgentStatus]
    /\ task \in [Robots -> Missions \cup {NoMission}]
    /\ call \in [Robots -> Sessions \cup {NoSession}]
    /\ beat \in [Robots -> Sessions \cup {NoSession}]
    /\ dedicated \in [Missions -> Robots \cup {NoRobot}]
    /\ raced \subseteq Missions
    /\ calls \in 0 .. MaxOperatorCalls
    /\ faults \in 0 .. MaxFaults
    /\ restarts \in 0 .. MaxRestarts

\* get_next_task takes no lock, so two handlers that overlap hand one mission
\* to two robots.  Nothing else does: unless handlers overlapped on a mission,
\* its row names the one robot that audits it or shows it as active, through
\* pauses, restarts, cancellations and answers that came too late.
RowNamesExecutor ==
    \A r \in Robots, m \in Missions \ raced :
        task[r] = m \/ robotActive[r] = m => missionRobot[m] = r

\* A mission created for one robot stays that robot's: its row never names
\* another one, and no other robot ever audits it or shows it as active,
\* whatever handlers overlap.
DedicatedMission ==
    \A m \in Missions :
        dedicated[m] # NoRobot =>
            /\ missionRobot[m] = dedicated[m]
            /\ \A r \in Robots :
                  task[r] = m \/ robotActive[r] = m => r = dedicated[m]

\* An owner is for life: once a mission's row names a robot, no commit names
\* another one, unless next-task handlers overlapped on the mission.
OwnerIsFinal ==
    [][\A m \in Missions \ raced :
          missionRobot[m] # NoRobot => missionRobot'[m] = missionRobot[m]]_vars

\* What a handler holds fits what it was asked to do.
Shape(h) ==
    /\ h.op \in {"register", "heartbeat", "next_task"} => h.robot \in Robots
    /\ h.op \in OperatorOp => h.mission \in Missions
    /\ h.op # "none" /\ h.stage \in {"done", "failed"} => h.robot \in Robots
    /\ h.op = "next_task" /\ h.stage = "picked" => h.mission \in Missions
    /\ h.op = "next_task" /\ h.stage = "loaded" => h.mission = NoMission

HandlerShape ==
    /\ \A s \in Sessions : Shape(session[s])
    /\ \A r \in Robots : phase[r] = "auditing" => task[r] \in Missions

\* r audits m, is shown with m, or is about to be.
Claims(r, m) ==
    \/ task[r] = m
    \/ robotActive[r] = m
    \/ \E s \in Sessions :
          /\ session[s].robot = r /\ session[s].mission = m
          /\ \/ session[s].op = "heartbeat"
             \/ session[s].op = "next_task" /\ session[s].stage = "done"

\* Nothing refers to a mission before its row exists, nor does it to a robot.
NoDanglingMission ==
    \A m \in Missions :
        missionStatus[m] = "ABSENT" =>
            /\ missionRobot[m] = NoRobot
            /\ \A r \in Robots : task[r] # m /\ robotActive[r] # m
            /\ \A s \in Sessions : session[s].mission # m

\* Why RowNamesExecutor and OwnerIsFinal hold: whoever claims a mission is
\* named by its row, and the one handler that has loaded it still sees the row
\* as it is, without an owner or with the robot that asks.
Ownership ==
    \A m \in Missions \ raced :
        /\ \A r \in Robots : Claims(r, m) => missionRobot[m] = r
        /\ \A s \in Sessions : Loaded(s, m) =>
              /\ session[s].seenRobot = missionRobot[m]
              /\ missionRobot[m] \in {session[s].robot, NoRobot}
              /\ \A t \in Sessions : Loaded(t, m) => t = s

\* Why DedicatedMission holds, whether or not handlers overlap.
Dedication ==
    \A m \in Missions :
        dedicated[m] # NoRobot =>
            /\ missionRobot[m] = dedicated[m]
            /\ \A r \in Robots : Claims(r, m) => r = dedicated[m]
            /\ \A s \in Sessions : Loaded(s, m) =>
                  session[s].robot = dedicated[m]

\* The inductive invariant.
Inv == TypeOK /\ HandlerShape /\ NoDanglingMission /\ Ownership /\ Dedication

\* An agent the poll loop leaves alone for good: _register failed, the robot
\* is gone, or the low battery found it with no audit that would end.
Stuck(r) == \/ phase[r] \in {"lost", "dead"}
            \/ phase[r] = "polling" /\ status[r] = "CHARGING"

\* No mission waits for ever while an agent that may take it still polls.
PolledUntilStuck ==
    \A m \in Missions :
        missionStatus[m] = "SCHEDULED" ~>
            \/ missionStatus[m] # "SCHEDULED"
            \/ \A r \in Robots : missionRobot[m] \in {r, NoRobot} => Stuck(r)

\* A dashboard that reads the robots table ends up right: next-task, the
\* registration and overlapping heartbeats all write robots.status, but the
\* row of an agent that keeps beating settles on the agent's own status.
RowConverges ==
    \A r \in Robots :
        <>[](phase[r] \in {"polling", "asking", "auditing", "reporting"})
            => <>[](robotStatus[r] = status[r])

\* An audit ends and is seen to end: whatever operators do to the row while
\* it lasts, the row becomes COMPLETED, unless a handler, the process or the
\* robot fails.  (It need not stay so: a pause that read the row before the
\* report and commits after it sends the mission out again.)
AuditCompletes ==
    \A r \in Robots, m \in Missions :
        phase[r] = "auditing" /\ task[r] = m ~>
            \/ missionStatus[m] = "COMPLETED"
            \/ faults > 0 \/ restarts > 0 \/ phase[r] = "dead"
=============================================================================
