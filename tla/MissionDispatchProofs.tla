------------------------ MODULE MissionDispatchProofs ------------------------
(***************************************************************************)
(* What holds of mission dispatch for every number of robots, missions and *)
(* connections: the types, and who owns a mission.                         *)
(***************************************************************************)
EXTENDS MissionDispatch, TLAPS

USE RobotsAssumption, SessionsAssumption, BoundsAssumption
    DEF Missions, NoMission

\* A fresh handler is well formed.
LEMMA RequestType ==
  ASSUME NEW op \in Op \cup {"none"}, NEW stage \in Stage,
         NEW r \in Robots \cup {NoRobot}, NEW m \in Missions \cup {NoMission}
  PROVE  /\ Request(op, stage, r, m) \in Handler
         /\ Request(op, stage, r, m).op = op
         /\ Request(op, stage, r, m).stage = stage
         /\ Request(op, stage, r, m).robot = r
         /\ Request(op, stage, r, m).mission = m
  BY DEF Request, Handler, AgentStatus, MissionStatus, RobotStatus

\* A free connection has a well-formed, empty handler.
LEMMA IdleType ==
  /\ Idle \in Handler
  /\ Idle.op = "none" /\ Idle.stage = "done"
  /\ Idle.robot = NoRobot /\ Idle.mission = NoMission
  BY RequestType DEF Idle, Stage, Op

\* A handler that has only its answer left is still well formed.
LEMMA FinishedType ==
  ASSUME NEW h \in Handler, NEW outcome \in Stage
  PROVE  /\ Finished(h, outcome) \in Handler
         /\ Finished(h, outcome).op = h.op
         /\ Finished(h, outcome).stage = outcome
         /\ Finished(h, outcome).robot = h.robot
         /\ Finished(h, outcome).mission = h.mission
  <1>1. /\ h.op \in Op \cup {"none"} /\ h.robot \in Robots \cup {NoRobot}
        /\ h.mission \in Missions \cup {NoMission}
    BY DEF Handler
  <1> QED BY <1>1, RequestType DEF Finished

\* The tables start empty and well typed.
LEMMA TypeInit == Init => TypeOK /\ HandlerShape
  <1> SUFFICES ASSUME Init PROVE TypeOK /\ HandlerShape
    OBVIOUS
  <1>1. TypeOK
    BY IdleType
       DEF Init, TypeOK, MissionStatus, RobotStatus, AgentStatus, Phase
  <1>2. HandlerShape
    BY IdleType DEF Init, HandlerShape, Shape, OperatorOp
  <1> QED BY <1>1, <1>2

\* What a handler reads of a row leaves what it was asked as it was.
SameTask(k, h) == /\ k.op = h.op /\ k.stage = h.stage
                  /\ k.robot = h.robot /\ k.mission = h.mission

\* The fields of a well-formed handler.
LEMMA Fields ==
  ASSUME NEW h \in Handler
  PROVE  /\ h.op \in Op \cup {"none"} /\ h.stage \in Stage
         /\ h.robot \in Robots \cup {NoRobot}
         /\ h.mission \in Missions \cup {NoMission}
         /\ h.reported \in AgentStatus /\ h.seenStatus \in MissionStatus
         /\ h.seenRobot \in Robots \cup {NoRobot}
         /\ h.seenRStatus \in RobotStatus
         /\ h.seenActive \in Missions \cup {NoMission}
  BY DEF Handler

\* A step that gives one handler a new shape keeps the others'.
LEMMA ShapeFrame ==
  ASSUME TypeOK, HandlerShape, NEW s \in Sessions,
         NEW k \in Handler, Shape(k), session' = [session EXCEPT ![s] = k],
         \A q \in Robots : phase'[q] = "auditing" => task'[q] \in Missions
  PROVE  HandlerShape' /\ session' \in [Sessions -> Handler]
  BY DEF TypeOK, HandlerShape, Shape

\* The agent's own variables, whatever becomes of its request.
AgentTypeOK == /\ phase \in [Robots -> Phase]
               /\ status \in [Robots -> AgentStatus]
               /\ task \in [Robots -> Missions \cup {NoMission}]

\* An agent that hears nothing keeps its types.
LEMMA NoAnswerType ==
  ASSUME AgentTypeOK, NEW r \in Robots, NoAnswer(r)
  PROVE  AgentTypeOK'
  BY DEF NoAnswer, Ended, AgentTypeOK, Phase, AgentStatus

\* An agent that reads an answer keeps its types.
LEMMA AnswerType ==
  ASSUME AgentTypeOK, NEW r \in Robots, NEW h \in Handler, Answer(r, h)
  PROVE  AgentTypeOK'
  BY Fields DEF Answer, Ended, AgentTypeOK, Phase, AgentStatus

\* Types and handler shapes survive every step.
LEMMA TypeStep ==
  ASSUME TypeOK, HandlerShape, [Next]_vars
  PROVE  TypeOK' /\ HandlerShape'
  <1>1. ASSUME NEW r \in Robots, NEW s \in Sessions, RegisterBegin(r, s)
       PROVE  TypeOK' /\ HandlerShape'
    <2> DEFINE k == [Request("register", "loaded", r, NoMission)
                       EXCEPT !.seenRStatus = robotStatus[r]]
    <2>1. session[s] \in Handler /\ Shape(session[s])
      BY DEF TypeOK, HandlerShape
    <2>2. k \in Handler /\ Shape(k)
      <3>1. /\ Request("register", "loaded", r, NoMission) \in Handler
           /\ Shape(Request("register", "loaded", r, NoMission))
        BY <1>1, RequestType
           DEF RegisterBegin, TypeOK, HandlerShape, Shape, Op, OperatorOp,
               Stage
      <3>2. robotStatus[r] \in RobotStatus
        BY <1>1 DEF RegisterBegin, TypeOK, HandlerShape, AgentStatus
      <3>3. /\ k \in Handler
           /\ SameTask(k, Request("register", "loaded", r, NoMission))
        BY <3>1, <3>2 DEF Handler, SameTask
      <3> QED BY <3>1, <3>3 DEF Shape, SameTask
    <2>3. session' = [session EXCEPT ![s] = k]
      BY <1>1 DEF RegisterBegin
    <2>4. \A q \in Robots : phase'[q] = "auditing" => task'[q] \in Missions
      BY <1>1, <2>1, Fields
         DEF RegisterBegin, TypeOK, HandlerShape, Shape, db, agents
    <2> HIDE DEF k
    <2>5. HandlerShape' /\ session' \in [Sessions -> Handler]
      BY <2>2, <2>3, <2>4, ShapeFrame
    <2>6. TypeOK'
      BY <1>1, <2>1, <2>5, Fields
         DEF RegisterBegin, TypeOK, Shape, Flush, Phase, db, agents, bounds,
             AgentStatus, MissionStatus, RobotStatus, Stage, Op, OperatorOp
    <2> QED BY <2>5, <2>6
  <1>2. ASSUME NEW s \in Sessions, RegisterCommit(s)
       PROVE  TypeOK' /\ HandlerShape'
    <2> DEFINE k == Finished(session[s], "done")
    <2>1. session[s] \in Handler /\ Shape(session[s])
      BY DEF TypeOK, HandlerShape
    <2>2. k \in Handler /\ Shape(k)
      BY <1>2, <2>1, Fields, FinishedType
         DEF RegisterCommit, TypeOK, HandlerShape, Shape, SameTask,
             AgentStatus, MissionStatus, RobotStatus, Stage, Op, OperatorOp
    <2>3. session' = [session EXCEPT ![s] = k]
      BY <1>2 DEF RegisterCommit
    <2>4. \A q \in Robots : phase'[q] = "auditing" => task'[q] \in Missions
      BY <1>2, <2>1, Fields
         DEF RegisterCommit, TypeOK, HandlerShape, Shape, db, agents
    <2> HIDE DEF k
    <2>5. HandlerShape' /\ session' \in [Sessions -> Handler]
      BY <2>2, <2>3, <2>4, ShapeFrame
    <2>6. TypeOK'
      BY <1>2, <2>1, <2>5, Fields
         DEF RegisterCommit, TypeOK, Shape, Flush, Phase, db, agents, bounds,
             AgentStatus, MissionStatus, RobotStatus, Stage, Op, OperatorOp
    <2> QED BY <2>5, <2>6
  <1>3. ASSUME NEW r \in Robots, NEW s \in Sessions, NextTaskBegin(r, s)
       PROVE  TypeOK' /\ HandlerShape'
    <2> DEFINE k == [Request("next_task", "loaded", r, NoMission)
                      EXCEPT !.seenRStatus = robotStatus[r],
                             !.seenActive = robotActive[r]]
    <2>1. session[s] \in Handler /\ Shape(session[s])
      BY DEF TypeOK, HandlerShape
    <2>2. k \in Handler /\ Shape(k)
      <3>1. /\ Request("next_task", "loaded", r, NoMission) \in Handler
           /\ Shape(Request("next_task", "loaded", r, NoMission))
        BY <1>3, RequestType
           DEF NextTaskBegin, TypeOK, HandlerShape, Shape, Op, OperatorOp,
               Stage
      <3>2. /\ robotStatus[r] \in RobotStatus
           /\ robotActive[r] \in Missions \cup {NoMission}
        BY <1>3 DEF NextTaskBegin, TypeOK, HandlerShape, AgentStatus
      <3>3. /\ k \in Handler
           /\ SameTask(k, Request("next_task", "loaded", r, NoMission))
        BY <3>1, <3>2 DEF Handler, SameTask
      <3> QED BY <3>1, <3>3 DEF Shape, SameTask
    <2>3. session' = [session EXCEPT ![s] = k]
      BY <1>3 DEF NextTaskBegin
    <2>4. \A q \in Robots : phase'[q] = "auditing" => task'[q] \in Missions
      BY <1>3, <2>1, Fields
         DEF NextTaskBegin, TypeOK, HandlerShape, Shape, db, agents
    <2> HIDE DEF k
    <2>5. HandlerShape' /\ session' \in [Sessions -> Handler]
      BY <2>2, <2>3, <2>4, ShapeFrame
    <2>6. TypeOK'
      BY <1>3, <2>1, <2>5, Fields
         DEF NextTaskBegin, TypeOK, Shape, Flush, Phase, db, agents, bounds,
             AgentStatus, MissionStatus, RobotStatus, Stage, Op, OperatorOp
    <2> QED BY <2>5, <2>6
  <1>4. ASSUME NEW s \in Sessions, NEW m \in Missions, NextTaskPick(s, m)
       PROVE  TypeOK' /\ HandlerShape'
    <2> DEFINE k == [session[s] EXCEPT !.stage = "picked", !.mission = m,
                                     !.seenStatus = missionStatus[m],
                                     !.seenRobot = missionRobot[m]]
    <2>1. session[s] \in Handler /\ Shape(session[s])
      BY DEF TypeOK, HandlerShape
    <2>2. k \in Handler /\ Shape(k)
      <3>0. /\ missionStatus[m] \in MissionStatus
            /\ missionRobot[m] \in Robots \cup {NoRobot}
        BY DEF TypeOK
      <3>1. k \in Handler /\ k.op = session[s].op /\ k.robot = session[s].robot
            /\ k.stage = "picked" /\ k.mission = m
        BY <2>1, <3>0 DEF Handler, Stage
      <3> QED BY <1>4, <2>1, <3>1 DEF NextTaskPick, Shape, OperatorOp
    <2>3. session' = [session EXCEPT ![s] = k]
      BY <1>4 DEF NextTaskPick
    <2>4. \A q \in Robots : phase'[q] = "auditing" => task'[q] \in Missions
      BY <1>4, <2>1, Fields
         DEF NextTaskPick, TypeOK, HandlerShape, Shape, db, agents
    <2> HIDE DEF k
    <2>5. HandlerShape' /\ session' \in [Sessions -> Handler]
      BY <2>2, <2>3, <2>4, ShapeFrame
    <2>6. TypeOK'
      BY <1>4, <2>1, <2>5, Fields
         DEF NextTaskPick, TypeOK, Shape, Flush, Phase, db, agents, bounds,
             AgentStatus, MissionStatus, RobotStatus, Stage, Op, OperatorOp
    <2> QED BY <2>5, <2>6
  <1>5. ASSUME NEW s \in Sessions, NextTaskNone(s)
       PROVE  TypeOK' /\ HandlerShape'
    <2> DEFINE k == Finished(session[s], "done")
    <2>1. session[s] \in Handler /\ Shape(session[s])
      BY DEF TypeOK, HandlerShape
    <2>2. k \in Handler /\ Shape(k)
      BY <1>5, <2>1, Fields, FinishedType
         DEF NextTaskNone, TypeOK, HandlerShape, Shape, SameTask, AgentStatus,
             MissionStatus, RobotStatus, Stage, Op, OperatorOp
    <2>3. session' = [session EXCEPT ![s] = k]
      BY <1>5 DEF NextTaskNone
    <2>4. \A q \in Robots : phase'[q] = "auditing" => task'[q] \in Missions
      BY <1>5, <2>1, Fields
         DEF NextTaskNone, TypeOK, HandlerShape, Shape, db, agents
    <2> HIDE DEF k
    <2>5. HandlerShape' /\ session' \in [Sessions -> Handler]
      BY <2>2, <2>3, <2>4, ShapeFrame
    <2>6. TypeOK'
      BY <1>5, <2>1, <2>5, Fields
         DEF NextTaskNone, TypeOK, Shape, Flush, Phase, db, agents, bounds,
             AgentStatus, MissionStatus, RobotStatus, Stage, Op, OperatorOp
    <2> QED BY <2>5, <2>6
  <1>6. ASSUME NEW s \in Sessions, NextTaskCommit(s)
       PROVE  TypeOK' /\ HandlerShape'
    <2> DEFINE k == Finished(session[s], "done")
    <2>1. session[s] \in Handler /\ Shape(session[s])
      BY DEF TypeOK, HandlerShape
    <2>2. k \in Handler /\ Shape(k)
      BY <1>6, <2>1, Fields, FinishedType
         DEF NextTaskCommit, TypeOK, HandlerShape, Shape, SameTask,
             AgentStatus, MissionStatus, RobotStatus, Stage, Op, OperatorOp
    <2>3. session' = [session EXCEPT ![s] = k]
      BY <1>6 DEF NextTaskCommit
    <2>4. \A q \in Robots : phase'[q] = "auditing" => task'[q] \in Missions
      BY <1>6, <2>1, Fields
         DEF NextTaskCommit, TypeOK, HandlerShape, Shape, db, agents
    <2> HIDE DEF k
    <2>5. HandlerShape' /\ session' \in [Sessions -> Handler]
      BY <2>2, <2>3, <2>4, ShapeFrame
    <2>6. TypeOK'
      BY <1>6, <2>1, <2>5, Fields
         DEF NextTaskCommit, TypeOK, Shape, Flush, Phase, db, agents, bounds,
             AgentStatus, MissionStatus, RobotStatus, Stage, Op, OperatorOp
    <2> QED BY <2>5, <2>6
  <1>7. ASSUME NEW m \in Missions, NEW p \in Priorities, NEW r \in Robots \cup {NoRobot},
               CreateMission(m, p, r)
       PROVE  TypeOK' /\ HandlerShape'
    <2>1. TypeOK'
      BY <1>7
         DEF CreateMission, TypeOK, Phase, db, agents, bounds, AgentStatus,
             MissionStatus, RobotStatus, Stage, Op, OperatorOp
    <2>2. HandlerShape'
      BY <1>7
         DEF CreateMission, TypeOK, HandlerShape, Shape, db, agents, OperatorOp
    <2> QED BY <2>1, <2>2
  <1>8. ASSUME NEW op \in OperatorOp, NEW m \in Missions, NEW s \in Sessions,
               OperatorBegin(op, m, s)
       PROVE  TypeOK' /\ HandlerShape'
    <2> DEFINE k == [Request(op, "loaded", NoRobot, m)
                       EXCEPT !.seenStatus = missionStatus[m]]
    <2>1. session[s] \in Handler /\ Shape(session[s])
      BY DEF TypeOK, HandlerShape
    <2>2. k \in Handler /\ Shape(k)
      <3>1. /\ Request(op, "loaded", NoRobot, m) \in Handler
           /\ Shape(Request(op, "loaded", NoRobot, m))
        BY <1>8, RequestType
           DEF OperatorBegin, Load, TypeOK, HandlerShape, Shape, Op,
               OperatorOp, Stage
      <3>2. missionStatus[m] \in MissionStatus
        BY <1>8 DEF OperatorBegin, Load, TypeOK, HandlerShape, AgentStatus
      <3>3. /\ k \in Handler
           /\ SameTask(k, Request(op, "loaded", NoRobot, m))
        BY <3>1, <3>2 DEF Handler, SameTask
      <3> QED BY <3>1, <3>3 DEF Shape, SameTask
    <2>3. session' = [session EXCEPT ![s] = k]
      BY <1>8 DEF OperatorBegin, Load
    <2>4. \A q \in Robots : phase'[q] = "auditing" => task'[q] \in Missions
      BY <1>8, <2>1, Fields
         DEF OperatorBegin, Load, TypeOK, HandlerShape, Shape, db, agents
    <2> HIDE DEF k
    <2>5. HandlerShape' /\ session' \in [Sessions -> Handler]
      BY <2>2, <2>3, <2>4, ShapeFrame
    <2>6. TypeOK'
      BY <1>8, <2>1, <2>5, Fields
         DEF OperatorBegin, Load, TypeOK, Shape, Flush, Phase, db, agents,
             bounds, AgentStatus, MissionStatus, RobotStatus, Stage, Op,
             OperatorOp
    <2> QED BY <2>5, <2>6
  <1>9. ASSUME NEW r \in Robots, NEW s \in Sessions, ReportBegin(r, s)
       PROVE  TypeOK' /\ HandlerShape'
    <2> DEFINE k == [Request("complete", "loaded", r, task[r])
                       EXCEPT !.seenStatus = missionStatus[task[r]]]
    <2>1. session[s] \in Handler /\ Shape(session[s])
      BY DEF TypeOK, HandlerShape
    <2>2. k \in Handler /\ Shape(k)
      <3>1. /\ Request("complete", "loaded", r, task[r]) \in Handler
           /\ Shape(Request("complete", "loaded", r, task[r]))
        BY <1>9, RequestType
           DEF ReportBegin, Load, TypeOK, HandlerShape, Shape, Op, OperatorOp,
               Stage
      <3>2. missionStatus[task[r]] \in MissionStatus
        BY <1>9 DEF ReportBegin, Load, TypeOK, HandlerShape, AgentStatus
      <3>3. /\ k \in Handler
           /\ SameTask(k, Request("complete", "loaded", r, task[r]))
        BY <3>1, <3>2 DEF Handler, SameTask
      <3> QED BY <3>1, <3>3 DEF Shape, SameTask
    <2>3. session' = [session EXCEPT ![s] = k]
      BY <1>9 DEF ReportBegin, Load
    <2>4. \A q \in Robots : phase'[q] = "auditing" => task'[q] \in Missions
      BY <1>9, <2>1, Fields
         DEF ReportBegin, Load, TypeOK, HandlerShape, Shape, db, agents
    <2> HIDE DEF k
    <2>5. HandlerShape' /\ session' \in [Sessions -> Handler]
      BY <2>2, <2>3, <2>4, ShapeFrame
    <2>6. TypeOK'
      BY <1>9, <2>1, <2>5, Fields
         DEF ReportBegin, Load, TypeOK, Shape, Flush, Phase, db, agents,
             bounds, AgentStatus, MissionStatus, RobotStatus, Stage, Op,
             OperatorOp
    <2> QED BY <2>5, <2>6
  <1>10. ASSUME NEW s \in Sessions, TransitionCommit(s)
       PROVE  TypeOK' /\ HandlerShape'
    <2> DEFINE k == IF session[s].robot = NoRobot THEN Idle
                   ELSE Finished(session[s], "done")
    <2>1. session[s] \in Handler /\ Shape(session[s])
      BY DEF TypeOK, HandlerShape
    <2>2. k \in Handler /\ Shape(k)
      BY <1>10, <2>1, Fields, FinishedType, IdleType
         DEF TransitionCommit, Target, TypeOK, HandlerShape, Shape, SameTask,
             AgentStatus, MissionStatus, RobotStatus, Stage, Op, OperatorOp
    <2>3. session' = [session EXCEPT ![s] = k]
      BY <1>10 DEF TransitionCommit, Target
    <2>4. \A q \in Robots : phase'[q] = "auditing" => task'[q] \in Missions
      BY <1>10, <2>1, Fields
         DEF TransitionCommit, Target, TypeOK, HandlerShape, Shape, db, agents
    <2> HIDE DEF k
    <2>5. HandlerShape' /\ session' \in [Sessions -> Handler]
      BY <2>2, <2>3, <2>4, ShapeFrame
    <2>6. TypeOK'
      BY <1>10, <2>1, <2>5, Fields
         DEF TransitionCommit, Target, TypeOK, Shape, Flush, Phase, db, agents,
             bounds, AgentStatus, MissionStatus, RobotStatus, Stage, Op,
             OperatorOp
    <2> QED BY <2>5, <2>6
  <1>11. ASSUME NEW r \in Robots, NEW s \in Sessions, NEW low \in BOOLEAN,
                HeartbeatSend(r, s, low)
       PROVE  TypeOK' /\ HandlerShape'
    <2> DEFINE k == [Request("heartbeat", "sent", r, task[r])
                      EXCEPT !.reported = Drained(r, low)]
    <2>1. session[s] \in Handler /\ Shape(session[s])
      BY DEF TypeOK, HandlerShape
    <2>2. k \in Handler /\ Shape(k)
      <3>1. /\ Request("heartbeat", "sent", r, task[r]) \in Handler
           /\ Shape(Request("heartbeat", "sent", r, task[r]))
        BY <1>11, RequestType
           DEF HeartbeatSend, Drained, TypeOK, HandlerShape, Shape, Op,
               OperatorOp, Stage
      <3>2. Drained(r, low) \in AgentStatus
        BY <1>11 DEF HeartbeatSend, Drained, TypeOK, HandlerShape, AgentStatus
      <3>3. /\ k \in Handler
           /\ SameTask(k, Request("heartbeat", "sent", r, task[r]))
        BY <3>1, <3>2 DEF Handler, SameTask
      <3> QED BY <3>1, <3>3 DEF Shape, SameTask
    <2>3. session' = [session EXCEPT ![s] = k]
      BY <1>11 DEF HeartbeatSend, Drained
    <2>4. \A q \in Robots : phase'[q] = "auditing" => task'[q] \in Missions
      BY <1>11, <2>1, Fields
         DEF HeartbeatSend, Drained, TypeOK, HandlerShape, Shape, db, agents
    <2> HIDE DEF k
    <2>5. HandlerShape' /\ session' \in [Sessions -> Handler]
      BY <2>2, <2>3, <2>4, ShapeFrame
    <2>6. TypeOK'
      BY <1>11, <2>1, <2>5, Fields
         DEF HeartbeatSend, Drained, TypeOK, Shape, Flush, Phase, db, agents,
             bounds, AgentStatus, MissionStatus, RobotStatus, Stage, Op,
             OperatorOp
    <2> QED BY <2>5, <2>6
  <1>12. ASSUME NEW r \in Robots, HeartbeatOffline(r)
       PROVE  TypeOK' /\ HandlerShape'
    <2>1. TypeOK'
      BY <1>12
         DEF HeartbeatOffline, Drained, TypeOK, Phase, db, agents, bounds,
             AgentStatus, MissionStatus, RobotStatus, Stage, Op, OperatorOp
    <2>2. HandlerShape'
      BY <1>12
         DEF HeartbeatOffline, Drained, TypeOK, HandlerShape, Shape, db,
             agents, OperatorOp
    <2> QED BY <2>1, <2>2
  <1>13. ASSUME NEW s \in Sessions, HeartbeatLoad(s)
       PROVE  TypeOK' /\ HandlerShape'
    <2> DEFINE k == [session[s] EXCEPT !.stage = "loaded",
                                     !.seenRStatus = robotStatus[session[s].robot],
                                     !.seenActive = robotActive[session[s].robot]]
    <2>1. session[s] \in Handler /\ Shape(session[s])
      BY DEF TypeOK, HandlerShape
    <2>2. k \in Handler /\ Shape(k)
      <3>0. /\ robotStatus[session[s].robot] \in RobotStatus
            /\ robotActive[session[s].robot] \in Missions \cup {NoMission}
        BY <1>13, <2>1 DEF HeartbeatLoad, TypeOK, Shape
      <3>1. k \in Handler /\ k.op = session[s].op /\ k.robot = session[s].robot
            /\ k.stage = "loaded" /\ k.mission = session[s].mission
        BY <2>1, <3>0 DEF Handler, Stage
      <3> QED BY <1>13, <2>1, <3>1 DEF HeartbeatLoad, Shape, OperatorOp
    <2>3. session' = [session EXCEPT ![s] = k]
      BY <1>13 DEF HeartbeatLoad
    <2>4. \A q \in Robots : phase'[q] = "auditing" => task'[q] \in Missions
      BY <1>13, <2>1, Fields
         DEF HeartbeatLoad, TypeOK, HandlerShape, Shape, db, agents
    <2> HIDE DEF k
    <2>5. HandlerShape' /\ session' \in [Sessions -> Handler]
      BY <2>2, <2>3, <2>4, ShapeFrame
    <2>6. TypeOK'
      BY <1>13, <2>1, <2>5, Fields
         DEF HeartbeatLoad, TypeOK, Shape, Flush, Phase, db, agents, bounds,
             AgentStatus, MissionStatus, RobotStatus, Stage, Op, OperatorOp
    <2> QED BY <2>5, <2>6
  <1>14. ASSUME NEW s \in Sessions, HeartbeatCommit(s)
       PROVE  TypeOK' /\ HandlerShape'
    <2> DEFINE k == Idle
    <2>1. session[s] \in Handler /\ Shape(session[s])
      BY DEF TypeOK, HandlerShape
    <2>2. k \in Handler /\ Shape(k)
      BY <1>14, <2>1, Fields, IdleType
         DEF HeartbeatCommit, TypeOK, HandlerShape, Shape, SameTask,
             AgentStatus, MissionStatus, RobotStatus, Stage, Op, OperatorOp
    <2>3. session' = [session EXCEPT ![s] = k]
      BY <1>14 DEF HeartbeatCommit
    <2>4. \A q \in Robots : phase'[q] = "auditing" => task'[q] \in Missions
      BY <1>14, <2>1, Fields
         DEF HeartbeatCommit, TypeOK, HandlerShape, Shape, db, agents
    <2> HIDE DEF k
    <2>5. HandlerShape' /\ session' \in [Sessions -> Handler]
      BY <2>2, <2>3, <2>4, ShapeFrame
    <2>6. TypeOK'
      BY <1>14, <2>1, <2>5, Fields
         DEF HeartbeatCommit, TypeOK, Shape, Flush, Phase, db, agents, bounds,
             AgentStatus, MissionStatus, RobotStatus, Stage, Op, OperatorOp
    <2> QED BY <2>5, <2>6
  <1>15. ASSUME NEW s \in Sessions, Reply(s)
       PROVE  TypeOK' /\ HandlerShape'
    <2> DEFINE k == Idle
    <2>1. session[s] \in Handler /\ Shape(session[s])
      BY DEF TypeOK, HandlerShape
    <2>2. k \in Handler /\ Shape(k)
      BY <1>15, <2>1, Fields, IdleType
         DEF Reply, Answer, NoAnswer, Ended, TypeOK, HandlerShape, Shape,
             SameTask, AgentStatus, MissionStatus, RobotStatus, Stage, Op,
             OperatorOp
    <2>3. session' = [session EXCEPT ![s] = k]
      BY <1>15 DEF Reply, Answer, NoAnswer, Ended
    <2>4. \A q \in Robots : phase'[q] = "auditing" => task'[q] \in Missions
      BY <1>15, <2>1, Fields
         DEF Reply, Answer, NoAnswer, Ended, TypeOK, HandlerShape, Shape, db,
             agents
    <2> HIDE DEF k
    <2>5. HandlerShape' /\ session' \in [Sessions -> Handler]
      BY <2>2, <2>3, <2>4, ShapeFrame
    <2>6. AgentTypeOK'
      BY <1>15, <2>1, NoAnswerType, AnswerType
         DEF Reply, TypeOK, Shape, AgentTypeOK, OperatorOp
    <2>7. TypeOK'
      BY <1>15, <2>1, <2>5, <2>6, Fields
         DEF Reply, TypeOK, AgentTypeOK, Shape, db, bounds, OperatorOp
    <2> QED BY <2>5, <2>7
  <1>16. ASSUME NEW r \in Robots, CallTimeout(r)
       PROVE  TypeOK' /\ HandlerShape'
    <2>1. TypeOK'
      BY <1>16, NoAnswerType DEF CallTimeout, TypeOK, AgentTypeOK, db
    <2>2. HandlerShape'
      BY <1>16
         DEF CallTimeout, NoAnswer, Ended, TypeOK, HandlerShape, Shape, db,
             agents, OperatorOp
    <2> QED BY <2>1, <2>2
  <1>17. ASSUME NEW r \in Robots, BeatTimeout(r)
       PROVE  TypeOK' /\ HandlerShape'
    <2>1. TypeOK'
      BY <1>17
         DEF BeatTimeout, TypeOK, Phase, db, agents, bounds, AgentStatus,
             MissionStatus, RobotStatus, Stage, Op, OperatorOp
    <2>2. HandlerShape'
      BY <1>17
         DEF BeatTimeout, TypeOK, HandlerShape, Shape, db, agents, OperatorOp
    <2> QED BY <2>1, <2>2
  <1>18. ASSUME NEW s \in Sessions, HandlerFails(s)
       PROVE  TypeOK' /\ HandlerShape'
    <2> DEFINE k == IF session[s].robot = NoRobot \/ session[s].op = "heartbeat" THEN Idle
                   ELSE Finished(session[s], "failed")
    <2>1. session[s] \in Handler /\ Shape(session[s])
      BY DEF TypeOK, HandlerShape
    <2>2. k \in Handler /\ Shape(k)
      BY <1>18, <2>1, Fields, FinishedType, IdleType
         DEF HandlerFails, TypeOK, HandlerShape, Shape, SameTask, AgentStatus,
             MissionStatus, RobotStatus, Stage, Op, OperatorOp
    <2>3. session' = [session EXCEPT ![s] = k]
      BY <1>18 DEF HandlerFails
    <2>4. \A q \in Robots : phase'[q] = "auditing" => task'[q] \in Missions
      BY <1>18, <2>1, Fields
         DEF HandlerFails, TypeOK, HandlerShape, Shape, db, agents
    <2> HIDE DEF k
    <2>5. HandlerShape' /\ session' \in [Sessions -> Handler]
      BY <2>2, <2>3, <2>4, ShapeFrame
    <2>6. TypeOK'
      BY <1>18, <2>1, <2>5, Fields
         DEF HandlerFails, TypeOK, Shape, Flush, Phase, db, agents, bounds,
             AgentStatus, MissionStatus, RobotStatus, Stage, Op, OperatorOp
    <2> QED BY <2>5, <2>6
  <1>19. ASSUME Restart
       PROVE  TypeOK' /\ HandlerShape'
    <2>1. TypeOK'
      BY <1>19, IdleType
         DEF Restart, TypeOK, Phase, db, agents, bounds, AgentStatus,
             MissionStatus, RobotStatus, Stage, Op, OperatorOp
    <2>2. HandlerShape'
      BY <1>19, IdleType
         DEF Restart, TypeOK, HandlerShape, Shape, db, agents, OperatorOp
    <2> QED BY <2>1, <2>2
  <1>20. ASSUME NEW r \in Robots, RobotDies(r)
       PROVE  TypeOK' /\ HandlerShape'
    <2>1. TypeOK'
      BY <1>20
         DEF RobotDies, TypeOK, Phase, db, agents, bounds, AgentStatus,
             MissionStatus, RobotStatus, Stage, Op, OperatorOp
    <2>2. HandlerShape'
      BY <1>20
         DEF RobotDies, TypeOK, HandlerShape, Shape, db, agents, OperatorOp
    <2> QED BY <2>1, <2>2
  <1>21. CASE UNCHANGED vars
    BY <1>21 DEF vars, db, agents, bounds, TypeOK, HandlerShape, Shape
  <1> QED
    BY <1>1, <1>2, <1>3, <1>4, <1>5, <1>6, <1>7, <1>8, <1>9, <1>10, <1>11,
       <1>12, <1>13, <1>14, <1>15, <1>16, <1>17, <1>18, <1>19, <1>20, <1>21
       DEF Next, Operators, Advance, Ask, Beat, Faults

-----------------------------------------------------------------------------
\* A step that hands no mission to anyone: rows keep their robots, nobody
\* gains a claim and no handler loads a mission.
Quiet ==
    /\ missionRobot' = missionRobot /\ raced' = raced /\ dedicated' = dedicated
    /\ \A r \in Robots, m \in Missions : Claims(r, m)' => Claims(r, m)
    /\ \A s \in Sessions, m \in Missions : Loaded(s, m)' =>
          /\ Loaded(s, m)
          /\ session'[s].seenRobot = session[s].seenRobot
          /\ session'[s].robot = session[s].robot

\* A quiet step keeps who owns what.
LEMMA QuietKeeps ==
  ASSUME Ownership, Dedication, Quiet
  PROVE  Ownership' /\ Dedication'
  <1>1. Ownership'
    BY DEF Ownership, Quiet
  <1>2. Dedication'
    BY DEF Dedication, Quiet
  <1> QED BY <1>1, <1>2

\* A step that only gives one handler a new state that neither claims nor
\* loads a mission is quiet.
LEMMA QuietHandler ==
  ASSUME TypeOK, NEW s \in Sessions, NEW k \in Handler,
         session' = [session EXCEPT ![s] = k],
         missionRobot' = missionRobot, raced' = raced, dedicated' = dedicated,
         ~ (k.op = "next_task" /\ k.stage = "picked"),
         k.op = "heartbeat" \/ (k.op = "next_task" /\ k.stage = "done") =>
            \A m \in Missions : k.mission = m => Claims(k.robot, m),
         \A r \in Robots, m \in Missions : task'[r] = m => Claims(r, m),
         \A r \in Robots, m \in Missions : robotActive'[r] = m => Claims(r, m)
  PROVE  Quiet
  <1>1. \A x \in Sessions : session'[x] = IF x = s THEN k ELSE session[x]
    BY DEF TypeOK
  <1>2. ASSUME NEW r \in Robots, NEW m \in Missions, Claims(r, m)'
        PROVE  Claims(r, m)
    BY <1>1, <1>2 DEF Claims
  <1>3. ASSUME NEW x \in Sessions, NEW m \in Missions, Loaded(x, m)'
        PROVE  /\ Loaded(x, m)
               /\ session'[x].seenRobot = session[x].seenRobot
               /\ session'[x].robot = session[x].robot
    BY <1>1, <1>3 DEF Loaded
  <1> QED BY <1>2, <1>3 DEF Quiet

\* Every action but the three that create, load or commit a mission is quiet.
LEMMA QuietSteps ==
  ASSUME TypeOK, HandlerShape, TypeOK', [Next]_vars,
         ~ \E m \in Missions, p \in Priorities, r \in Robots \cup {NoRobot} :
              CreateMission(m, p, r),
         ~ \E s \in Sessions, m \in Missions : NextTaskPick(s, m),
         ~ \E s \in Sessions : NextTaskCommit(s)
  PROVE  Quiet
  <1>1. ASSUME NEW r \in Robots, NEW s \in Sessions, RegisterBegin(r, s)
       PROVE  Quiet
    <2> DEFINE k == [Request("register", "loaded", r, NoMission)
                      EXCEPT !.seenRStatus = robotStatus[r]]
    <2>1. session[s] \in Handler /\ Shape(session[s])
      BY DEF TypeOK, HandlerShape
    <2>2. session' = [session EXCEPT ![s] = k] /\ k \in Handler
      BY <1>1 DEF RegisterBegin, TypeOK
    <2>3. k.op = "register"
      BY <1>1, RequestType DEF RegisterBegin, Op, Stage, Handler
    <2> HIDE DEF k
    <2>4. \A q \in Robots, m_1 \in Missions :
             task'[q] = m_1 \/ robotActive'[q] = m_1 => Claims(q, m_1)
      BY <1>1, <2>1 DEF RegisterBegin, Claims, TypeOK, Shape, db, agents
    <2>5. /\ missionRobot' = missionRobot /\ raced' = raced
          /\ dedicated' = dedicated
      BY <1>1 DEF RegisterBegin, db
    <2>6. k.op = "heartbeat" \/ (k.op = "next_task" /\ k.stage = "done") =>
            \A m_1 \in Missions : k.mission = m_1 => Claims(k.robot, m_1)
      BY <1>1, <2>1, <2>3 DEF Claims, OperatorOp
    <2> QED
      BY <2>2, <2>3, <2>4, <2>5, <2>6, QuietHandler DEF OperatorOp
  <1>2. ASSUME NEW s \in Sessions, RegisterCommit(s)
       PROVE  Quiet
    <2> DEFINE k == Finished(session[s], "done")
    <2>1. session[s] \in Handler /\ Shape(session[s])
      BY DEF TypeOK, HandlerShape
    <2>2. session' = [session EXCEPT ![s] = k] /\ k \in Handler
      BY <1>2 DEF RegisterCommit, TypeOK
    <2>3. k.op = "register"
      BY <1>2, <2>1, FinishedType DEF RegisterCommit, Stage
    <2> HIDE DEF k
    <2>4. \A q \in Robots, m_1 \in Missions :
             task'[q] = m_1 \/ robotActive'[q] = m_1 => Claims(q, m_1)
      BY <1>2, <2>1 DEF RegisterCommit, Claims, TypeOK, Shape, agents
    <2>5. /\ missionRobot' = missionRobot /\ raced' = raced
          /\ dedicated' = dedicated
      BY <1>2 DEF RegisterCommit, db
    <2>6. k.op = "heartbeat" \/ (k.op = "next_task" /\ k.stage = "done") =>
            \A m_1 \in Missions : k.mission = m_1 => Claims(k.robot, m_1)
      BY <1>2, <2>1, <2>3 DEF Claims, OperatorOp
    <2> QED
      BY <2>2, <2>3, <2>4, <2>5, <2>6, QuietHandler DEF OperatorOp
  <1>3. ASSUME NEW r \in Robots, NEW s \in Sessions, NextTaskBegin(r, s)
       PROVE  Quiet
    <2> DEFINE k == [Request("next_task", "loaded", r, NoMission)
                      EXCEPT !.seenRStatus = robotStatus[r],
                             !.seenActive = robotActive[r]]
    <2>1. session[s] \in Handler /\ Shape(session[s])
      BY DEF TypeOK, HandlerShape
    <2>2. session' = [session EXCEPT ![s] = k] /\ k \in Handler
      BY <1>3 DEF NextTaskBegin, TypeOK
    <2>3. k.op = "next_task" /\ k.stage = "loaded"
      BY <1>3, RequestType DEF NextTaskBegin, Op, Stage, Handler
    <2> HIDE DEF k
    <2>4. \A q \in Robots, m_1 \in Missions :
             task'[q] = m_1 \/ robotActive'[q] = m_1 => Claims(q, m_1)
      BY <1>3, <2>1 DEF NextTaskBegin, Claims, TypeOK, Shape, db, agents
    <2>5. /\ missionRobot' = missionRobot /\ raced' = raced
          /\ dedicated' = dedicated
      BY <1>3 DEF NextTaskBegin, db
    <2>6. k.op = "heartbeat" \/ (k.op = "next_task" /\ k.stage = "done") =>
            \A m_1 \in Missions : k.mission = m_1 => Claims(k.robot, m_1)
      BY <1>3, <2>1, <2>3 DEF Claims, OperatorOp
    <2> QED
      BY <2>2, <2>3, <2>4, <2>5, <2>6, QuietHandler DEF OperatorOp
  <1>4. ASSUME NEW s \in Sessions, NextTaskNone(s)
       PROVE  Quiet
    <2> DEFINE k == Finished(session[s], "done")
    <2>1. session[s] \in Handler /\ Shape(session[s])
      BY DEF TypeOK, HandlerShape
    <2>2. session' = [session EXCEPT ![s] = k] /\ k \in Handler
      BY <1>4 DEF NextTaskNone, TypeOK
    <2>3. k.mission = NoMission /\ k.op = "next_task" /\ k.stage = "done"
      BY <1>4, <2>1, FinishedType DEF NextTaskNone, Shape, Stage
    <2> HIDE DEF k
    <2>4. \A q \in Robots, m_1 \in Missions :
             task'[q] = m_1 \/ robotActive'[q] = m_1 => Claims(q, m_1)
      BY <1>4, <2>1 DEF NextTaskNone, Claims, TypeOK, Shape, db, agents
    <2>5. /\ missionRobot' = missionRobot /\ raced' = raced
          /\ dedicated' = dedicated
      BY <1>4 DEF NextTaskNone, db
    <2>6. k.op = "heartbeat" \/ (k.op = "next_task" /\ k.stage = "done") =>
            \A m_1 \in Missions : k.mission = m_1 => Claims(k.robot, m_1)
      BY <1>4, <2>1, <2>3 DEF Claims, OperatorOp
    <2> QED
      BY <2>2, <2>3, <2>4, <2>5, <2>6, QuietHandler DEF OperatorOp
  <1>5. ASSUME NEW op \in OperatorOp, NEW m \in Missions, NEW s \in Sessions,
               OperatorBegin(op, m, s)
       PROVE  Quiet
    <2> DEFINE k == [Request(op, "loaded", NoRobot, m)
                      EXCEPT !.seenStatus = missionStatus[m]]
    <2>1. session[s] \in Handler /\ Shape(session[s])
      BY DEF TypeOK, HandlerShape
    <2>2. session' = [session EXCEPT ![s] = k] /\ k \in Handler
      BY <1>5 DEF OperatorBegin, Load, TypeOK
    <2>3. k.op \in OperatorOp
      BY <1>5, RequestType DEF OperatorBegin, Load, Op, Stage, Handler
    <2> HIDE DEF k
    <2>4. \A q \in Robots, m_1 \in Missions :
             task'[q] = m_1 \/ robotActive'[q] = m_1 => Claims(q, m_1)
      BY <1>5, <2>1
         DEF OperatorBegin, Load, Claims, TypeOK, Shape, db, agents, OperatorOp
    <2>5. /\ missionRobot' = missionRobot /\ raced' = raced
          /\ dedicated' = dedicated
      BY <1>5 DEF OperatorBegin, Load, db
    <2>6. k.op = "heartbeat" \/ (k.op = "next_task" /\ k.stage = "done") =>
            \A m_1 \in Missions : k.mission = m_1 => Claims(k.robot, m_1)
      BY <1>5, <2>1, <2>3 DEF Claims, OperatorOp
    <2> QED
      BY <2>2, <2>3, <2>4, <2>5, <2>6, QuietHandler DEF OperatorOp
  <1>6. ASSUME NEW r \in Robots, NEW s \in Sessions, ReportBegin(r, s)
       PROVE  Quiet
    <2> DEFINE k == [Request("complete", "loaded", r, task[r])
                      EXCEPT !.seenStatus = missionStatus[task[r]]]
    <2>1. session[s] \in Handler /\ Shape(session[s])
      BY DEF TypeOK, HandlerShape
    <2>2. session' = [session EXCEPT ![s] = k] /\ k \in Handler
      BY <1>6 DEF ReportBegin, Load, TypeOK
    <2>3. k.op = "complete"
      BY <1>6, RequestType
         DEF ReportBegin, Load, Op, OperatorOp, Stage, Handler, TypeOK
    <2> HIDE DEF k
    <2>4. \A q \in Robots, m_1 \in Missions :
             task'[q] = m_1 \/ robotActive'[q] = m_1 => Claims(q, m_1)
      BY <1>6, <2>1 DEF ReportBegin, Load, Claims, TypeOK, Shape, db, agents
    <2>5. /\ missionRobot' = missionRobot /\ raced' = raced
          /\ dedicated' = dedicated
      BY <1>6 DEF ReportBegin, Load, db
    <2>6. k.op = "heartbeat" \/ (k.op = "next_task" /\ k.stage = "done") =>
            \A m_1 \in Missions : k.mission = m_1 => Claims(k.robot, m_1)
      BY <1>6, <2>1, <2>3 DEF Claims, OperatorOp
    <2> QED
      BY <2>2, <2>3, <2>4, <2>5, <2>6, QuietHandler DEF OperatorOp
  <1>7. ASSUME NEW s \in Sessions, TransitionCommit(s)
       PROVE  Quiet
    <2> DEFINE k == IF session[s].robot = NoRobot THEN Idle
                   ELSE Finished(session[s], "done")
    <2>1. session[s] \in Handler /\ Shape(session[s])
      BY DEF TypeOK, HandlerShape
    <2>2. session' = [session EXCEPT ![s] = k] /\ k \in Handler
      BY <1>7 DEF TransitionCommit, TypeOK
    <2>3. k.op \in OperatorOp \cup {"none"}
      BY <1>7, <2>1, FinishedType, IdleType DEF TransitionCommit, Stage, Op
    <2> HIDE DEF k
    <2>4. \A q \in Robots, m_1 \in Missions :
             task'[q] = m_1 \/ robotActive'[q] = m_1 => Claims(q, m_1)
      BY <1>7, <2>1
         DEF TransitionCommit, Claims, TypeOK, Shape, agents, OperatorOp
    <2>5. /\ missionRobot' = missionRobot /\ raced' = raced
          /\ dedicated' = dedicated
      BY <1>7 DEF TransitionCommit, db
    <2>6. k.op = "heartbeat" \/ (k.op = "next_task" /\ k.stage = "done") =>
            \A m_1 \in Missions : k.mission = m_1 => Claims(k.robot, m_1)
      BY <1>7, <2>1, <2>3 DEF Claims, OperatorOp
    <2> QED
      BY <2>2, <2>3, <2>4, <2>5, <2>6, QuietHandler DEF OperatorOp
  <1>8. ASSUME NEW r \in Robots, NEW s \in Sessions, NEW low \in BOOLEAN,
               HeartbeatSend(r, s, low)
       PROVE  Quiet
    <2> DEFINE k == [Request("heartbeat", "sent", r, task[r])
                      EXCEPT !.reported = Drained(r, low)]
    <2>1. session[s] \in Handler /\ Shape(session[s])
      BY DEF TypeOK, HandlerShape
    <2>2. session' = [session EXCEPT ![s] = k] /\ k \in Handler
      BY <1>8 DEF HeartbeatSend, TypeOK
    <2>3. k.op = "heartbeat" /\ k.robot = r /\ k.mission = task[r]
      <3> DEFINE q == Request("heartbeat", "sent", r, task[r])
      <3>1. task[r] \in Missions \cup {NoMission}
        BY DEF TypeOK
      <3>2. /\ q \in Handler
            /\ q.op = "heartbeat" /\ q.robot = r /\ q.mission = task[r]
        BY <3>1, RequestType DEF Op, OperatorOp, Stage
      <3> QED BY <3>2 DEF Handler
    <2> HIDE DEF k
    <2>4. \A q \in Robots, m_1 \in Missions :
             task'[q] = m_1 \/ robotActive'[q] = m_1 => Claims(q, m_1)
      BY <1>8, <2>1 DEF HeartbeatSend, Claims, TypeOK, Shape, db, agents
    <2>5. /\ missionRobot' = missionRobot /\ raced' = raced
          /\ dedicated' = dedicated
      BY <1>8 DEF HeartbeatSend, db
    <2>6. k.op = "heartbeat" \/ (k.op = "next_task" /\ k.stage = "done") =>
            \A m_1 \in Missions : k.mission = m_1 => Claims(k.robot, m_1)
      BY <1>8, <2>1, <2>3 DEF Claims, OperatorOp
    <2> QED
      BY <2>2, <2>3, <2>4, <2>5, <2>6, QuietHandler DEF OperatorOp
  <1>9. ASSUME NEW s \in Sessions, HeartbeatLoad(s)
       PROVE  Quiet
    <2> DEFINE k == [session[s] EXCEPT !.stage = "loaded",
                      !.seenRStatus = robotStatus[session[s].robot],
                      !.seenActive = robotActive[session[s].robot]]
    <2>1. session[s] \in Handler /\ Shape(session[s])
      BY DEF TypeOK, HandlerShape
    <2>2. session' = [session EXCEPT ![s] = k] /\ k \in Handler
      BY <1>9 DEF HeartbeatLoad, TypeOK
    <2>3. /\ k.op = "heartbeat" /\ session[s].op = "heartbeat"
          /\ k.robot = session[s].robot /\ k.mission = session[s].mission
      BY <1>9, <2>1 DEF HeartbeatLoad, Handler
    <2> HIDE DEF k
    <2>4. \A q \in Robots, m_1 \in Missions :
             task'[q] = m_1 \/ robotActive'[q] = m_1 => Claims(q, m_1)
      BY <1>9, <2>1 DEF HeartbeatLoad, Claims, TypeOK, Shape, db, agents
    <2>5. /\ missionRobot' = missionRobot /\ raced' = raced
          /\ dedicated' = dedicated
      BY <1>9 DEF HeartbeatLoad, db
    <2>6. k.op = "heartbeat" \/ (k.op = "next_task" /\ k.stage = "done") =>
            \A m_1 \in Missions : k.mission = m_1 => Claims(k.robot, m_1)
      BY <1>9, <2>1, <2>3 DEF Claims, OperatorOp
    <2> QED
      BY <2>2, <2>3, <2>4, <2>5, <2>6, QuietHandler DEF OperatorOp
  <1>10. ASSUME NEW s \in Sessions, HeartbeatCommit(s)
       PROVE  Quiet
    <2> DEFINE k == Idle
    <2>1. session[s] \in Handler /\ Shape(session[s])
      BY DEF TypeOK, HandlerShape
    <2>2. session' = [session EXCEPT ![s] = k] /\ k \in Handler
      BY <1>10 DEF HeartbeatCommit, TypeOK
    <2>3. k.op = "none"
      BY <1>10, IdleType DEF HeartbeatCommit
    <2> HIDE DEF k
    <2>4. \A q \in Robots, m_1 \in Missions :
             task'[q] = m_1 \/ robotActive'[q] = m_1 => Claims(q, m_1)
      BY <1>10, <2>1
         DEF HeartbeatCommit, Claims, TypeOK, Shape, db, agents, Flush
    <2>5. /\ missionRobot' = missionRobot /\ raced' = raced
          /\ dedicated' = dedicated
      BY <1>10 DEF HeartbeatCommit, db
    <2>6. k.op = "heartbeat" \/ (k.op = "next_task" /\ k.stage = "done") =>
            \A m_1 \in Missions : k.mission = m_1 => Claims(k.robot, m_1)
      BY <1>10, <2>1, <2>3 DEF Claims, OperatorOp
    <2> QED
      BY <2>2, <2>3, <2>4, <2>5, <2>6, QuietHandler DEF OperatorOp
  <1>11. ASSUME NEW s \in Sessions, Reply(s)
       PROVE  Quiet
    <2> DEFINE k == Idle
    <2>1. session[s] \in Handler /\ Shape(session[s])
      BY DEF TypeOK, HandlerShape
    <2>2. session' = [session EXCEPT ![s] = k] /\ k \in Handler
      BY <1>11 DEF Reply, TypeOK
    <2>3. k.op = "none"
      BY <1>11, IdleType DEF Reply
    <2> HIDE DEF k
    <2>4. \A q \in Robots, m_1 \in Missions :
             task'[q] = m_1 \/ robotActive'[q] = m_1 => Claims(q, m_1)
      BY <1>11, <2>1
         DEF Reply, Claims, TypeOK, Shape, db, agents, Answer, NoAnswer, Ended
    <2>5. /\ missionRobot' = missionRobot /\ raced' = raced
          /\ dedicated' = dedicated
      BY <1>11 DEF Reply, db
    <2>6. k.op = "heartbeat" \/ (k.op = "next_task" /\ k.stage = "done") =>
            \A m_1 \in Missions : k.mission = m_1 => Claims(k.robot, m_1)
      BY <1>11, <2>1, <2>3 DEF Claims, OperatorOp
    <2> QED
      BY <2>2, <2>3, <2>4, <2>5, <2>6, QuietHandler DEF OperatorOp
  <1>12. ASSUME NEW s \in Sessions, HandlerFails(s)
       PROVE  Quiet
    <2> DEFINE k == IF session[s].robot = NoRobot \/ session[s].op = "heartbeat" THEN Idle
                   ELSE Finished(session[s], "failed")
    <2>1. session[s] \in Handler /\ Shape(session[s])
      BY DEF TypeOK, HandlerShape
    <2>2. session' = [session EXCEPT ![s] = k] /\ k \in Handler
      BY <1>12 DEF HandlerFails, TypeOK
    <2>3. (k.op = "none" \/ (k.stage = "failed" /\ k.op # "heartbeat"))
      BY <1>12, <2>1, FinishedType, IdleType DEF HandlerFails, Stage
    <2> HIDE DEF k
    <2>4. \A q \in Robots, m_1 \in Missions :
             task'[q] = m_1 \/ robotActive'[q] = m_1 => Claims(q, m_1)
      BY <1>12, <2>1 DEF HandlerFails, Claims, TypeOK, Shape, db, agents
    <2>5. /\ missionRobot' = missionRobot /\ raced' = raced
          /\ dedicated' = dedicated
      BY <1>12 DEF HandlerFails, db
    <2>6. k.op = "heartbeat" \/ (k.op = "next_task" /\ k.stage = "done") =>
            \A m_1 \in Missions : k.mission = m_1 => Claims(k.robot, m_1)
      BY <1>12, <2>1, <2>3 DEF Claims, OperatorOp
    <2> QED
      BY <2>2, <2>3, <2>4, <2>5, <2>6, QuietHandler DEF OperatorOp
  <1>13. ASSUME NEW r \in Robots, HeartbeatOffline(r)
       PROVE  Quiet
    BY <1>13 DEF HeartbeatOffline, db, agents, Quiet, Claims, Loaded, TypeOK
  <1>14. ASSUME NEW r \in Robots, CallTimeout(r)
       PROVE  Quiet
    BY <1>14
       DEF CallTimeout, NoAnswer, Ended, db, agents, Quiet, Claims, Loaded,
           TypeOK
  <1>15. ASSUME NEW r \in Robots, BeatTimeout(r)
       PROVE  Quiet
    BY <1>15 DEF BeatTimeout, db, Quiet, Claims, Loaded, TypeOK
  <1>16. ASSUME NEW r \in Robots, RobotDies(r)
       PROVE  Quiet
    BY <1>16 DEF RobotDies, db, Quiet, Claims, Loaded, TypeOK
  <1>17. ASSUME Restart
       PROVE  Quiet
    BY <1>17, IdleType DEF Restart, db, Quiet, Claims, Loaded, TypeOK
  <1>18. CASE UNCHANGED vars
    BY <1>18 DEF vars, db, agents, Quiet, Claims, Loaded
  <1> QED
    BY <1>1, <1>2, <1>3, <1>4, <1>5, <1>6, <1>7, <1>8, <1>9, <1>10, <1>11,
       <1>12, <1>13, <1>14, <1>15, <1>16, <1>17, <1>18
       DEF Next, Operators, Advance, Ask, Beat, Faults

-----------------------------------------------------------------------------
\* A mission refers to nothing and nobody to it before its row exists.
LEMMA DanglingStep ==
  ASSUME TypeOK, HandlerShape, NoDanglingMission, [Next]_vars
  PROVE  NoDanglingMission'
  <1>1. ASSUME NEW r \in Robots, NEW s \in Sessions, RegisterBegin(r, s)
       PROVE  NoDanglingMission'
    <2>1. task[r] \in Missions \cup {NoMission}
      BY DEF TypeOK
    <2>2. /\ Request("register", "loaded", r, NoMission) \in Handler
          /\ Request("register", "loaded", r, NoMission).mission = NoMission
      BY <2>1, RequestType DEF Op, OperatorOp, Stage
    <2>3. session'[s].mission = NoMission
      BY <1>1, <2>2 DEF RegisterBegin, TypeOK, Handler
    <2>4. \A x \in Sessions \ {s} : session'[x] = session[x]
      BY <1>1 DEF RegisterBegin, TypeOK
    <2> QED
      BY <1>1, <2>3, <2>4 DEF RegisterBegin, NoDanglingMission, db
  <1>2. ASSUME NEW s \in Sessions, RegisterCommit(s)
       PROVE  NoDanglingMission'
    BY <1>2, FinishedType
       DEF RegisterCommit, Stage, NoDanglingMission, TypeOK, HandlerShape,
           Shape, Handler, db, agents
  <1>3. ASSUME NEW r \in Robots, NEW s \in Sessions, NextTaskBegin(r, s)
       PROVE  NoDanglingMission'
    <2>1. task[r] \in Missions \cup {NoMission}
      BY DEF TypeOK
    <2>2. /\ Request("next_task", "loaded", r, NoMission) \in Handler
          /\ Request("next_task", "loaded", r, NoMission).mission = NoMission
      BY <2>1, RequestType DEF Op, OperatorOp, Stage
    <2>3. session'[s].mission = NoMission
      BY <1>3, <2>2 DEF NextTaskBegin, TypeOK, Handler
    <2>4. \A x \in Sessions \ {s} : session'[x] = session[x]
      BY <1>3 DEF NextTaskBegin, TypeOK
    <2> QED
      BY <1>3, <2>3, <2>4 DEF NextTaskBegin, NoDanglingMission, db
  <1>4. ASSUME NEW s \in Sessions, NEW m \in Missions, NextTaskPick(s, m)
       PROVE  NoDanglingMission'
    BY <1>4
       DEF NextTaskPick, Eligible, NoDanglingMission, TypeOK, HandlerShape,
           Shape, Handler, db, agents
  <1>5. ASSUME NEW s \in Sessions, NextTaskNone(s)
       PROVE  NoDanglingMission'
    BY <1>5, FinishedType
       DEF NextTaskNone, Stage, NoDanglingMission, TypeOK, HandlerShape, Shape,
           Handler, db, agents
  <1>6. ASSUME NEW s \in Sessions, NextTaskCommit(s)
       PROVE  NoDanglingMission'
    BY <1>6, FinishedType
       DEF NextTaskCommit, Flush, Stage, NoDanglingMission, TypeOK,
           HandlerShape, Shape, Handler, db, agents
  <1>7. ASSUME NEW m \in Missions, NEW p \in Priorities, NEW r \in Robots \cup {NoRobot},
               CreateMission(m, p, r)
       PROVE  NoDanglingMission'
    BY <1>7
       DEF CreateMission, NoDanglingMission, TypeOK, HandlerShape, Shape,
           Handler, db, agents
  <1>8. ASSUME NEW op \in OperatorOp, NEW m \in Missions, NEW s \in Sessions,
               OperatorBegin(op, m, s)
       PROVE  NoDanglingMission'
    BY <1>8, RequestType
       DEF OperatorBegin, Load, Op, Stage, NoDanglingMission, TypeOK,
           HandlerShape, Shape, Handler, db, agents
  <1>9. ASSUME NEW r \in Robots, NEW s \in Sessions, ReportBegin(r, s)
       PROVE  NoDanglingMission'
    BY <1>9, RequestType
       DEF ReportBegin, Load, Op, OperatorOp, Stage, NoDanglingMission, TypeOK,
           HandlerShape, Shape, Handler, db, agents
  <1>10. ASSUME NEW s \in Sessions, TransitionCommit(s)
       PROVE  NoDanglingMission'
    BY <1>10, FinishedType, IdleType
       DEF TransitionCommit, Target, Flush, OperatorOp, Stage,
           NoDanglingMission, TypeOK, HandlerShape, Shape, Handler, db, agents
  <1>11. ASSUME NEW r \in Robots, NEW s \in Sessions, NEW low \in BOOLEAN,
                HeartbeatSend(r, s, low)
       PROVE  NoDanglingMission'
    <2>1. task[r] \in Missions \cup {NoMission}
      BY DEF TypeOK
    <2>2. /\ Request("heartbeat", "sent", r, task[r]) \in Handler
          /\ Request("heartbeat", "sent", r, task[r]).mission = task[r]
      BY <2>1, RequestType DEF Op, OperatorOp, Stage
    <2>3. session'[s].mission = task[r]
      BY <1>11, <2>2 DEF HeartbeatSend, TypeOK, Handler
    <2>4. \A x \in Sessions \ {s} : session'[x] = session[x]
      BY <1>11 DEF HeartbeatSend, TypeOK
    <2> QED
      BY <1>11, <2>3, <2>4 DEF HeartbeatSend, NoDanglingMission, db
  <1>12. ASSUME NEW r \in Robots, HeartbeatOffline(r)
       PROVE  NoDanglingMission'
    BY <1>12
       DEF HeartbeatOffline, NoDanglingMission, TypeOK, HandlerShape, Shape,
           Handler, db, agents
  <1>13. ASSUME NEW s \in Sessions, HeartbeatLoad(s)
       PROVE  NoDanglingMission'
    BY <1>13
       DEF HeartbeatLoad, NoDanglingMission, TypeOK, HandlerShape, Shape,
           Handler, db, agents
  <1>14. ASSUME NEW s \in Sessions, HeartbeatCommit(s)
       PROVE  NoDanglingMission'
    BY <1>14, IdleType
       DEF HeartbeatCommit, Flush, NoDanglingMission, TypeOK, HandlerShape,
           Shape, Handler, db, agents
  <1>15. ASSUME NEW s \in Sessions, Reply(s)
       PROVE  NoDanglingMission'
    BY <1>15, IdleType
       DEF Reply, Answer, NoAnswer, Ended, NoDanglingMission, TypeOK,
           HandlerShape, Shape, Handler, db, agents
  <1>16. ASSUME NEW r \in Robots, CallTimeout(r)
       PROVE  NoDanglingMission'
    BY <1>16
       DEF CallTimeout, NoAnswer, Ended, NoDanglingMission, TypeOK,
           HandlerShape, Shape, Handler, db, agents
  <1>17. ASSUME NEW r \in Robots, BeatTimeout(r)
       PROVE  NoDanglingMission'
    BY <1>17
       DEF BeatTimeout, NoDanglingMission, TypeOK, HandlerShape, Shape,
           Handler, db, agents
  <1>18. ASSUME NEW s \in Sessions, HandlerFails(s)
       PROVE  NoDanglingMission'
    BY <1>18, FinishedType, IdleType
       DEF HandlerFails, Stage, NoDanglingMission, TypeOK, HandlerShape, Shape,
           Handler, db, agents
  <1>19. ASSUME Restart
       PROVE  NoDanglingMission'
    BY <1>19, IdleType
       DEF Restart, NoDanglingMission, TypeOK, HandlerShape, Shape, Handler,
           db, agents
  <1>20. ASSUME NEW r \in Robots, RobotDies(r)
       PROVE  NoDanglingMission'
    BY <1>20
       DEF RobotDies, NoDanglingMission, TypeOK, HandlerShape, Shape, Handler,
           db, agents
  <1>21. CASE UNCHANGED vars
    BY <1>21 DEF vars, db, agents, NoDanglingMission
  <1> QED
    BY <1>1, <1>2, <1>3, <1>4, <1>5, <1>6, <1>7, <1>8, <1>9, <1>10, <1>11,
       <1>12, <1>13, <1>14, <1>15, <1>16, <1>17, <1>18, <1>19, <1>20, <1>21
       DEF Next, Operators, Advance, Ask, Beat, Faults

-----------------------------------------------------------------------------
\* Nobody claims or has loaded the mission that is created.
LEMMA CreateKeeps ==
  ASSUME TypeOK, NoDanglingMission, Ownership, Dedication,
         NEW n \in Missions, NEW p \in Priorities,
         NEW o \in Robots \cup {NoRobot}, CreateMission(n, p, o)
  PROVE  Ownership' /\ Dedication'
  <1>1. \A r \in Robots, m \in Missions : Claims(r, m)' <=> Claims(r, m)
    BY DEF CreateMission, Claims, agents
  <1>2. \A s \in Sessions, m \in Missions : Loaded(s, m)' <=> Loaded(s, m)
    BY DEF CreateMission, Loaded
  <1>3. /\ \A r \in Robots : ~ Claims(r, n)
        /\ \A s \in Sessions : ~ Loaded(s, n)
    BY DEF CreateMission, NoDanglingMission, Claims, Loaded
  <1>4. /\ \A m \in Missions \ {n} : /\ missionRobot'[m] = missionRobot[m]
                                     /\ dedicated'[m] = dedicated[m]
        /\ missionRobot'[n] = o /\ dedicated'[n] = o
        /\ raced' = raced /\ session' = session
    BY DEF CreateMission, TypeOK
  <1>5. Ownership'
    BY <1>1, <1>2, <1>3, <1>4 DEF Ownership
  <1>6. Dedication'
    BY <1>1, <1>2, <1>3, <1>4 DEF Dedication
  <1> QED BY <1>5, <1>6

\* A handler loads a mission that is nobody's or its robot's; if another one
\* has loaded it already, the mission is raced from now on.
LEMMA PickKeeps ==
  ASSUME TypeOK, HandlerShape, Ownership, Dedication,
         NEW s \in Sessions, NEW n \in Missions, NextTaskPick(s, n)
  PROVE  Ownership' /\ Dedication'
  <1> DEFINE k == [session[s] EXCEPT !.stage = "picked", !.mission = n,
                                     !.seenStatus = missionStatus[n],
                                     !.seenRobot = missionRobot[n]]
  <1>1. session[s] \in Handler /\ session' = [session EXCEPT ![s] = k]
    BY DEF NextTaskPick, TypeOK
  <1>2. /\ k.op = "next_task" /\ k.stage = "picked" /\ k.mission = n
        /\ k.robot = session[s].robot /\ k.seenRobot = missionRobot[n]
    BY <1>1 DEF NextTaskPick, Handler
  <1> HIDE DEF k
  <1>3. \A x \in Sessions : session'[x] = IF x = s THEN k ELSE session[x]
    BY <1>1 DEF TypeOK
  <1>4. \A r \in Robots, m \in Missions : Claims(r, m)' => Claims(r, m)
    <2>1. task' = task /\ robotActive' = robotActive
      BY DEF NextTaskPick, db, agents
    <2> QED BY <1>2, <1>3, <2>1 DEF Claims
  <1>5. /\ missionRobot' = missionRobot /\ dedicated' = dedicated
        /\ missionRobot[n] \in {session[s].robot, NoRobot}
        /\ session[s].robot \in Robots
    BY DEF NextTaskPick, Eligible, db, HandlerShape, Shape
  <1>6. \A x \in Sessions, m \in Missions :
           Loaded(x, m)' => IF x = s THEN m = n ELSE Loaded(x, m)
    BY <1>2, <1>3 DEF Loaded
  <1>7. ASSUME NEW m \in Missions \ raced'
        PROVE  /\ m \notin raced
               /\ m = n => \A t \in Sessions \ {s} : ~ Loaded(t, n)
    BY DEF NextTaskPick
  <1>8. Ownership'
    <2> SUFFICES ASSUME NEW m \in Missions \ raced'
                 PROVE  /\ \A r \in Robots : Claims(r, m)' => missionRobot'[m] = r
                        /\ \A x \in Sessions : Loaded(x, m)' =>
                             /\ session'[x].seenRobot = missionRobot'[m]
                             /\ missionRobot'[m] \in {session'[x].robot, NoRobot}
                             /\ \A t \in Sessions : Loaded(t, m)' => t = x
      BY DEF Ownership
    <2>1. \A r \in Robots : Claims(r, m)' => missionRobot'[m] = r
      BY <1>4, <1>5, <1>7 DEF Ownership
    <2>2. ASSUME NEW x \in Sessions, Loaded(x, m)'
          PROVE  /\ session'[x].seenRobot = missionRobot'[m]
                 /\ missionRobot'[m] \in {session'[x].robot, NoRobot}
      BY <1>2, <1>3, <1>5, <1>6, <1>7, <2>2 DEF Ownership
    <2>3. ASSUME NEW x \in Sessions, NEW t \in Sessions,
                 Loaded(x, m)', Loaded(t, m)'
          PROVE  t = x
      BY <1>6, <1>7, <2>3 DEF Ownership
    <2> QED BY <2>1, <2>2, <2>3
  <1>9. Dedication'
    BY <1>2, <1>3, <1>4, <1>5, <1>6 DEF Dedication
  <1> QED BY <1>8, <1>9

\* The handler that commits gives the mission to its robot, and the row says so.
LEMMA CommitKeeps ==
  ASSUME TypeOK, HandlerShape, Ownership, Dedication,
         NEW s \in Sessions, NextTaskCommit(s)
  PROVE  /\ Ownership' /\ Dedication'
         /\ \A m \in Missions \ raced : missionRobot[m] # NoRobot =>
               missionRobot'[m] = missionRobot[m]
  <1> DEFINE r == session[s].robot
             n == session[s].mission
  <1>1. /\ session[s] \in Handler /\ r \in Robots /\ n \in Missions
        /\ Loaded(s, n)
    BY DEF NextTaskCommit, TypeOK, HandlerShape, Shape, Loaded
  <1>2. \A x \in Sessions : session'[x] = IF x = s THEN Finished(session[s], "done")
                                          ELSE session[x]
    BY DEF NextTaskCommit, TypeOK
  <1>3. LET k == Finished(session[s], "done")
        IN  k.op = "next_task" /\ k.stage = "done" /\ k.robot = r /\ k.mission = n
    BY <1>1, FinishedType DEF NextTaskCommit, Stage
  <1>4. /\ \A m \in Missions \ {n} : missionRobot'[m] = missionRobot[m]
        /\ missionRobot'[n] \in {r, missionRobot[n]}
        /\ session[s].seenRobot # r => missionRobot'[n] = r
        /\ raced' = raced /\ dedicated' = dedicated /\ task' = task
    BY <1>1 DEF NextTaskCommit, Flush, TypeOK, agents
  <1>5. \A q \in Robots, m \in Missions :
           robotActive'[q] = m => robotActive[q] = m \/ (q = r /\ m = n)
    BY <1>1 DEF NextTaskCommit, Flush, TypeOK
  <1>6. \A q \in Robots, m \in Missions :
           Claims(q, m)' => Claims(q, m) \/ (q = r /\ m = n)
    BY <1>2, <1>3, <1>4, <1>5 DEF Claims
  <1>7. \A x \in Sessions, m \in Missions :
           Loaded(x, m)' => x # s /\ Loaded(x, m) /\ session'[x] = session[x]
    BY <1>2, <1>3 DEF Loaded
  <1>8. n \notin raced => /\ missionRobot'[n] = r
                          /\ missionRobot[n] \in {r, NoRobot}
                          /\ \A x \in Sessions \ {s} : ~ Loaded(x, n)
    BY <1>1, <1>4 DEF Ownership
  <1>9. Ownership'
    BY <1>1, <1>4, <1>6, <1>7, <1>8 DEF Ownership
  <1>10. dedicated[n] # NoRobot => r = dedicated[n]
    BY <1>1 DEF Dedication
  <1>11. Dedication'
    BY <1>1, <1>4, <1>6, <1>7, <1>10 DEF Dedication
  <1> QED BY <1>1, <1>4, <1>8, <1>9, <1>11

\* The inductive invariant holds at the start.
LEMMA InvInit == Init => Inv
  <1> SUFFICES ASSUME Init PROVE Inv
    OBVIOUS
  <1>1. \A r \in Robots, m \in Missions : ~ Claims(r, m)
    BY IdleType DEF Init, Claims
  <1>2. \A s \in Sessions, m \in Missions : ~ Loaded(s, m)
    BY IdleType DEF Init, Loaded
  <1>3. NoDanglingMission
    BY IdleType DEF Init, NoDanglingMission
  <1> QED
    BY <1>1, <1>2, <1>3, TypeInit DEF Init, Inv, Ownership, Dedication

\* The inductive invariant survives every step.
LEMMA InvStep == Inv /\ [Next]_vars => Inv'
  <1> SUFFICES ASSUME Inv, [Next]_vars PROVE Inv'
    OBVIOUS
  <1>1. TypeOK' /\ HandlerShape' /\ NoDanglingMission'
    BY TypeStep, DanglingStep DEF Inv
  <1>2. Ownership' /\ Dedication'
    BY <1>1, CreateKeeps, PickKeeps, CommitKeeps, QuietSteps, QuietKeeps
       DEF Inv
  <1> QED BY <1>1, <1>2 DEF Inv

\* The inductive invariant holds of every behaviour.
THEOREM Invariance == Spec => []Inv
  BY InvInit, InvStep, PTL DEF Spec

\* Type correctness: no handler or agent writes a value a column cannot hold.
THEOREM TypeCorrect == Spec => []TypeOK
  <1>1. Inv => TypeOK
    BY DEF Inv
  <1> QED BY <1>1, Invariance, PTL

\* Two robots audit one mission only if two next-task handlers overlapped on it.
THEOREM ExecutorCorrect == Spec => []RowNamesExecutor
  <1>1. Inv => RowNamesExecutor
    BY DEF Inv, Ownership, Claims, RowNamesExecutor
  <1> QED BY <1>1, Invariance, PTL

\* A mission made for one robot is never given to another one.
THEOREM DedicationCorrect == Spec => []DedicatedMission
  <1>1. Inv => DedicatedMission
    BY DEF Inv, Dedication, Claims, DedicatedMission
  <1> QED BY <1>1, Invariance, PTL

\* The row of a mission never changes owner, overlapping handlers excepted.
THEOREM OwnerCorrect == Spec => OwnerIsFinal
  <1>1. ASSUME Inv, [Next]_vars
        PROVE  [\A m \in Missions \ raced :
                  missionRobot[m] # NoRobot =>
                      missionRobot'[m] = missionRobot[m]]_vars
    <2>1. ASSUME NEW n \in Missions, NEW p \in Priorities,
                 NEW o \in Robots \cup {NoRobot}, CreateMission(n, p, o)
          PROVE  \A m \in Missions \ raced : missionRobot[m] # NoRobot =>
                     missionRobot'[m] = missionRobot[m]
      BY <1>1, <2>1 DEF CreateMission, Inv, NoDanglingMission, TypeOK
    <2>2. ASSUME NEW s \in Sessions, NEW n \in Missions, NextTaskPick(s, n)
          PROVE  missionRobot' = missionRobot
      BY <2>2 DEF NextTaskPick, db
    <2>3. Quiet => missionRobot' = missionRobot
      BY DEF Quiet
    <2> QED
      BY <1>1, <2>1, <2>2, <2>3, CommitKeeps, TypeStep, QuietSteps DEF Inv
  <1> QED BY <1>1, Invariance, PTL DEF Spec, OwnerIsFinal
=============================================================================
