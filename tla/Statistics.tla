------------------------------ MODULE Statistics ------------------------------
(***************************************************************************)
(* The figures the dashboards ask for (reconciliation_repo.py's analytics, *)
(* alert_router.py's and main.py's counts): each is put together from      *)
(* statements that run one after the other in a READ COMMITTED             *)
(* transaction, so that what others commit in between shows in some of     *)
(* them, and from a day that was read off the clock before the first.      *)
(*                                                                         *)
(* reconciliation_results has no writer among the processes that run, so   *)
(* each accuracy is the constant the code gives for an empty table.        *)
(***************************************************************************)
EXTENDS Integers, Sequences, FiniteSetsExt

CONSTANTS
    AlertRows,  \* rows of alerts that come to exist
    Robots,
    Days,       \* the days a trend is asked for, one at least
    MaxRecent,  \* mismatches a dashboard lists
    Absent,
    MaxDay,     \* bound: midnights
    MaxChanges  \* bound: commits of others

VARIABLES
    alerts,    \* rows: [status, severity, day], or Absent
    mission,   \* the status of the warehouse's mission
    robots,    \* the status of each robot
    today,
    query,     \* the handler at work: [what, now, existed, figures], or Absent
    meanwhile, \* commits since it began
    changes

counted    == <<alerts, mission, robots>>
statistics == <<counted, today, query, meanwhile, changes>>

Severity      == {"INFO", "HIGH"}
AlertStatus   == {"OPEN", "ACKNOWLEDGED", "ACTION_REQUIRED", "RESOLVED"}
MissionStatus == {"SCHEDULED", "IN_PROGRESS", "PAUSED", "COMPLETED", "CANCELLED"}
RobotStatus   == {"IDLE", "OFFLINE"}
AlertRow      == [status : AlertStatus, severity : Severity, day : 0 .. MaxDay]

ASSUME StatisticsBounds ==
    /\ IsFiniteSet(AlertRows) /\ IsFiniteSet(Robots) /\ Days \in Nat \ {0}
    /\ {MaxRecent, MaxDay, MaxChanges} \subseteq Nat /\ Absent \notin AlertRow

StatisticsInit ==
    /\ alerts = [a \in AlertRows |-> Absent]
    /\ mission = "SCHEDULED" /\ robots = [r \in Robots |-> "IDLE"]
    /\ today = 0 /\ query = Absent /\ meanwhile = 0 /\ changes = 0

-----------------------------------------------------------------------------
(* The statements.                                                         *)

Raised == {a \in AlertRows : alerts[a] # Absent}
With(statuses) == {a \in Raised : alerts[a].status \in statuses}

\* Counts of OPEN alerts, by severity.
SeverityMap == [s \in Severity |-> Cardinality({a \in With({"OPEN"}) : alerts[a].severity = s})]

\* The latest of them, but for CORRECT_PLACEMENT ones, which nobody raises;
\* rows of one day may come in any order.
Latest(R) ==
    {L \in kSubset(IF Cardinality(R) < MaxRecent THEN Cardinality(R) ELSE MaxRecent, R) :
        \A a \in L, b \in R \ L : alerts[a].day >= alerts[b].day}

\* Percent of b, rounded to tenths, in tenths.
Tenths(a, b, empty) == IF b = 0 THEN empty ELSE (1000 * a + b \div 2) \div b

\* No handler makes a mission FAILED, which would be finished too.
MissionCounts ==
    [finished  |-> IF mission \in {"COMPLETED", "CANCELLED"} THEN 1 ELSE 0,
     completed |-> IF mission = "COMPLETED" THEN 1 ELSE 0,
     active    |-> IF mission = "IN_PROGRESS" THEN 1 ELSE 0]

RobotCounts == [online |-> Cardinality({r \in Robots : robots[r] # "OFFLINE"}),
                total  |-> Cardinality(Robots)]

OpenCount == Cardinality(With({"OPEN", "ACKNOWLEDGED", "ACTION_REQUIRED"}))

\* Missions of each status that has a figure; a paused one is in the total.
MissionStats ==
    [total |-> 1, of |-> [s \in MissionStatus \ {"PAUSED"} |-> IF mission = s THEN 1 ELSE 0]]

\* The score of the three rates less half a point for each open alert, in
\* tenths: 99.2 and 99.5 stand for an accuracy and an uptime of nothing.
Health(f) ==
    LET raw == (4 * 992 + 3 * Tenths(f[1].completed, f[1].finished, 1000)
                        + 3 * Tenths(f[2].online, f[2].total, 995)) \div 10 - 5 * f[3]
    IN Max({0, Min({1000, raw})})

\* Variant: the same number of points, from a day too early.
SinceEarly(now) == now - Days

\* get_accuracy_trend and get_alert_frequency: the first day, from which
\* rows are read and from which the points are counted.
Since(now) == now - (Days - 1)

ByDate(now, S) ==
    [d \in {alerts[a].day : a \in {b \in Raised : alerts[b].day >= Since(now)}} |->
        [s \in S |-> Cardinality({a \in Raised : alerts[a].day = d /\ alerts[a].severity = s})]]

\* One point a day, with nothing for a day that has no row.
Points(now, counts, S) ==
    [i \in 0 .. Days - 1 |->
        LET d == Since(now) + i IN IF d \in DOMAIN counts THEN counts[d] ELSE [s \in S |-> 0]]

\* An INFO alert is in the trend and in no point of the frequency.
Charted == [trend |-> Severity, frequency |-> Severity \ {"INFO"}]

Statements ==
    [dashboard |-> <<"severity", "recent">>, kpis |-> <<"missions", "robots", "open", "health">>,
     trend |-> <<"dates">>, frequency |-> <<"dates">>,
     missionStats |-> <<"by status">>, counts |-> <<"all">>]

\* What a statement may return.
Result(q, statement) ==
    CASE statement = "severity" -> {SeverityMap}
      [] statement = "recent"   -> Latest(With({"OPEN"}))
      [] statement = "missions" -> {MissionCounts}
      [] statement = "robots"   -> {RobotCounts}
      [] statement = "open"     -> {OpenCount}
      [] statement = "health"   -> {Health(q.figures)}
      [] statement = "by status" -> {MissionStats}
      [] statement = "dates"    -> {ByDate(q.now, Charted[q.what])}
      [] statement = "all"      -> {[open |-> Cardinality(With({"OPEN"})),
                                     stats |-> Cardinality(With({"OPEN", "ACKNOWLEDGED"})),
                                     online |-> RobotCounts.online,
                                     active |-> mission \in {"SCHEDULED", "IN_PROGRESS"},
                                     listed |-> mission \in {"IN_PROGRESS", "PAUSED"}]}

-----------------------------------------------------------------------------
Ask(what) ==
    /\ query = Absent
    /\ query' = [what |-> what, now |-> today, existed |-> Raised, figures |-> <<>>]
    /\ meanwhile' = 0
    /\ UNCHANGED <<counted, today, changes>>

ExecuteStatement ==
    /\ query # Absent
    /\ LET done == Len(query.figures) IN
       /\ done < Len(Statements[query.what])
       /\ \E r \in Result(query, Statements[query.what][done + 1]) :
              query' = [query EXCEPT !.figures = Append(@, r)]
    /\ UNCHANGED <<counted, today, meanwhile, changes>>

Complete == query # Absent /\ Len(query.figures) = Len(Statements[query.what])

\* It answers, or at any time raises; main.py's counts then answer {}.
Answer ==
    /\ query # Absent /\ query' = Absent
    /\ UNCHANGED <<counted, today, meanwhile, changes>>

Commits ==
    /\ changes < MaxChanges /\ changes' = changes + 1 /\ meanwhile' = meanwhile + 1
    /\ UNCHANGED <<today, query>>

RaiseAlert(a, severity) ==
    /\ alerts[a] = Absent /\ Commits
    /\ alerts' = [alerts EXCEPT ![a] = [status |-> "OPEN", severity |-> severity, day |-> today]]
    /\ UNCHANGED <<mission, robots>>

SetAlert(a, status) ==
    /\ a \in Raised /\ alerts[a].status # status /\ Commits
    /\ alerts' = [alerts EXCEPT ![a].status = status]
    /\ UNCHANGED <<mission, robots>>

SetMission(status) ==
    /\ mission # status /\ Commits /\ mission' = status
    /\ UNCHANGED <<alerts, robots>>

SetRobot(r, status) ==
    /\ robots[r] # status /\ Commits /\ robots' = [robots EXCEPT ![r] = status]
    /\ UNCHANGED <<alerts, mission>>

Midnight == today < MaxDay /\ today' = today + 1 /\ UNCHANGED <<counted, query, meanwhile, changes>>

StatisticsNext ==
    \/ \E what \in DOMAIN Statements : Ask(what)
    \/ ExecuteStatement \/ Answer \/ Midnight
    \/ \E a \in AlertRows : \/ \E s \in Severity : RaiseAlert(a, s)
                            \/ \E s \in AlertStatus : SetAlert(a, s)
    \/ \E s \in MissionStatus : SetMission(s)
    \/ \E r \in Robots, s \in RobotStatus : SetRobot(r, s)
-----------------------------------------------------------------------------
(* Properties.                                                             *)

\* A trend's or a frequency's points are the Days days that end with the day
\* the call began on, and each counts what was raised on its day: all that
\* existed when the call began, nothing twice, and no more than exists when
\* it answers, even when midnight falls between the clock and the query.
PointsExact ==
    Complete /\ query.what \in DOMAIN Charted =>
        \A i \in 0 .. Days - 1, s \in Charted[query.what] :
            LET of(R) == Cardinality({a \in R : alerts[a].severity = s /\
                                                alerts[a].day = query.now - Days + 1 + i})
                point == Points(query.now, query.figures[1], Charted[query.what])[i][s]
            IN of(query.existed) <= point /\ point <= of(Raised)

\* A dashboard's list and its count differ by no more than what others
\* committed between the two statements; a score stays below what its own
\* count of open alerts takes off.
FiguresAgree ==
    /\ Complete /\ query.what = "dashboard" =>
           LET total  == query.figures[1]["INFO"] + query.figures[1]["HIGH"]
               listed == Cardinality(query.figures[2])
           IN /\ listed <= total + meanwhile
              /\ listed < MaxRecent => total <= listed + meanwhile
    /\ Complete /\ query.what = "kpis" =>
           query.figures[4] <= Max({0, 1000 - 5 * query.figures[3]})

Figures == PointsExact /\ FiguresAgree

StatisticsTypeOK ==
    /\ \A a \in Raised : alerts[a] \in AlertRow
    /\ mission \in MissionStatus /\ robots \in [Robots -> RobotStatus]
    /\ today \in 0 .. MaxDay /\ meanwhile \in 0 .. MaxChanges /\ changes \in 0 .. MaxChanges
    /\ query # Absent => query.existed \subseteq Raised /\ query.now <= today
=============================================================================
