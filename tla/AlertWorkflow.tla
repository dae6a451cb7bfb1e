--------------------------- MODULE AlertWorkflow ---------------------------
(***************************************************************************)
(* The alerts table and the routes that work on it (alert_router.py), with *)
(* the rescan that an alert asks for (reconciliation_repo.py).             *)
(*                                                                         *)
(* A handler loads a row, awaits, and commits; the commit writes the       *)
(* columns whose value differs from the one loaded.  No handler looks at   *)
(* the present status, and none locks the row.                             *)
(***************************************************************************)
EXTENDS Naturals, FiniteSets, Sequences

CONSTANTS
    Bins,
    Callers,     \* the sessions operators' calls run in
    NoCall,
    MaxCalls     \* bound: calls made

VARIABLES
    alerts,    \* the alerts table, in the order of the commits
    missions,  \* ids of the rescan missions
    call,      \* the handler that runs in each session
    asked,     \* how many calls were made, which numbers the missions' ids
    refused    \* rescans that ended with an error

workflow == <<alerts, missions, call, asked, refused>>

Status == {"OPEN", "ACKNOWLEDGED", "ACTION_REQUIRED", "RESOLVED", "DISMISSED"}
Severity == {"HIGH", "CRITICAL"}
Columns == [status : Status, severity : Severity,
            acknowledged : BOOLEAN, resolved : BOOLEAN, rescan : BOOLEAN]
Op == {"acknowledge", "resolve", "escalate", "dismiss"}

\* A row: its columns, and the observation it was raised for.
NewAlert(row, bin) ==
    [row |-> row, bin |-> bin,
     columns |-> [status |-> "OPEN", severity |-> "HIGH", acknowledged |-> FALSE,
                  resolved |-> FALSE, rescan |-> FALSE]]

Alert == [row : Nat, bin : Bins, columns : Columns]

Calls == [op : Op, alert : Nat, loaded : Columns]
         \cup [op : {"rescan"}, id : 1 .. MaxCalls, marked : SUBSET Nat]

ASSUME WorkflowAssumption == NoCall \notin Calls /\ MaxCalls \in Nat

WorkflowTypeOK ==
    /\ alerts \in Seq(Alert) /\ missions \subseteq 1 .. MaxCalls
    /\ call \in [Callers -> Calls \cup {NoCall}]
    /\ asked \in 0 .. MaxCalls /\ refused \subseteq 1 .. MaxCalls

WorkflowInit ==
    /\ alerts = <<>> /\ missions = {} /\ asked = 0 /\ refused = {}
    /\ call = [s \in Callers |-> NoCall]

-----------------------------------------------------------------------------
Insert(alert) == alerts' = Append(alerts, alert)

\* What a handler sets on the row it has loaded.  assign_alert does what
\* acknowledge_alert does and names a user.
Set(op, c) ==
    CASE op = "acknowledge" -> [c EXCEPT !.status = "ACKNOWLEDGED", !.acknowledged = TRUE]
      [] op = "resolve"     -> [c EXCEPT !.status = "RESOLVED", !.resolved = TRUE]
      [] op = "escalate"    -> [c EXCEPT !.severity = "CRITICAL"]
      [] op = "dismiss"     -> [c EXCEPT !.status = "DISMISSED"]

\* Variant: every column is written back.
FlushRow(stored, loaded, set) == set

\* The unit of work writes the columns that changed.
Flush(stored, loaded, set) ==
    [k \in DOMAIN stored |-> IF set[k] # loaded[k] THEN set[k] ELSE stored[k]]

\* The row with its columns written.
With(alert, columns) == [alert EXCEPT !.columns = columns]

Begin(s, q) ==
    /\ call[s] = NoCall /\ asked < MaxCalls
    /\ asked' = asked + 1
    /\ call' = [call EXCEPT ![s] = q]
    /\ UNCHANGED <<alerts, missions, refused>>

Load(s, op, a) == Begin(s, [op |-> op, alert |-> a, loaded |-> alerts[a].columns])

Commit(s) ==
    /\ call[s] # NoCall /\ call[s].op \in Op
    /\ LET q == call[s] IN
       alerts' = [alerts EXCEPT ![q.alert] =
                     With(@, Flush(@.columns, q.loaded, Set(q.op, q.loaded)))]
    /\ call' = [call EXCEPT ![s] = NoCall]
    /\ UNCHANGED <<missions, asked, refused>>

-----------------------------------------------------------------------------
(* Rescans.  Both rescan routes are those of reconciliation_router, which  *)
(* is included before alert_router.                                        *)

Marked(bin) ==
    {a \in DOMAIN alerts : alerts[a].bin = bin /\
                           alerts[a].columns.status \in {"OPEN", "ACKNOWLEDGED"}}

BeginRescan(s, marked) == Begin(s, [op |-> "rescan", id |-> asked + 1, marked |-> marked])

\* request_bin_rescan
RescanBin(s, bin) == BeginRescan(s, Marked(bin))

\* request_alert_rescan: the alert itself is marked whatever its status.
RescanAlert(s, a) == BeginRescan(s, Marked(alerts[a].bin) \cup {a})

\* The rows create_rescan_mission adds to its session.
Added(id) == <<id, id>>

Insertable(ids) ==
    /\ \A i, j \in DOMAIN ids : ids[i] = ids[j] => i = j
    /\ \A i \in DOMAIN ids : ids[i] \notin missions

\* The columns of an alert a rescan is under way for.
Mark(c) == [c EXCEPT !.status = "ACTION_REQUIRED", !.rescan = TRUE]

\* The commit inserts what was added, or rolls everything back.
EndRescan(s) ==
    /\ call[s] # NoCall /\ call[s].op = "rescan"
    /\ LET q == call[s]
       IN IF Insertable(Added(q.id))
          THEN /\ missions' = missions \cup {q.id}
               /\ alerts' = [a \in DOMAIN alerts |->
                                IF a \in q.marked
                                THEN With(alerts[a], Mark(alerts[a].columns)) ELSE alerts[a]]
               /\ UNCHANGED refused
          ELSE /\ refused' = refused \cup {q.id}
               /\ UNCHANGED <<alerts, missions>>
    /\ call' = [call EXCEPT ![s] = NoCall]
    /\ UNCHANGED asked

\* A handler raises, or its commit fails.
CallFails(s) ==
    /\ call[s] # NoCall
    /\ call' = [call EXCEPT ![s] = NoCall]
    /\ UNCHANGED <<alerts, missions, asked, refused>>

Operator ==
    \E s \in Callers :
        \/ \E a \in DOMAIN alerts : RescanAlert(s, a) \/ \E op \in Op : Load(s, op, a)
        \/ \E bin \in Bins : RescanBin(s, bin)
        \/ Commit(s) \/ EndRescan(s) \/ CallFails(s)

-----------------------------------------------------------------------------
(* Properties.                                                             *)

\* The status of an alert and what else its routes record agree, although
\* overlapping handlers each write only what they found changed.
Stamped(c) ==
    /\ c.status = "ACKNOWLEDGED" => c.acknowledged
    /\ c.status = "RESOLVED" => c.resolved
    /\ c.status = "ACTION_REQUIRED" => c.rescan

StampsAgree == \A a \in DOMAIN alerts : Stamped(alerts[a].columns)

\* What a handler has loaded agreed as well, and no mark has been taken off
\* the row since.
Older(loaded, c) ==
    /\ loaded.acknowledged => c.acknowledged
    /\ loaded.resolved => c.resolved
    /\ loaded.rescan => c.rescan
    /\ loaded.severity = "CRITICAL" => c.severity = "CRITICAL"

LoadedAgrees ==
    \A s \in Callers :
        LET q == call[s] IN
        q # NoCall /\ q.op \in Op =>
            /\ q.alert \in DOMAIN alerts
            /\ Stamped(q.loaded) /\ Older(q.loaded, alerts[q.alert].columns)

\* An escalation is not undone by a handler that had loaded the row before
\* it, and no alert is lost or raised a second time.
EscalationStays ==
    [][\A a \in DOMAIN alerts :
           /\ a \in DOMAIN alerts' /\ alerts'[a].row = alerts[a].row
           /\ alerts[a].columns.severity = "CRITICAL" => alerts'[a].columns.severity = "CRITICAL"
           /\ alerts[a].columns.resolved => alerts'[a].columns.resolved]_alerts

\* request_bin_rescan, "Create a targeted SCHEDULED rescan mission": a rescan
\* whose handler does not fail schedules its mission.
RescanIsScheduled == refused = {}
=============================================================================
