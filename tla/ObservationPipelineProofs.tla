---------------------- MODULE ObservationPipelineProofs ----------------------
(***************************************************************************)
(* Proofs about the pipeline from observations to alerts, and about the    *)
(* alerts' routes, for every set of bins, SKUs, requests and batches.      *)
(***************************************************************************)
EXTENDS ObservationPipeline, SequenceTheorems, TLAPS

-----------------------------------------------------------------------------
(* The alerts' columns.                                                    *)

\* The unit of work keeps the marks of a row it writes to (alert_router.py).
LEMMA FlushKeeps ==
    ASSUME NEW stored \in Columns, NEW loaded \in Columns, NEW op \in Op,
           Stamped(stored), Stamped(loaded), Older(loaded, stored)
    PROVE  LET c == Flush(stored, loaded, Set(op, loaded)) IN
           c \in Columns /\ Stamped(c) /\ Older(stored, c)
<1> DEFINE set == Set(op, loaded)
           c   == Flush(stored, loaded, set)
<1>1. set \in Columns
  BY DEF Set, Op, Columns, Status, Severity
<1>2. /\ c.status = IF set.status # loaded.status THEN set.status ELSE stored.status
      /\ c.severity = IF set.severity # loaded.severity THEN set.severity ELSE stored.severity
      /\ c.acknowledged = IF set.acknowledged # loaded.acknowledged THEN set.acknowledged
                                                                    ELSE stored.acknowledged
      /\ c.resolved = IF set.resolved # loaded.resolved THEN set.resolved ELSE stored.resolved
      /\ c.rescan = IF set.rescan # loaded.rescan THEN set.rescan ELSE stored.rescan
  BY DEF Flush, Columns
<1>3. c \in Columns
  BY <1>1, <1>2 DEF Flush, Columns
<1> HIDE DEF c
<1>4. Stamped(c) /\ Older(stored, c)
  BY <1>2 DEF Set, Op, Columns, Status, Severity, Stamped, Older
<1> QED  BY <1>3, <1>4 DEF c

\* Marking a row for a rescan keeps its other marks (reconciliation_repo.py).
LEMMA MarkKeeps ==
    ASSUME NEW c \in Columns, Stamped(c)
    PROVE  Mark(c) \in Columns /\ Stamped(Mark(c)) /\ Older(c, Mark(c))
BY DEF Mark, Columns, Status, Severity, Stamped, Older

LEMMA OlderOlder ==
    ASSUME NEW a, NEW b, NEW c, Older(a, b), Older(b, c)
    PROVE  Older(a, c)
BY DEF Older

\* Alerts are never taken away, nor their marks.
Grown(after) ==
    /\ after \in Seq(Alert) /\ Len(after) >= Len(alerts)
    /\ \A a \in DOMAIN alerts : /\ after[a].row = alerts[a].row
                                /\ Older(alerts[a].columns, after[a].columns)

\* What a step of the alerts' routes keeps.
Workflow == WorkflowTypeOK /\ StampsAgree /\ LoadedAgrees

LEMMA WithType ==
    ASSUME NEW alert \in Alert, NEW c \in Columns
    PROVE  With(alert, c) \in Alert /\ With(alert, c).row = alert.row
           /\ With(alert, c).columns = c
BY DEF With, Alert

\* One alert or many are written, each with what was its own.
LEMMA Written ==
    ASSUME Workflow, alerts' \in Seq(Alert), Len(alerts') = Len(alerts),
           \A a \in DOMAIN alerts : /\ alerts'[a].row = alerts[a].row
                                    /\ Stamped(alerts'[a].columns)
                                    /\ Older(alerts[a].columns, alerts'[a].columns),
           NEW s \in Callers, call' = [call EXCEPT ![s] = NoCall],
           missions' \subseteq 1 .. MaxCalls, refused' \subseteq 1 .. MaxCalls, asked' = asked
    PROVE  Workflow' /\ Grown(alerts') /\ Len(alerts') = Len(alerts)
<1>1. call \in [Callers -> Calls \cup {NoCall}] /\ alerts \in Seq(Alert)
  BY DEF Workflow, WorkflowTypeOK
<1>2. DOMAIN alerts' = DOMAIN alerts
  BY <1>1
<1>3. WorkflowTypeOK'
  BY <1>1 DEF Workflow, WorkflowTypeOK
<1>4. StampsAgree'
  BY <1>2 DEF StampsAgree
<1>5. LoadedAgrees'
  <2> SUFFICES ASSUME NEW t \in Callers, call'[t] # NoCall, call'[t].op \in Op
               PROVE  /\ call'[t].alert \in DOMAIN alerts' /\ Stamped(call'[t].loaded)
                      /\ Older(call'[t].loaded, alerts'[call'[t].alert].columns)
    BY DEF LoadedAgrees
  <2>1. call'[t] = call[t]
    BY <1>1
  <2>2. /\ call[t].alert \in DOMAIN alerts /\ Stamped(call[t].loaded)
        /\ Older(call[t].loaded, alerts[call[t].alert].columns)
    BY <2>1 DEF Workflow, LoadedAgrees
  <2> QED  BY <1>2, <2>1, <2>2, OlderOlder
<1> QED  BY <1>1, <1>3, <1>4, <1>5 DEF Workflow, Grown

\* A call that begins has loaded the row as it is.
LEMMA Begun ==
    ASSUME Workflow, NEW s \in Callers, NEW q \in Calls, Begin(s, q),
           q.op \in Op => q.alert \in DOMAIN alerts /\ q.loaded = alerts[q.alert].columns
    PROVE  Workflow' /\ Grown(alerts') /\ Len(alerts') = Len(alerts)
<1>1. call \in [Callers -> Calls \cup {NoCall}] /\ alerts \in Seq(Alert)
      /\ asked \in 0 .. MaxCalls /\ MaxCalls \in Nat
  BY WorkflowAssumption DEF Workflow, WorkflowTypeOK
<1>2. alerts' = alerts /\ call' = [call EXCEPT ![s] = q] /\ asked' \in 0 .. MaxCalls
  BY <1>1 DEF Begin
<1>3. WorkflowTypeOK'
  BY <1>1, <1>2 DEF Workflow, WorkflowTypeOK, Begin
<1>4. StampsAgree'
  BY <1>2 DEF Workflow, StampsAgree
<1>5. LoadedAgrees'
  <2> SUFFICES ASSUME NEW t \in Callers, call'[t] # NoCall, call'[t].op \in Op
               PROVE  /\ call'[t].alert \in DOMAIN alerts' /\ Stamped(call'[t].loaded)
                      /\ Older(call'[t].loaded, alerts'[call'[t].alert].columns)
    BY DEF LoadedAgrees
  <2>1. CASE t = s
    BY <1>1, <1>2, <2>1 DEF Workflow, StampsAgree, Older
  <2>2. CASE t # s
    BY <1>1, <1>2, <2>2 DEF Workflow, LoadedAgrees
  <2> QED  BY <2>1, <2>2
<1>6. Grown(alerts')
  BY <1>1, <1>2 DEF Grown, Older
<1> QED  BY <1>2, <1>3, <1>4, <1>5, <1>6 DEF Workflow

\* The handlers of the alerts' routes (alert_router.py).
LEMMA OperatorKeeps ==
    ASSUME Workflow, Operator
    PROVE  Workflow' /\ Grown(alerts') /\ Len(alerts') = Len(alerts)
<1>1. /\ call \in [Callers -> Calls \cup {NoCall}] /\ alerts \in Seq(Alert)
      /\ missions \subseteq 1 .. MaxCalls /\ refused \subseteq 1 .. MaxCalls
      /\ asked \in 0 .. MaxCalls /\ MaxCalls \in Nat
  BY WorkflowAssumption DEF Workflow, WorkflowTypeOK
<1>2. \A a \in DOMAIN alerts : a \in Nat /\ alerts[a] \in Alert
  BY <1>1
<1>3. \A a \in DOMAIN alerts : alerts[a].columns \in Columns /\ Stamped(alerts[a].columns)
  BY <1>2 DEF Alert, Workflow, StampsAgree
<1>4. ASSUME NEW s \in Callers, NEW a \in DOMAIN alerts, NEW op \in Op, Load(s, op, a)
      PROVE  Workflow' /\ Grown(alerts') /\ Len(alerts') = Len(alerts)
  <2> DEFINE q == [op |-> op, alert |-> a, loaded |-> alerts[a].columns]
  <2>1. q \in Calls
    BY <1>2, <1>3 DEF Calls
  <2>2. Begin(s, q)
    BY <1>4 DEF Load
  <2> QED  BY <2>1, <2>2, Begun
<1>5. ASSUME NEW s \in Callers, NEW marked \in SUBSET Nat, BeginRescan(s, marked)
      PROVE  Workflow' /\ Grown(alerts') /\ Len(alerts') = Len(alerts)
  <2> DEFINE q == [op |-> "rescan", id |-> asked + 1, marked |-> marked]
  <2>1. Begin(s, q)
    BY <1>5 DEF BeginRescan
  <2>2. asked + 1 \in 1 .. MaxCalls
    BY <1>1, <2>1 DEF Begin
  <2>3. q \in Calls /\ q.op \notin Op
    BY <2>2 DEF Calls, Op
  <2> QED  BY <2>1, <2>3, Begun
<1>6. ASSUME NEW s \in Callers,
             (\E a \in DOMAIN alerts : RescanAlert(s, a)) \/ (\E bin \in Bins : RescanBin(s, bin))
      PROVE  Workflow' /\ Grown(alerts') /\ Len(alerts') = Len(alerts)
  BY <1>2, <1>5, <1>6 DEF RescanAlert, RescanBin, Marked
<1>7. ASSUME NEW s \in Callers, Commit(s)
      PROVE  Workflow' /\ Grown(alerts') /\ Len(alerts') = Len(alerts)
  <2> DEFINE q == call[s]
             c == Flush(alerts[q.alert].columns, q.loaded, Set(q.op, q.loaded))
  <2>1. q \in Calls /\ q.op \in Op
    BY <1>1, <1>7 DEF Commit
  <2>2. q.loaded \in Columns
    BY <2>1 DEF Calls, Op
  <2>3. q.alert \in DOMAIN alerts /\ Stamped(q.loaded) /\ Older(q.loaded, alerts[q.alert].columns)
    BY <1>7 DEF Workflow, LoadedAgrees, Commit
  <2>4. c \in Columns /\ Stamped(c) /\ Older(alerts[q.alert].columns, c)
    BY <1>3, <2>1, <2>2, <2>3, FlushKeeps
  <2>5. alerts' = [alerts EXCEPT ![q.alert] = With(@, c)]
    BY <1>7 DEF Commit
  <2>6. call' = [call EXCEPT ![s] = NoCall] /\ UNCHANGED <<missions, asked, refused>>
    BY <1>7 DEF Commit
  <2> HIDE DEF c, q
  <2>7. With(alerts[q.alert], c) \in Alert /\ With(alerts[q.alert], c).row = alerts[q.alert].row
        /\ With(alerts[q.alert], c).columns = c
    BY <1>2, <2>3, <2>4, WithType
  <2>8. alerts' \in Seq(Alert) /\ Len(alerts') = Len(alerts)
    BY <1>1, <2>3, <2>5, <2>7
  <2>9. \A a \in DOMAIN alerts : /\ alerts'[a].row = alerts[a].row
                                 /\ Stamped(alerts'[a].columns)
                                 /\ Older(alerts[a].columns, alerts'[a].columns)
    BY <1>1, <1>3, <2>3, <2>4, <2>5, <2>7 DEF Older
  <2> QED  BY <1>1, <2>6, <2>8, <2>9, Written
<1>8. ASSUME NEW s \in Callers, EndRescan(s)
      PROVE  Workflow' /\ Grown(alerts') /\ Len(alerts') = Len(alerts)
  <2> DEFINE q == call[s]
  <2>1. q \in Calls /\ q.op = "rescan"
    BY <1>1, <1>8 DEF EndRescan
  <2>2. q.id \in 1 .. MaxCalls
    BY <2>1 DEF Calls, Op
  <2>3. missions' \subseteq 1 .. MaxCalls /\ refused' \subseteq 1 .. MaxCalls
        /\ asked' = asked /\ call' = [call EXCEPT ![s] = NoCall]
    BY <1>1, <1>8, <2>2 DEF EndRescan
  <2>4. \A a \in DOMAIN alerts : Older(alerts[a].columns, alerts[a].columns)
    BY DEF Older
  <2>5. \/ UNCHANGED alerts
        \/ alerts' = [a \in DOMAIN alerts |->
                         IF a \in q.marked THEN With(alerts[a], Mark(alerts[a].columns))
                                           ELSE alerts[a]]
    BY <1>8 DEF EndRescan
  <2> HIDE DEF q
  <2>6. \A a \in DOMAIN alerts :
           /\ With(alerts[a], Mark(alerts[a].columns)) \in Alert
           /\ With(alerts[a], Mark(alerts[a].columns)).row = alerts[a].row
           /\ Stamped(With(alerts[a], Mark(alerts[a].columns)).columns)
           /\ Older(alerts[a].columns, With(alerts[a], Mark(alerts[a].columns)).columns)
    BY <1>2, <1>3, MarkKeeps, WithType
  <2>7. alerts' \in Seq(Alert) /\ Len(alerts') = Len(alerts)
    BY <1>1, <1>2, <2>5, <2>6, IsASeq
  <2>8. \A a \in DOMAIN alerts : /\ alerts'[a].row = alerts[a].row
                                 /\ Stamped(alerts'[a].columns)
                                 /\ Older(alerts[a].columns, alerts'[a].columns)
    BY <1>3, <2>4, <2>5, <2>6
  <2> QED  BY <2>3, <2>7, <2>8, Written
<1>9. ASSUME NEW s \in Callers, CallFails(s)
      PROVE  Workflow' /\ Grown(alerts') /\ Len(alerts') = Len(alerts)
  <2>1. \A a \in DOMAIN alerts : Older(alerts[a].columns, alerts[a].columns)
    BY DEF Older
  <2> QED  BY <1>1, <1>3, <1>9, <2>1, Written DEF CallFails
<1> QED  BY <1>4, <1>6, <1>7, <1>8, <1>9 DEF Operator

\* A new alert disturbs no call (observation_router.py).
LEMMA InsertKeeps ==
    ASSUME Workflow, NEW x \in Alert, Stamped(x.columns), Insert(x),
           UNCHANGED <<missions, call, asked, refused>>
    PROVE  Workflow' /\ Grown(alerts') /\ Len(alerts') = Len(alerts) + 1
<1>1. alerts \in Seq(Alert) /\ alerts' = Append(alerts, x)
  BY DEF Workflow, WorkflowTypeOK, Insert
<1>2. /\ alerts' \in Seq(Alert) /\ Len(alerts') = Len(alerts) + 1
      /\ alerts'[Len(alerts) + 1] = x /\ \A a \in DOMAIN alerts : alerts'[a] = alerts[a]
      /\ DOMAIN alerts' = DOMAIN alerts \cup {Len(alerts) + 1}
  BY <1>1
<1>3. WorkflowTypeOK' /\ StampsAgree' /\ LoadedAgrees'
  BY <1>2 DEF Workflow, WorkflowTypeOK, StampsAgree, LoadedAgrees
<1>4. Grown(alerts')
  BY <1>1, <1>2 DEF Grown, Older
<1> QED  BY <1>2, <1>3, <1>4 DEF Workflow

\* No calls, or none that was not there before (a crash, or no step at all).
LEMMA StillKeeps ==
    ASSUME Workflow, UNCHANGED <<alerts, missions, asked, refused>>,
           call' = call \/ call' = [s \in Callers |-> NoCall]
    PROVE  Workflow' /\ Grown(alerts') /\ Len(alerts') = Len(alerts)
<1>1. alerts \in Seq(Alert)
  BY DEF Workflow, WorkflowTypeOK
<1>2. WorkflowTypeOK' /\ StampsAgree' /\ LoadedAgrees'
  BY DEF Workflow, WorkflowTypeOK, StampsAgree, LoadedAgrees
<1> QED  BY <1>1, <1>2 DEF Workflow, Grown, Older

-----------------------------------------------------------------------------
(* The requests.                                                           *)

Pipe == AlertsAreReal /\ Apart /\ InOrder /\ Sourced

\* Alerts that stay, with their rows: no row gains or loses one.
LEMMA SameRaised ==
    ASSUME Workflow, Grown(alerts'), Len(alerts') = Len(alerts)
    PROVE  DOMAIN alerts' = DOMAIN alerts /\ \A i : RaisedFor(i)' = RaisedFor(i)
<1>1. alerts \in Seq(Alert) /\ alerts' \in Seq(Alert)
  BY DEF Workflow, WorkflowTypeOK, Grown
<1>2. DOMAIN alerts' = DOMAIN alerts /\ \A a \in DOMAIN alerts : alerts'[a].row = alerts[a].row
  BY <1>1 DEF Grown
<1> QED  BY <1>2 DEF RaisedFor

\* The alerts' routes are nothing to the requests.
LEMMA OperatorPipe ==
    ASSUME Inv, UNCHANGED <<pipeline, faults>>, Grown(alerts'), Len(alerts') = Len(alerts)
    PROVE  Pipe'
<1>1. DOMAIN alerts' = DOMAIN alerts /\ \A i : RaisedFor(i)' = RaisedFor(i)
  BY SameRaised DEF Inv, TypeOK, Workflow
<1>2. \A a \in DOMAIN alerts : alerts'[a].row = alerts[a].row
  BY DEF Grown
<1>3. \A r \in Requests : Progress(r) => Progress(r)'
  BY <1>1 DEF Progress, pipeline, Owned
<1>4. \A i \in DOMAIN rows : Told(i) => Told(i)'
  BY DEF Told, pipeline
<1>5. AlertsAreReal' /\ Apart' /\ InOrder'
  BY <1>1, <1>3 DEF Inv, AlertsAreReal, Apart, InOrder, Owned, pipeline, Lookup
<1>6. Sourced'
  BY <1>1, <1>2, <1>4 DEF Inv, Sourced, pipeline, Lookup
<1> QED  BY <1>5, <1>6 DEF Pipe

\* A request's step leaves the rows of the others alone.
LEMMA OthersKeep ==
    ASSUME Inv, NEW r \in Requests, NEW h \in Handler, handler' = [handler EXCEPT ![r] = h],
           h.first = handler[r].first, h.last = handler[r].last, rows' = rows,
           h.pc # "idle", h.pc # "error" => Progress(r)',
           \A i \in DOMAIN rows \ Owned(r) :
               outcome'[i] = outcome[i] /\ RaisedFor(i)' = RaisedFor(i)
    PROVE  Apart' /\ InOrder' /\ \A s \in Requests : Owned(s)' = Owned(s)
<1>1. handler \in [Requests -> Handler]
  BY DEF Inv, TypeOK
<1>2. \A s \in Requests : Owned(s)' = Owned(s)
  BY <1>1 DEF Owned
<1>3. Apart'
  BY <1>2 DEF Inv, Apart
<1>4. ASSUME NEW s \in Requests, s # r, Progress(s) PROVE Progress(s)'
  <2>1. handler'[s] = handler[s] /\ Owned(s)' = Owned(s)
    BY <1>1, <1>2, <1>4
  <2>2. \A i \in Owned(s) : outcome'[i] = outcome[i] /\ RaisedFor(i)' = RaisedFor(i)
    BY <1>4 DEF Inv, Apart, Owned
  <2>3. handler[s].at \in Owned(s)
    BY <1>4 DEF Progress
  <2> QED  BY <1>4, <2>1, <2>2, <2>3 DEF Progress
<1>5. InOrder'
  <2>1. \A s \in Requests : s # r => handler'[s] = handler[s]
    BY <1>1
  <2>2. handler'[r] = h
    BY <1>1
  <2> QED  BY <1>4, <2>1, <2>2 DEF Inv, InOrder, Handler
<1> QED  BY <1>2, <1>3, <1>5

LEMMA FailedType ==
    ASSUME NEW h \in Handler
    PROVE  LET g == Failed(h) IN
           g \in Handler /\ g.pc = "error" /\ g.first = h.first /\ g.last = h.last
           /\ g.aborted = h.aborted
BY DEF Failed, Handler

\* A handler goes on with the next row, or ends.
LEMMA OnwardType ==
    ASSUME NEW h \in Handler
    PROVE  LET g == Onward(h) IN
           /\ g \in Handler /\ g.first = h.first /\ g.last = h.last
           /\ g.expired = h.expired /\ g.aborted = h.aborted
           /\ h.at < h.last => g.at = h.at + 1 /\ g.pc = "compare"
           /\ ~(h.at < h.last) => g.at = h.at /\ g.pc = IF h.expired THEN "error" ELSE "done"
<1>1. CASE h.at < h.last
  <2> DEFINE next == h.at + 1
  <2>1. Onward(h) = [h EXCEPT !.at = next, !.pc = "compare"]
    BY <1>1 DEF Onward
  <2>2. next \in Nat
    BY DEF Handler
  <2> HIDE DEF next
  <2>3. LET g == Onward(h) IN
        /\ g \in Handler /\ g.first = h.first /\ g.last = h.last /\ g.at = next
        /\ g.pc = "compare" /\ g.expired = h.expired /\ g.aborted = h.aborted
    BY <2>1, <2>2 DEF Handler
  <2> QED  BY <1>1, <2>3 DEF next
<1>2. CASE ~(h.at < h.last)
  <2> DEFINE end == IF h.expired THEN "error" ELSE "done"
  <2>1. Onward(h) = [h EXCEPT !.pc = end]
    BY <1>2 DEF Onward
  <2>2. end \in {"error", "done"}
    OBVIOUS
  <2> HIDE DEF end
  <2>3. LET g == Onward(h) IN
        /\ g \in Handler /\ g.first = h.first /\ g.last = h.last /\ g.at = h.at /\ g.pc = end
        /\ g.expired = h.expired /\ g.aborted = h.aborted
    BY <2>1, <2>2 DEF Handler
  <2> QED  BY <1>2, <2>3 DEF end
<1> QED  BY <1>1, <1>2

\* What a handler knows while it works.
LEMMA AtWork ==
    ASSUME Inv, NEW r \in Requests, handler[r].pc \in {"compare", "raise"}
    PROVE  /\ handler[r] \in Handler /\ Progress(r)
           /\ handler[r].at \in Owned(r) /\ handler[r].at \in DOMAIN rows /\ handler[r].at \in Nat
           /\ rows[handler[r].at] \in Observation
<1>1. handler \in [Requests -> Handler] /\ rows \in Seq(Observation)
  BY DEF Inv, TypeOK
<1>2. Progress(r)
  BY DEF Inv, InOrder
<1>3. handler[r].at \in Owned(r)
  BY <1>2 DEF Progress
<1>4. handler[r].at \in DOMAIN rows
  BY <1>3 DEF Owned
<1> QED  BY <1>1, <1>2, <1>3, <1>4

\* It goes on when the row it was at has what it needs.
LEMMA OnwardProgress ==
    ASSUME Inv, NEW r \in Requests, handler[r].pc \in {"compare", "raise"},
           NEW g \in Handler, g.first = handler[r].first, g.last = handler[r].last,
           g.at = handler[r].at, handler[r].expired => g.expired,
           handler' = [handler EXCEPT ![r] = Onward(g)], rows' = rows,
           outcome'[g.at] # "pending",
           ~g.expired /\ outcome'[g.at] = "mismatch" => RaisedFor(g.at)' # {},
           \A i \in Owned(r) \ {g.at} : outcome'[i] = outcome[i] /\ RaisedFor(i)' = RaisedFor(i)
    PROVE  LET h == Onward(g) IN
           /\ h \in Handler /\ h.first = handler[r].first /\ h.last = handler[r].last
           /\ h.pc # "idle" /\ (h.pc # "error" => Progress(r)')
<1> DEFINE h == Onward(g)
<1>1. /\ h \in Handler /\ h.first = handler[r].first /\ h.last = handler[r].last
      /\ h.expired = g.expired /\ h.aborted = g.aborted
      /\ g.at < h.last => h.at = g.at + 1 /\ h.pc = "compare"
      /\ ~(g.at < h.last) => h.at = g.at /\ h.pc = IF g.expired THEN "error" ELSE "done"
  BY OnwardType
<1> HIDE DEF h
<1>2. handler \in [Requests -> Handler] /\ handler'[r] = h
  BY DEF Inv, TypeOK, h
<1>3. Owned(r)' = Owned(r)
  BY <1>1, <1>2 DEF Owned
<1>4. Progress(r) /\ g.at \in Owned(r) /\ g.last \in Owned(r) /\ g.first \in Owned(r)
  BY AtWork DEF Progress
<1>5. rows \in Seq(Observation) /\ \A i \in Owned(r) : i \in Nat /\ g.first <= i /\ i <= g.last
  BY DEF Inv, TypeOK, Owned
<1>6. ASSUME h.pc # "error" PROVE Progress(r)'
  <2>1. {h.first, h.at, h.last} \subseteq Owned(r) /\ (h.pc = "done" => h.at = h.last /\ ~h.expired)
    BY <1>1, <1>4, <1>5, <1>6 DEF Owned, Handler
  <2>2. h.pc # "raise"
    BY <1>1
  <2>3. \A i \in Owned(r) : (i < h.at \/ (i = h.at /\ h.pc # "compare")) <=> (i < g.at \/ i = g.at)
    BY <1>1, <1>4, <1>5, <1>6 DEF Handler
  <2>4. ASSUME NEW i \in Owned(r), i # g.at
        PROVE  /\ (i < h.at \/ (i = h.at /\ h.pc # "compare")) <=> outcome'[i] # "pending"
               /\ outcome'[i] = "mismatch" /\ ~h.expired => RaisedFor(i)' # {}
    BY <1>1, <1>4, <2>3, <2>4 DEF Progress
  <2>5. /\ (g.at < h.at \/ (g.at = h.at /\ h.pc # "compare")) <=> outcome'[g.at] # "pending"
        /\ outcome'[g.at] = "mismatch" /\ ~h.expired => RaisedFor(g.at)' # {}
    BY <1>1, <1>4, <2>3
  <2> QED  BY <1>2, <1>3, <2>1, <2>2, <2>4, <2>5 DEF Progress
<1>7. h.pc # "idle"
  BY <1>1
<1> QED  BY <1>1, <1>6, <1>7 DEF h

\* The types of a request's step.
PipeType ==
    /\ rows \in Seq(Observation) /\ handler \in [Requests -> Handler]
    /\ events \subseteq Kind \X DOMAIN rows
    /\ outcome \in Seq(Outcome) /\ Len(outcome) = Len(rows)
    /\ faults \in 0 .. MaxFaults

\* Steps that end requests and compare nothing.
LEMMA EndsKeep ==
    ASSUME Inv, UNCHANGED <<rows, events, outcome>>, faults' \in 0 .. MaxFaults, faults' >= faults,
           Grown(alerts'), Len(alerts') = Len(alerts),
           NEW R \in SUBSET Requests,
           handler' = [r \in Requests |-> IF r \in R THEN Failed(handler[r]) ELSE handler[r]]
    PROVE  PipeType' /\ Pipe'
<1>1. /\ handler \in [Requests -> Handler] /\ rows \in Seq(Observation)
      /\ faults \in 0 .. MaxFaults /\ MaxFaults \in Nat
  BY PipelineAssumption DEF Inv, TypeOK
<1>2. DOMAIN alerts' = DOMAIN alerts /\ \A i : RaisedFor(i)' = RaisedFor(i)
  BY SameRaised DEF Inv, TypeOK, Workflow
<1>3. \A a \in DOMAIN alerts : alerts'[a].row = alerts[a].row
  BY DEF Grown
<1>4. \A r \in Requests : /\ handler'[r] \in Handler /\ handler'[r].first = handler[r].first
                          /\ handler'[r].last = handler[r].last
                          /\ handler'[r].aborted = handler[r].aborted
                          /\ handler'[r] = handler[r] \/ handler'[r].pc = "error"
  BY <1>1, FailedType
<1>5. PipeType'
  BY <1>1, <1>4 DEF Inv, TypeOK, PipeType
<1>6. \A r \in Requests : Owned(r)' = Owned(r)
  BY <1>4 DEF Owned
<1>7. \A r \in Requests : Progress(r) /\ handler'[r] = handler[r] => Progress(r)'
  BY <1>2, <1>6 DEF Progress
<1>8. \A i \in DOMAIN rows : Told(i) => Told(i)'
  BY DEF Told
<1>9. AlertsAreReal' /\ Apart'
  BY <1>2, <1>6 DEF Inv, AlertsAreReal, Apart, Lookup
<1>10. InOrder'
  BY <1>4, <1>7 DEF Inv, InOrder
<1>11. faults' = 0 => faults = 0
  BY <1>1
<1>12. Sourced'
  BY <1>2, <1>3, <1>4, <1>8, <1>11 DEF Inv, Sourced, Lookup
<1> QED  BY <1>5, <1>9, <1>10, <1>12 DEF Pipe

LEMMA Joined ==
    ASSUME NEW S, NEW s \in Seq(S), NEW t \in Seq(S)
    PROVE  /\ s \o t \in Seq(S) /\ Len(s \o t) = Len(s) + Len(t)
           /\ \A i \in 1 .. Len(s) : (s \o t)[i] = s[i]
           /\ \A i \in Len(s) + 1 .. Len(s) + Len(t) : (s \o t)[i] = t[i - Len(s)]
<1>1. Len(s) \in Nat /\ Len(t) \in Nat
  OBVIOUS
<1> QED  BY <1>1, ConcatProperties

\* A request stores its batch (create_observation_batch).
LEMMA StoreKeeps ==
    ASSUME Inv, NEW r \in Requests, NEW batch \in Batches, Store(r, batch)
    PROVE  PipeType' /\ Pipe'
<1> DEFINE n == Len(rows)
           k == Len(batch)
           fresh == [i \in DOMAIN batch |-> "pending"]
           h == handler'[r]
<1>1. /\ handler \in [Requests -> Handler] /\ rows \in Seq(Observation)
      /\ outcome \in Seq(Outcome) /\ Len(outcome) = n
  BY DEF Inv, TypeOK
<1>2. batch \in Seq(Observation) /\ n \in Nat /\ k \in Nat /\ k # 0
  BY <1>1, PipelineAssumption
<1>3. fresh \in Seq(Outcome) /\ Len(fresh) = k /\ \A i \in 1 .. k : fresh[i] = "pending"
  BY <1>2, IsASeq DEF Outcome
<1>4. rows' = rows \o batch /\ outcome' = outcome \o fresh
  BY DEF Store
<1>5. /\ rows' \in Seq(Observation) /\ Len(rows') = n + k
      /\ \A i \in DOMAIN rows : rows'[i] = rows[i]
  BY <1>1, <1>2, <1>4
<1> HIDE DEF fresh
<1>6. /\ outcome' \in Seq(Outcome) /\ Len(outcome') = n + k
      /\ \A i \in 1 .. n : outcome'[i] = outcome[i]
      /\ \A i \in n + 1 .. n + k : outcome'[i] = "pending"
  <2>1. /\ outcome' \in Seq(Outcome) /\ Len(outcome') = n + k
        /\ \A i \in 1 .. n : outcome'[i] = outcome[i]
        /\ \A i \in n + 1 .. n + k : outcome'[i] = fresh[i - n]
    <3>1. Len(fresh) = k /\ Len(outcome) = n
      BY <1>1, <1>3
    <3>2. /\ outcome \o fresh \in Seq(Outcome) /\ Len(outcome \o fresh) = Len(outcome) + Len(fresh)
          /\ \A i \in 1 .. Len(outcome) : (outcome \o fresh)[i] = outcome[i]
          /\ \A i \in Len(outcome) + 1 .. Len(outcome) + Len(fresh) :
                 (outcome \o fresh)[i] = fresh[i - Len(outcome)]
      BY <1>1, <1>3, Joined
    <3> HIDE DEF n, k
    <3> QED  BY <1>4, <3>1, <3>2
  <2>2. \A i \in n + 1 .. n + k : i - n \in 1 .. k
    BY <1>2
  <2> QED  BY <1>3, <2>1, <2>2
<1>7. DOMAIN rows = 1 .. n /\ DOMAIN rows' = 1 .. n + k
  BY <1>1, <1>5
<1>8. /\ handler' \in [Requests -> Handler] /\ \A s \in Requests : s # r => handler'[s] = handler[s]
      /\ h.pc = "compare" /\ h.first = n + 1 /\ h.at = n + 1 /\ h.last = n + k
      /\ h.aborted = handler[r].aborted
  <2> DEFINE first == n + 1
             last  == n + k
             g == [handler[r] EXCEPT !.pc = "compare", !.first = first, !.at = first, !.last = last]
  <2>1. handler' = [handler EXCEPT ![r] = g]
    BY DEF Store
  <2>2. first \in Nat /\ last \in Nat
    BY <1>2
  <2> HIDE DEF first, last
  <2>3. /\ g \in Handler /\ g.pc = "compare" /\ g.first = first /\ g.at = first /\ g.last = last
        /\ g.aborted = handler[r].aborted
    BY <1>1, <2>2 DEF Handler
  <2> HIDE DEF g
  <2>4. h = g /\ handler' \in [Requests -> Handler] /\ \A s \in Requests : s # r => handler'[s] = handler[s]
    BY <1>1, <2>1, <2>3
  <2> QED  BY <2>3, <2>4 DEF first, last
<1> HIDE DEF h
<1>9. UNCHANGED <<events, alerts, faults>>
  BY DEF Store, NoFault, workflow
<1>10. PipeType'
  BY <1>5, <1>6, <1>7, <1>8, <1>9 DEF Inv, TypeOK, PipeType
<1>11. /\ \A i : RaisedFor(i)' = RaisedFor(i)
       /\ \A i \in n + 1 .. n + k : RaisedFor(i) = {}
  BY <1>2, <1>7, <1>9 DEF RaisedFor, Inv, Sourced
<1>12. /\ \A s \in Requests : s # r => Owned(s)' = Owned(s)
       /\ Owned(r)' = n + 1 .. n + k
  <2>1. \A s \in Requests : handler[s].last <= n /\ handler[s].last \in Nat
    BY <1>1 DEF Inv, InOrder, Handler
  <2> QED  BY <1>2, <1>7, <1>8, <2>1 DEF Owned, h
<1>13. \A s \in Requests : Owned(s) \subseteq 1 .. n
  BY <1>7 DEF Owned
<1>14. Apart'
  BY <1>2, <1>12, <1>13 DEF Inv, Apart
<1>15. AlertsAreReal'
  <2> SUFFICES ASSUME NEW i \in DOMAIN rows', NEW a \in RaisedFor(i)'
               PROVE  /\ \A b \in RaisedFor(i)' : a = b
                      /\ outcome'[i] = "mismatch" /\ Lookup(rows'[i].bin) # {rows'[i].seen}
    BY DEF AlertsAreReal, Lookup
  <2>1. RaisedFor(i) = RaisedFor(i)' /\ a \in RaisedFor(i)
    BY <1>11
  <2>2. i \in 1 .. n + k
    BY <1>7
  <2>3. i \notin n + 1 .. n + k
    BY <1>11, <2>1
  <2>4. i \in 1 .. n
    BY <1>2, <2>2, <2>3
  <2>5. rows'[i] = rows[i] /\ outcome'[i] = outcome[i]
    BY <1>5, <1>6, <1>7, <2>4
  <2>6. /\ \A b \in RaisedFor(i) : a = b
        /\ outcome[i] = "mismatch" /\ Lookup(rows[i].bin) # {rows[i].seen}
    BY <1>7, <2>1, <2>4 DEF Inv, AlertsAreReal
  <2> QED  BY <2>1, <2>5, <2>6 DEF Lookup
<1>16. ASSUME NEW s \in Requests, s # r, Progress(s) PROVE Progress(s)'
  <2>1. \A i \in Owned(s) : outcome'[i] = outcome[i]
    BY <1>6, <1>13
  <2>2. handler[s].at \in Owned(s)
    BY <1>16 DEF Progress
  <2> QED  BY <1>8, <1>11, <1>12, <1>16, <2>1, <2>2 DEF Progress
<1>17. Progress(r)'
  <2>1. \A i \in n + 1 .. n + k : ~(i < n + 1)
    BY <1>2
  <2>2. n + 1 \in n + 1 .. n + k /\ n + k \in n + 1 .. n + k
    BY <1>2
  <2> QED  BY <1>6, <1>8, <1>12, <2>1, <2>2 DEF Progress, h
<1>18. InOrder'
  <2>1. ASSUME NEW s \in Requests, s # r
        PROVE  handler'[s].last <= Len(rows')
    BY <1>1, <1>2, <1>5, <1>8, <2>1 DEF Inv, InOrder, Handler
  <2>2. h.last <= Len(rows')
    BY <1>2, <1>5, <1>8
  <2> QED  BY <1>8, <1>16, <1>17, <2>1, <2>2 DEF Inv, InOrder, h
<1>19. Sourced'
  <2>1. ASSUME NEW i \in 1 .. n
        PROVE  /\ outcome'[i] = "mismatch" => Lookup(rows'[i].bin) # {rows'[i].seen}
               /\ outcome'[i] = "pending" => \A q \in Kind : <<q, i>> \notin events'
               /\ outcome'[i] # "pending" /\ faults' = 0 => Told(i)'
    BY <1>5, <1>6, <1>7, <1>9 DEF Inv, Sourced, Lookup, Told
  <2>2. ASSUME NEW i \in n + 1 .. n + k
        PROVE  outcome'[i] = "pending" /\ \A q \in Kind : <<q, i>> \notin events'
    BY <1>2, <1>6, <1>7, <1>9 DEF Inv, TypeOK
  <2>3. \A a \in DOMAIN alerts' : alerts'[a].row \in DOMAIN rows'
    BY <1>2, <1>7, <1>9 DEF Inv, Sourced
  <2>4. faults' = 0 => \A s \in Requests : ~handler'[s].aborted
    BY <1>8, <1>9 DEF Inv, Sourced, h
  <2>5. \A i \in DOMAIN rows' : i \in 1 .. n \/ i \in n + 1 .. n + k
    BY <1>2, <1>7
  <2> QED  BY <2>1, <2>2, <2>3, <2>4, <2>5, <1>5 DEF Sourced, Lookup
<1> QED  BY <1>10, <1>14, <1>15, <1>18, <1>19 DEF Pipe

\* The alert of the row the handler is at is committed.
LEMMA RaiseKeeps ==
    ASSUME Inv, NEW r \in Requests, Raise(r)
    PROVE  Workflow' /\ Grown(alerts') /\ PipeType' /\ Pipe'
<1> DEFINE h == handler[r]
           x == NewAlert(h.at, rows[h.at].bin)
           g == Onward(h)
<1>1. /\ h.pc = "raise" /\ ~h.aborted /\ Insert(x) /\ handler' = [handler EXCEPT ![r] = g]
      /\ UNCHANGED <<rows, events, outcome, missions, call, asked, refused, faults>>
  BY DEF Raise, NoFault
<1>2. /\ h \in Handler /\ Progress(r) /\ h.at \in Owned(r) /\ h.at \in DOMAIN rows /\ h.at \in Nat
      /\ rows[h.at] \in Observation
  BY <1>1, AtWork
<1>3. x \in Alert /\ x.row = h.at /\ Stamped(x.columns)
  <2>1. rows[h.at].bin \in Bins
    BY <1>2 DEF Observation
  <2> QED
    BY <1>2, <2>1 DEF NewAlert, Alert, Columns, Status, Severity, Stamped
<1> HIDE DEF x
<1>4. Workflow
  BY DEF Inv, TypeOK, Workflow
<1>5. Workflow' /\ Grown(alerts')
  BY <1>1, <1>3, <1>4, InsertKeeps
<1>6. handler \in [Requests -> Handler] /\ alerts \in Seq(Alert)
  BY <1>4 DEF Inv, TypeOK, Workflow, WorkflowTypeOK
<1>7. /\ \A i : RaisedFor(i)' = IF i = h.at THEN RaisedFor(i) \cup {Len(alerts) + 1} ELSE RaisedFor(i)
      /\ \A a \in DOMAIN alerts' : alerts'[a].row = h.at \/ \E b \in DOMAIN alerts : alerts'[a].row = alerts[b].row
  <2>1. /\ alerts'[Len(alerts) + 1] = x /\ \A a \in DOMAIN alerts : alerts'[a] = alerts[a]
        /\ DOMAIN alerts' = DOMAIN alerts \cup {Len(alerts) + 1}
        /\ Len(alerts) + 1 \notin DOMAIN alerts
    BY <1>1, <1>3, <1>6 DEF Insert
  <2> HIDE DEF h
  <2> QED  BY <1>3, <2>1 DEF RaisedFor
<1>8. RaisedFor(h.at) = {} /\ outcome[h.at] = "mismatch"
  BY <1>1, <1>2 DEF Progress
<1>9. g \in Handler /\ g.aborted = h.aborted
  BY <1>2, OnwardType
<1>10. /\ g.first = h.first /\ g.last = h.last /\ g.pc # "idle" /\ (g.pc # "error" => Progress(r)')
  BY <1>1, <1>2, <1>7, <1>8, OnwardProgress
<1> HIDE DEF g
<1>11. PipeType'
  BY <1>1, <1>6, <1>9 DEF Inv, TypeOK, PipeType
<1>12. Apart' /\ InOrder'
  BY <1>1, <1>2, <1>7, <1>9, <1>10, OthersKeep
<1>13. AlertsAreReal'
  <2>1. Lookup(rows[h.at].bin) # {rows[h.at].seen}
    BY <1>2, <1>8 DEF Inv, Sourced
  <2>2. ASSUME NEW i \in DOMAIN rows, i # h.at
        PROVE  /\ \A a, b \in RaisedFor(i)' : a = b
               /\ RaisedFor(i)' # {} => outcome[i] = "mismatch" /\ Lookup(rows[i].bin) # {rows[i].seen}
    BY <1>7, <2>2 DEF Inv, AlertsAreReal
  <2>3. \A i : i = h.at => \A a, b \in RaisedFor(i)' : a = b
    BY <1>7, <1>8
  <2> QED  BY <1>1, <1>8, <2>1, <2>2, <2>3 DEF AlertsAreReal, Lookup
<1>14. Sourced'
  <2>1. \A a \in DOMAIN alerts' : alerts'[a].row \in DOMAIN rows
    BY <1>2, <1>7 DEF Inv, Sourced
  <2>2. faults = 0 => \A s \in Requests : ~handler'[s].aborted
    BY <1>1, <1>6, <1>9 DEF Inv, Sourced
  <2>3. \A i \in DOMAIN rows : Told(i)' = Told(i)
    BY <1>1 DEF Told
  <2> QED  BY <1>1, <2>1, <2>2, <2>3 DEF Inv, Sourced, Lookup
<1> QED  BY <1>5, <1>11, <1>12, <1>13, <1>14 DEF Pipe

\* It cannot be committed: the rollback expires the rows.
LEMMA RaiseFailsKeeps ==
    ASSUME Inv, NEW r \in Requests, RaiseFails(r)
    PROVE  Workflow' /\ Grown(alerts') /\ PipeType' /\ Pipe'
<1> DEFINE h == handler[r]
           k == [h EXCEPT !.expired = TRUE, !.aborted = FALSE]
           g == Onward(k)
<1>1. h.pc = "raise" /\ handler' = [handler EXCEPT ![r] = g]
  BY DEF RaiseFails
<1>2. UNCHANGED <<rows, events, outcome, workflow>> /\ (UNCHANGED faults \/ Fault)
  BY DEF RaiseFails, NoFault
<1>3. /\ h \in Handler /\ Progress(r) /\ h.at \in Owned(r) /\ h.at \in DOMAIN rows /\ h.at \in Nat
  BY <1>1, AtWork
<1>4. /\ k \in Handler /\ k.first = h.first /\ k.last = h.last /\ k.at = h.at
      /\ k.expired /\ ~k.aborted
  BY <1>3 DEF Handler
<1> HIDE DEF k
<1>5. Workflow
  BY DEF Inv, TypeOK, Workflow
<1>6. Workflow' /\ Grown(alerts') /\ Len(alerts') = Len(alerts)
  BY <1>2, <1>5, StillKeeps DEF workflow
<1>7. DOMAIN alerts' = DOMAIN alerts /\ \A i : RaisedFor(i)' = RaisedFor(i)
  BY <1>5, <1>6, SameRaised
<1>8. g \in Handler /\ ~g.aborted
  BY <1>4, OnwardType
<1>9. outcome[h.at] # "pending"
  BY <1>1, <1>3 DEF Progress
<1>10. /\ g.first = h.first /\ g.last = h.last /\ g.pc # "idle" /\ (g.pc # "error" => Progress(r)')
  BY <1>1, <1>2, <1>3, <1>4, <1>7, <1>9, OnwardProgress
<1> HIDE DEF g
<1>11. faults' \in 0 .. MaxFaults /\ (faults' = 0 => faults = 0)
  BY <1>2, PipelineAssumption DEF Inv, TypeOK, Fault
<1>12. handler \in [Requests -> Handler]
  BY DEF Inv, TypeOK
<1>13. PipeType'
  BY <1>1, <1>2, <1>8, <1>11, <1>12 DEF Inv, TypeOK, PipeType
<1>14. Apart' /\ InOrder'
  BY <1>1, <1>2, <1>7, <1>8, <1>10, OthersKeep
<1>15. AlertsAreReal'
  BY <1>2, <1>7 DEF Inv, AlertsAreReal, Lookup
<1>16. Sourced'
  <2>1. \A a \in DOMAIN alerts' : alerts'[a].row \in DOMAIN rows
    BY <1>2 DEF Inv, Sourced, workflow
  <2>2. faults' = 0 => \A s \in Requests : ~handler'[s].aborted
    BY <1>1, <1>8, <1>11, <1>12 DEF Inv, Sourced
  <2>3. \A i \in DOMAIN rows : Told(i)' = Told(i)
    BY <1>2 DEF Told
  <2> QED  BY <1>2, <1>11, <2>1, <2>2, <2>3 DEF Inv, Sourced, Lookup
<1> QED  BY <1>6, <1>13, <1>14, <1>15, <1>16 DEF Pipe

\* A row is compared and announced (_process_post_commit_actions).
LEMMA CompareKeeps ==
    ASSUME Inv, NEW r \in Requests, Compare(r)
    PROVE  Workflow' /\ Grown(alerts') /\ PipeType' /\ Pipe'
<1> DEFINE h == handler[r]
           at == h.at
           o == rows[at]
<1>1. h.pc = "compare" /\ ~h.expired /\ UNCHANGED <<rows, workflow>>
  BY DEF Compare
<1>2. /\ h \in Handler /\ Progress(r) /\ at \in Owned(r) /\ at \in DOMAIN rows /\ at \in Nat
  BY <1>1, AtWork
<1>3. /\ handler \in [Requests -> Handler] /\ outcome \in Seq(Outcome) /\ Len(outcome) = Len(rows)
      /\ DOMAIN outcome = DOMAIN rows /\ events \subseteq Kind \X DOMAIN rows
      /\ faults \in 0 .. MaxFaults /\ MaxFaults \in Nat
  BY PipelineAssumption DEF Inv, TypeOK
<1>4. outcome[at] = "pending"
  BY <1>1, <1>2 DEF Progress
<1>5. PICK expected \in Lookup(o.bin) \cup {None}, lost \in SUBSET {"raw", "result"} :
           LET blind == h.aborted \/ expected \notin Lookup(o.bin)
               e == IF h.aborted THEN None ELSE expected
               match == Matches(e, o.seen)
               sent == (IF "raw" \in lost THEN {} ELSE {<<"observation.raw", at>>})
                       \cup (IF "result" \in lost THEN {}
                             ELSE {<<IF match THEN "verified" ELSE "mismatch", at>>})
           IN
           /\ events' = events \cup sent
           /\ outcome' = [outcome EXCEPT ![at] =
                             IF blind THEN "blind" ELSE IF match THEN "match" ELSE "mismatch"]
           /\ handler' = [handler EXCEPT ![r] =
                             LET g == [h EXCEPT !.aborted = blind]
                             IN IF match THEN Onward(g) ELSE [g EXCEPT !.pc = "raise"]]
           /\ IF lost # {} \/ (blind /\ ~h.aborted) THEN Fault ELSE NoFault
  BY DEF Compare
<1> DEFINE blind == h.aborted \/ expected \notin Lookup(o.bin)
           e == IF h.aborted THEN None ELSE expected
           match == Matches(e, o.seen)
           sent == (IF "raw" \in lost THEN {} ELSE {<<"observation.raw", at>>})
                   \cup (IF "result" \in lost THEN {}
                         ELSE {<<IF match THEN "verified" ELSE "mismatch", at>>})
           new == IF blind THEN "blind" ELSE IF match THEN "match" ELSE "mismatch"
           g == [h EXCEPT !.aborted = blind]
           next == IF match THEN Onward(g) ELSE [g EXCEPT !.pc = "raise"]
<1>6. /\ events' = events \cup sent /\ outcome' = [outcome EXCEPT ![at] = new]
      /\ handler' = [handler EXCEPT ![r] = next]
      /\ IF lost # {} \/ (blind /\ ~h.aborted) THEN Fault ELSE NoFault
  BY <1>5
<1>7. blind \in BOOLEAN /\ (~blind => expected \in Lookup(o.bin) /\ e = expected /\ ~h.aborted)
  BY <1>1, <1>2 DEF Handler
<1>8. faults' \in 0 .. MaxFaults /\ (faults' = 0 => faults = 0 /\ lost = {} /\ ~blind)
  <2>1. faults = 0 => ~h.aborted
    BY DEF Inv, Sourced
  <2>2. faults' \in 0 .. MaxFaults /\ (faults' = 0 => faults = 0 /\ NoFault)
    BY <1>3, <1>6 DEF Fault, NoFault
  <2>3. faults' = 0 => ~Fault
    BY <1>3 DEF Fault
  <2> QED  BY <1>6, <2>1, <2>2, <2>3
<1>9. \A k : \A i : <<k, i>> \in sent =>
           i = at /\ k \in Kind /\ k \in {"observation.raw", IF match THEN "verified" ELSE "mismatch"}
  BY DEF Kind
<1>10. sent \subseteq Kind \X {at}
  BY DEF Kind
<1>11. lost = {} => sent = {<<"observation.raw", at>>, <<IF match THEN "verified" ELSE "mismatch", at>>}
  OBVIOUS
<1>12. ~blind /\ ~match => Lookup(o.bin) # {o.seen}
  BY <1>7 DEF Matches
<1> HIDE DEF blind, e, sent
<1>13. /\ g \in Handler /\ g.first = h.first /\ g.last = h.last /\ g.at = at /\ g.pc = "compare"
       /\ g.expired = h.expired /\ g.aborted = blind
  BY <1>1, <1>2, <1>7 DEF Handler
<1> HIDE DEF g, match
<1>14. new \in Outcome /\ new # "pending" /\ (match => new # "mismatch")
       /\ (~match => new = IF blind THEN "blind" ELSE "mismatch")
       /\ (new = "mismatch" => ~blind /\ ~match)
       /\ (~blind => new = IF match THEN "match" ELSE "mismatch")
  BY DEF Outcome
<1> HIDE DEF new
<1>15. /\ outcome' \in Seq(Outcome) /\ Len(outcome') = Len(rows)
       /\ \A i \in DOMAIN rows : outcome'[i] = IF i = at THEN new ELSE outcome[i]
  BY <1>2, <1>3, <1>6, <1>14
<1>16. Workflow
  BY DEF Inv, TypeOK, Workflow
<1>17. Workflow' /\ Grown(alerts') /\ Len(alerts') = Len(alerts)
  BY <1>1, <1>16, StillKeeps DEF workflow
<1>18. \A i : RaisedFor(i)' = RaisedFor(i)
  BY <1>16, <1>17, SameRaised
<1>19. RaisedFor(at) = {}
  BY <1>2, <1>4 DEF Inv, AlertsAreReal
<1>20. /\ next \in Handler /\ next.first = h.first /\ next.last = h.last /\ next.aborted = blind
       /\ next.pc # "idle" /\ (next.pc # "error" => Progress(r)')
  <2>1. CASE match
    <3>1. next = Onward(g)
      BY <2>1
    <3>2. next.aborted = blind
      BY <1>13, <3>1, OnwardType
    <3>3. \A i \in Owned(r) \ {g.at} : outcome'[i] = outcome[i]
      BY <1>13, <1>15 DEF Owned
    <3>4. outcome'[g.at] # "pending" /\ outcome'[g.at] # "mismatch"
      BY <1>2, <1>13, <1>14, <1>15, <2>1
    <3>5. handler' = [handler EXCEPT ![r] = Onward(g)]
      BY <1>6, <3>1
    <3> HIDE DEF next
    <3>6. LET k == Onward(g) IN
          /\ k \in Handler /\ k.first = handler[r].first /\ k.last = handler[r].last
          /\ k.pc # "idle" /\ (k.pc # "error" => Progress(r)')
      BY <1>1, <1>13, <1>18, <3>3, <3>4, <3>5, OnwardProgress
    <3> QED  BY <3>1, <3>2, <3>6
  <2>2. CASE ~match
    <3>1. next = [g EXCEPT !.pc = "raise"]
      BY <2>2
    <3>2. /\ next \in Handler /\ next.first = h.first /\ next.last = h.last /\ next.at = at
          /\ next.aborted = blind /\ next.pc = "raise" /\ next.expired = h.expired
      BY <1>13, <3>1 DEF Handler
    <3> HIDE DEF next
    <3>3. handler'[r] = next
      BY <1>3, <1>6
    <3>4. Owned(r)' = Owned(r)
      BY <1>1, <3>2, <3>3 DEF Owned
    <3>5. \A i \in Owned(r) : i \in DOMAIN rows
      BY DEF Owned
    <3>6. {h.first, at, h.last} \subseteq Owned(r)
      BY <1>2 DEF Progress
    <3>7. /\ \A i : i = at => RaisedFor(i)' = {}
          /\ outcome'[at] = IF next.aborted THEN "blind" ELSE "mismatch"
      BY <1>2, <1>14, <1>15, <1>18, <1>19, <2>2, <3>2
    <3>8. ASSUME NEW i \in Owned(r), i # at
          PROVE  /\ i < at <=> outcome'[i] # "pending"
                 /\ outcome'[i] = "mismatch" => RaisedFor(i)' # {}
      BY <1>1, <1>2, <1>15, <1>18, <3>5, <3>8 DEF Progress
    <3>9. outcome'[at] # "pending"
      BY <1>2, <1>14, <1>15
    <3> QED  BY <1>1, <3>2, <3>3, <3>4, <3>6, <3>7, <3>8, <3>9 DEF Progress
  <2> QED  BY <2>1, <2>2
<1> HIDE DEF next
<1>21. PipeType'
  <2>1. events' \subseteq Kind \X DOMAIN rows'
    BY <1>1, <1>2, <1>3, <1>6, <1>10
  <2>2. handler' \in [Requests -> Handler]
    BY <1>3, <1>6, <1>20
  <2>3. rows' \in Seq(Observation)
    BY <1>1 DEF Inv, TypeOK
  <2> QED  BY <1>1, <1>8, <1>15, <2>1, <2>2, <2>3 DEF PipeType
<1>22. Apart' /\ InOrder'
  <2>1. \A i \in DOMAIN rows \ Owned(r) : outcome'[i] = outcome[i]
    BY <1>2, <1>15
  <2> QED  BY <1>1, <1>6, <1>18, <1>20, <2>1, OthersKeep
<1>23. AlertsAreReal'
  BY <1>1, <1>15, <1>18, <1>19 DEF Inv, AlertsAreReal, Lookup
<1>24. Sourced'
  <2>1. \A a \in DOMAIN alerts' : alerts'[a].row \in DOMAIN rows
    BY <1>1 DEF Inv, Sourced, workflow
  <2>2. faults' = 0 => \A s \in Requests : ~handler'[s].aborted
    BY <1>3, <1>6, <1>8, <1>20 DEF Inv, Sourced
  <2>3. ASSUME NEW i \in DOMAIN rows, i # at
        PROVE  /\ \A k \in Kind : <<k, i>> \in events' <=> <<k, i>> \in events
               /\ outcome'[i] = outcome[i]
    BY <1>6, <1>9, <1>15, <2>3
  <2>4. ASSUME NEW i \in DOMAIN rows, i # at
        PROVE  /\ outcome'[i] = "mismatch" => Lookup(rows[i].bin) # {rows[i].seen}
               /\ outcome'[i] = "pending" => \A k \in Kind : <<k, i>> \notin events'
               /\ outcome'[i] # "pending" /\ faults' = 0 => Told(i)'
    BY <1>8, <2>3, <2>4 DEF Inv, Sourced, Told
  <2>5. ASSUME NEW i \in DOMAIN rows, i = at
        PROVE  /\ outcome'[i] = "mismatch" => Lookup(rows[i].bin) # {rows[i].seen}
               /\ outcome'[i] # "pending"
               /\ faults' = 0 => Told(i)'
    <3>1. outcome'[i] = new
      BY <1>15, <2>5
    <3>2. ASSUME faults' = 0 PROVE Told(i)'
      <4>1. \A k \in Kind : <<k, i>> \notin events
        BY <1>4, <2>5 DEF Inv, Sourced
      <4>2. \A k \in Kind : <<k, i>> \in events' <=>
                k \in {"observation.raw", IF match THEN "verified" ELSE "mismatch"}
        BY <1>6, <1>8, <1>11, <2>5, <3>2, <4>1
      <4>3. (outcome'[i] = "match") <=> match
        BY <1>8, <1>14, <3>1, <3>2
      <4> QED  BY <4>2, <4>3 DEF Told, Kind
    <3> QED  BY <1>12, <1>14, <2>5, <3>1, <3>2
  <2> QED  BY <1>1, <2>1, <2>2, <2>4, <2>5 DEF Sourced, Lookup
<1> QED  BY <1>17, <1>21, <1>22, <1>23, <1>24 DEF Pipe

-----------------------------------------------------------------------------
(* The specification.                                                      *)

LEMMA NextKeeps ==
    ASSUME Inv, [Next]_vars
    PROVE  Inv' /\ Grown(alerts')
<1>1. Workflow /\ MaxFaults \in Nat /\ faults \in 0 .. MaxFaults /\ handler \in [Requests -> Handler]
  BY PipelineAssumption DEF Inv, TypeOK, Workflow
<1>2. ASSUME Workflow', Grown(alerts'), PipeType', Pipe' PROVE Inv' /\ Grown(alerts')
  BY <1>2 DEF Inv, TypeOK, Workflow, PipeType, Pipe
<1>3. ASSUME NEW R \in SUBSET Requests, UNCHANGED <<rows, events, outcome, alerts, missions, asked, refused>>,
             handler' = [r \in Requests |-> IF r \in R THEN Failed(handler[r]) ELSE handler[r]],
             UNCHANGED faults \/ Fault, call' = call \/ call' = [s \in Callers |-> NoCall]
      PROVE  Inv' /\ Grown(alerts')
  <2>1. Workflow' /\ Grown(alerts') /\ Len(alerts') = Len(alerts)
    BY <1>1, <1>3, StillKeeps
  <2>2. faults' \in 0 .. MaxFaults /\ faults' >= faults
    BY <1>1, <1>3 DEF Fault
  <2>3. PipeType' /\ Pipe'
    BY <1>3, <2>1, <2>2, EndsKeep
  <2> QED  BY <1>2, <2>1, <2>3
<1>4. ASSUME NEW r \in Requests, StoreFails(r) \/ ReadExpired(r) PROVE Inv' /\ Grown(alerts')
  <2>1. handler' = [s \in Requests |-> IF s \in {r} THEN Failed(handler[s]) ELSE handler[s]]
    BY <1>1, <1>4 DEF StoreFails, ReadExpired
  <2> QED  BY <1>3, <1>4, <2>1 DEF StoreFails, ReadExpired, NoFault, workflow
<1>5. ASSUME NEW r \in Requests, NEW batch \in Batches, Store(r, batch)
      PROVE  Inv' /\ Grown(alerts')
  <2>1. UNCHANGED workflow
    BY <1>5 DEF Store
  <2>2. Workflow' /\ Grown(alerts')
    BY <1>1, <2>1, StillKeeps DEF workflow
  <2> QED  BY <1>2, <1>5, <2>2, StoreKeeps
<1>6. ASSUME NEW r \in Requests, Compare(r) \/ Raise(r) \/ RaiseFails(r) PROVE Inv' /\ Grown(alerts')
  BY <1>2, <1>6, CompareKeeps, RaiseKeeps, RaiseFailsKeeps
<1>7. CASE Crash
  <2> DEFINE R == {r \in Requests : handler[r].pc \in {"compare", "raise"}}
  <2>1. handler' = [r \in Requests |-> IF r \in R THEN Failed(handler[r]) ELSE handler[r]]
    BY <1>7 DEF Crash
  <2>2. R \in SUBSET Requests
    OBVIOUS
  <2> HIDE DEF R
  <2> QED  BY <1>3, <1>7, <2>1, <2>2 DEF Crash
<1>8. CASE Operator /\ UNCHANGED <<pipeline, faults>>
  <2>1. Workflow' /\ Grown(alerts') /\ Len(alerts') = Len(alerts)
    BY <1>1, <1>8, OperatorKeeps
  <2>2. Pipe'
    BY <1>8, <2>1, OperatorPipe
  <2>3. PipeType'
    BY <1>8 DEF Inv, TypeOK, PipeType, pipeline
  <2> QED  BY <1>2, <2>1, <2>2, <2>3
<1>9. CASE UNCHANGED vars
  <2>1. UNCHANGED workflow /\ UNCHANGED <<pipeline, faults>>
    BY <1>9 DEF vars
  <2>2. Workflow' /\ Grown(alerts') /\ Len(alerts') = Len(alerts)
    BY <1>1, <2>1, StillKeeps DEF workflow
  <2>3. Pipe'
    BY <2>1, <2>2, OperatorPipe
  <2>4. PipeType'
    BY <2>1 DEF Inv, TypeOK, PipeType, pipeline
  <2> QED  BY <1>2, <2>2, <2>3, <2>4
<1> QED  BY <1>4, <1>5, <1>6, <1>7, <1>8, <1>9 DEF Next, Ingest

\* The inductive invariant: alerts are raised once and only for what was
\* found wrong (observation_router.py), and the columns of an alert agree,
\* however the handlers of its routes overlap (alert_router.py).
THEOREM InvCorrect == Spec => []Inv
<1>1. Init => Inv
  <2> SUFFICES ASSUME Init PROVE Inv
    OBVIOUS
  <2>1. alerts = <<>> /\ rows = <<>> /\ outcome = <<>> /\ events = {} /\ faults = 0
        /\ DOMAIN alerts = {} /\ DOMAIN rows = {} /\ Len(rows) = 0 /\ Len(outcome) = 0
    BY DEF Init, WorkflowInit
  <2>2. \A s \in Callers : call[s] = NoCall
    BY DEF Init, WorkflowInit
  <2>3. \A r \in Requests : handler[r].pc = "idle" /\ handler[r].last = 0 /\ ~handler[r].aborted
    BY DEF Init
  <2>4. TypeOK
    BY <2>1, WorkflowAssumption, PipelineAssumption
       DEF Init, WorkflowInit, TypeOK, WorkflowTypeOK, Handler
  <2>5. StampsAgree /\ LoadedAgrees
    BY <2>1, <2>2 DEF StampsAgree, LoadedAgrees
  <2>6. AlertsAreReal /\ Apart /\ Sourced
    BY <2>1, <2>3 DEF AlertsAreReal, Apart, Owned, Sourced
  <2>7. InOrder
    BY <2>1, <2>3 DEF InOrder
  <2> QED  BY <2>4, <2>5, <2>6, <2>7 DEF Inv
<1>2. Inv /\ [Next]_vars => Inv'
  BY NextKeeps
<1> QED  BY <1>1, <1>2, PTL DEF Spec

\* A sender that is answered need not send again: all its observations were
\* compared, and those found wrong have their alert (create_observation).
THEOREM AnsweredCorrect == Spec => []AnsweredIsDone
<1>1. Inv => AnsweredIsDone
  <2> SUFFICES ASSUME Inv, NEW r \in Requests, handler[r].pc = "done",
                      NEW i \in handler[r].first .. handler[r].last
               PROVE  /\ outcome[i] # "pending"
                      /\ outcome[i] = "mismatch" => RaisedFor(i) # {}
                      /\ faults = 0 => Told(i)
    BY DEF AnsweredIsDone, Told
  <2>1. handler[r] \in Handler /\ rows \in Seq(Observation)
    BY DEF Inv, TypeOK
  <2>2. Progress(r)
    BY DEF Inv, InOrder
  <2>3. handler[r].last \in DOMAIN rows /\ handler[r].at = handler[r].last
        /\ handler[r].at \in Owned(r) /\ ~handler[r].expired
    BY <2>2 DEF Progress, Owned
  <2>4. handler[r].first \in Nat /\ handler[r].last \in Nat /\ i \in Nat
        /\ handler[r].first <= i /\ i <= handler[r].last
    BY <2>1 DEF Handler
  <2>5. i \in Owned(r)
    BY <2>1, <2>2, <2>3, <2>4 DEF Progress, Owned
  <2>6. i < handler[r].at \/ i = handler[r].at
    BY <2>3, <2>4
  <2>7. outcome[i] # "pending"
    BY <2>2, <2>5, <2>6 DEF Progress
  <2> QED  BY <2>2, <2>3, <2>5, <2>7 DEF Progress, Inv, Sourced, Owned
<1> QED  BY <1>1, InvCorrect, PTL

\* No handler undoes an escalation or a resolution it has not seen, and no
\* alert is lost (alert_router.py).
THEOREM EscalationCorrect == Spec => EscalationStays
<1>1. Inv /\ [Next]_vars => [\A a \in DOMAIN alerts :
           /\ a \in DOMAIN alerts' /\ alerts'[a].row = alerts[a].row
           /\ alerts[a].columns.severity = "CRITICAL" => alerts'[a].columns.severity = "CRITICAL"
           /\ alerts[a].columns.resolved => alerts'[a].columns.resolved]_alerts
  <2> SUFFICES ASSUME Inv, [Next]_vars, NEW a \in DOMAIN alerts
               PROVE  /\ a \in DOMAIN alerts' /\ alerts'[a].row = alerts[a].row
                      /\ alerts[a].columns.severity = "CRITICAL" => alerts'[a].columns.severity = "CRITICAL"
                      /\ alerts[a].columns.resolved => alerts'[a].columns.resolved
    OBVIOUS
  <2>1. Grown(alerts') /\ alerts \in Seq(Alert)
    BY NextKeeps DEF Inv, TypeOK, WorkflowTypeOK
  <2>2. a \in DOMAIN alerts'
    BY <2>1 DEF Grown
  <2> QED  BY <2>1, <2>2 DEF Grown, Older
<1> QED  BY <1>1, InvCorrect, PTL DEF Spec, EscalationStays
=============================================================================
