------------------------ MODULE ObservationPipeline ------------------------
(***************************************************************************)
(* From an observation to its alert (observation_router.py).  A request    *)
(* stores its observations in one commit; then, one after another, each is *)
(* announced, compared with what its bin should hold, and announced again  *)
(* as verified or as a mismatch, which raises an alert in a commit of its  *)
(* own.  All of this runs in the one session of the request.               *)
(***************************************************************************)
EXTENDS AlertWorkflow

CONSTANTS
    Requests,    \* the requests senders make; a retry is a request of its own
    Skus,
    None,
    Expected,    \* for each bin what COALESCE(qr_code, sku) may give: the set of
                 \* its SKUs, of which LIMIT 1 takes one, or empty
    Batches,     \* the observations a request may bring
    MaxFaults    \* bound: statements that fail, requests that die, Redis errors

Observation == [bin : Bins, seen : Skus \cup {None}]

ASSUME PipelineAssumption ==
    /\ None \notin Skus /\ Expected \in [Bins -> SUBSET Skus] /\ MaxFaults \in Nat
    /\ \A b \in Batches : b \in Seq(Observation) /\ b # <<>>

VARIABLES
    rows,      \* the observations table
    handler,   \* the ingest handler of each request
    events,    \* what was published, and reached Redis
    outcome,   \* history: how each row was compared
    faults

pipeline == <<rows, handler, events, outcome>>
vars == <<pipeline, workflow, faults>>

Handler == [pc : {"idle", "compare", "raise", "done", "error"},
            first : Nat, last : Nat, at : Nat, expired : BOOLEAN, aborted : BOOLEAN]
Kind == {"observation.raw", "verified", "mismatch"}
Outcome == {"pending", "match", "mismatch", "blind"}

TypeOK ==
    /\ WorkflowTypeOK
    /\ rows \in Seq(Observation) /\ handler \in [Requests -> Handler]
    /\ events \subseteq Kind \X DOMAIN rows
    /\ outcome \in Seq(Outcome) /\ Len(outcome) = Len(rows)
    /\ faults \in 0 .. MaxFaults

Init ==
    /\ WorkflowInit
    /\ rows = <<>> /\ events = {} /\ outcome = <<>> /\ faults = 0
    /\ handler = [r \in Requests |-> [pc |-> "idle", first |-> 0, last |-> 0, at |-> 0,
                                      expired |-> FALSE, aborted |-> FALSE]]

-----------------------------------------------------------------------------
Fault == faults < MaxFaults /\ faults' = faults + 1
NoFault == UNCHANGED faults

\* The request ends in an error.
Failed(h) == [h EXCEPT !.pc = "error"]

\* create_observation, create_observation_batch up to their commit.
Store(r, batch) ==
    /\ handler[r].pc = "idle"
    /\ rows' = rows \o batch
    /\ outcome' = outcome \o [i \in DOMAIN batch |-> "pending"]
    /\ handler' = [handler EXCEPT ![r] =
                      [@ EXCEPT !.pc = "compare", !.first = Len(rows) + 1,
                                !.at = Len(rows) + 1, !.last = Len(rows) + Len(batch)]]
    /\ UNCHANGED <<events, workflow>> /\ NoFault

\* The insert or its commit fails: nothing is stored.
StoreFails(r) ==
    /\ handler[r].pc = "idle"
    /\ handler' = [handler EXCEPT ![r] = Failed(@)]
    /\ UNCHANGED <<rows, events, outcome, workflow>> /\ Fault

\* The handler goes on with the next row, or returns.  The response is read
\* off the rows, which raises if they have expired.
Onward(h) ==
    IF h.at < h.last THEN [h EXCEPT !.at = @ + 1, !.pc = "compare"]
    ELSE [h EXCEPT !.pc = IF h.expired THEN "error" ELSE "done"]

\* The first thing done with a row reads its columns, which an expired row
\* cannot load outside of an await: the rest of the batch is left.
ReadExpired(r) ==
    /\ handler[r].pc = "compare" /\ handler[r].expired
    /\ handler' = [handler EXCEPT ![r] = Failed(@)]
    /\ UNCHANGED <<rows, events, outcome, workflow>> /\ NoFault

\* get_expected_sku and the lookup by bin code.
Lookup(bin) == IF Expected[bin] = {} THEN {None} ELSE Expected[bin]

\* Variant: a bin that is expected empty and seen empty does not match.
MatchesSkus(expected, observed) == expected # None /\ expected = observed

Matches(expected, observed) == expected = observed

\* _process_post_commit_actions up to the alert: "sent" are the events that
\* reach Redis.
Compare(r) ==
    LET h == handler[r]
        o == rows[h.at]
    IN
    /\ h.pc = "compare" /\ ~h.expired
    /\ \E expected \in Lookup(o.bin) \cup {None}, lost \in SUBSET {"raw", "result"} :
           LET blind == h.aborted \/ expected \notin Lookup(o.bin)
               e == IF h.aborted THEN None ELSE expected
               match == Matches(e, o.seen)
               sent == (IF "raw" \in lost THEN {} ELSE {<<"observation.raw", h.at>>})
                       \cup (IF "result" \in lost THEN {}
                             ELSE {<<IF match THEN "verified" ELSE "mismatch", h.at>>})
           IN
           /\ events' = events \cup sent
           /\ outcome' = [outcome EXCEPT ![h.at] =
                             IF blind THEN "blind" ELSE IF match THEN "match" ELSE "mismatch"]
           /\ handler' = [handler EXCEPT ![r] =
                             LET g == [h EXCEPT !.aborted = blind]
                             IN IF match THEN Onward(g) ELSE [g EXCEPT !.pc = "raise"]]
           /\ IF lost # {} \/ (blind /\ ~h.aborted) THEN Fault ELSE NoFault
    /\ UNCHANGED <<rows, workflow>>

\* The alert is inserted and committed.
Raise(r) ==
    LET h == handler[r] IN
    /\ h.pc = "raise" /\ ~h.aborted
    /\ Insert(NewAlert(h.at, rows[h.at].bin))
    /\ handler' = [handler EXCEPT ![r] = Onward(h)]
    /\ UNCHANGED <<rows, events, outcome, missions, call, asked, refused>> /\ NoFault

\* Variant: the failed alert does not touch the request's rows.
RaiseSwallowed(r) ==
    LET h == handler[r] IN
    /\ h.pc = "raise"
    /\ handler' = [handler EXCEPT ![r] = Onward([h EXCEPT !.aborted = FALSE])]
    /\ UNCHANGED <<rows, events, outcome, workflow>>
    /\ IF h.aborted THEN NoFault ELSE Fault

\* The insert or the commit fails, as it does in a transaction that a failed
\* lookup has aborted.  The rollback expires every object of the session.
RaiseFails(r) ==
    LET h == handler[r] IN
    /\ h.pc = "raise"
    /\ handler' = [handler EXCEPT ![r] = Onward([h EXCEPT !.expired = TRUE, !.aborted = FALSE])]
    /\ UNCHANGED <<rows, events, outcome, workflow>>
    /\ IF h.aborted THEN NoFault ELSE Fault

\* The process dies: its handlers end, and nobody goes on with their rows.
Crash ==
    /\ handler' = [r \in Requests |->
                      IF handler[r].pc \in {"compare", "raise"}
                      THEN Failed(handler[r]) ELSE handler[r]]
    /\ call' = [s \in Callers |-> NoCall]
    /\ UNCHANGED <<rows, events, outcome, alerts, missions, asked, refused>> /\ Fault

Ingest(r) ==
    \/ \E batch \in Batches : Store(r, batch)
    \/ StoreFails(r) \/ ReadExpired(r) \/ Compare(r) \/ Raise(r) \/ RaiseFails(r)

Next ==
    \/ \E r \in Requests : Ingest(r)
    \/ Operator /\ UNCHANGED <<pipeline, faults>>
    \/ Crash

Spec == Init /\ [][Next]_vars

-----------------------------------------------------------------------------
(* Properties.                                                             *)

RaisedFor(i) == {a \in DOMAIN alerts : alerts[a].row = i}

\* A sender that is told its request succeeded need not send it again: each
\* of its observations was compared, and each that was found wrong has its
\* alert.  A failed lookup is the exception: the row counts as verified.  What
\* was found is announced as well, if Redis and the lookups did not fail.
AnsweredIsDone ==
    \A r \in Requests : handler[r].pc = "done" =>
        \A i \in handler[r].first .. handler[r].last :
            /\ outcome[i] # "pending"
            /\ outcome[i] = "mismatch" => RaisedFor(i) # {}
            /\ faults = 0 => {k \in Kind : <<k, i>> \in events} =
                   {"observation.raw", IF outcome[i] = "match" THEN "verified" ELSE "mismatch"}

\* No observation raises two alerts, and none is raised for a bin that could
\* only be right.
AlertsAreReal ==
    \A i \in DOMAIN rows :
        /\ \A a, b \in RaisedFor(i) : a = b
        /\ RaisedFor(i) # {} =>
               outcome[i] = "mismatch" /\ Lookup(rows[i].bin) # {rows[i].seen}

-----------------------------------------------------------------------------
(* What makes them inductive.                                              *)

Owned(r) == {i \in DOMAIN rows : handler[r].first <= i /\ i <= handler[r].last}

\* A row is one request's.
Apart == \A r, s \in Requests : r # s => Owned(r) \cap Owned(s) = {}

\* Its rows up to "at" are compared, and those found wrong have their alert,
\* unless the one for "at" is still to come or one has failed.
Progress(r) ==
    LET h == handler[r]
        past(i) == i < h.at \/ (i = h.at /\ h.pc # "compare")
    IN
    /\ {h.first, h.at, h.last} \subseteq Owned(r)
    /\ h.pc = "done" => h.at = h.last /\ ~h.expired
    /\ h.pc = "raise" => /\ RaisedFor(h.at) = {}
                        /\ outcome[h.at] = IF h.aborted THEN "blind" ELSE "mismatch"
    /\ \A i \in Owned(r) :
           /\ past(i) <=> outcome[i] # "pending"
           /\ outcome[i] = "mismatch" /\ ~(h.pc = "raise" /\ i = h.at) /\ ~h.expired =>
                  RaisedFor(i) # {}

InOrder ==
    \A r \in Requests :
        /\ handler[r].last <= Len(rows) /\ (handler[r].pc = "idle" => handler[r].last = 0)
        /\ handler[r].pc \in {"compare", "raise", "done"} => Progress(r)

\* Alerts and events are about rows that were compared.
Told(i) ==
    {k \in Kind : <<k, i>> \in events} =
        {"observation.raw", IF outcome[i] = "match" THEN "verified" ELSE "mismatch"}

Sourced ==
    /\ \A a \in DOMAIN alerts : alerts[a].row \in DOMAIN rows
    /\ \A i \in DOMAIN rows :
           /\ outcome[i] = "mismatch" => Lookup(rows[i].bin) # {rows[i].seen}
           /\ outcome[i] = "pending" => \A k \in Kind : <<k, i>> \notin events
           /\ outcome[i] # "pending" /\ faults = 0 => Told(i)
    /\ faults = 0 => \A r \in Requests : ~handler[r].aborted

Inv ==
    /\ TypeOK /\ StampsAgree /\ LoadedAgrees
    /\ AlertsAreReal /\ Apart /\ InOrder /\ Sourced
=============================================================================
