------------------------------- MODULE ScanRun -------------------------------
(***************************************************************************)
(* One run of the command line scanner (scan.py): it registers a mission,  *)
(* plans the bins of a scope, sends the robot from rack to rack over ROS,  *)
(* photographs each rack, posts an observation and perhaps an alert for    *)
(* every bin, and completes the mission.                                   *)
(*                                                                         *)
(* Three threads: the run, the ROS spin thread that hears "Reached ..." and *)
(* sets an event the run waits on, and the heartbeats.  The backend answers *)
(* a post, refuses it, or is too slow: then the run goes on as if it had   *)
(* failed and the backend handles it later, if ever.  An observation is    *)
(* compared there too, with what the bins table has for the bin, and an    *)
(* alert raised that the run never hears of.                               *)
(***************************************************************************)
EXTENDS Naturals, SequencesExt, FiniteSetsExt

CONSTANTS
    ScanRacks, Bins, Labels,
    Topology,     \* the racks in the API's order, as [rack, aisle, bins]
    FirstRack,    \* A1-RK1, the rack taken when the topology is not known
    Inventory,    \* inventory.sku: bin -> the code expected in it, where there is one
    QrCode,       \* bins.qr_code: bin -> the code the backend compares with, or None
    Scopes,       \* the command lines: [scope, target]
    Within,       \* Within[r]: the racks whose name begins with that of r
    None, Demo,   \* no value; the bin made up when nothing is known
    Wrong,        \* WRONG-QR-999
    MaxCallFaults \* bound: refused or slow calls

\* What the argument parser lets through.
CommandLine(r) ==
    r.scope \in {"full", "rack", "aisle", "bin"} /\ (r.scope # "full" => r.target # None)

ASSUME ScanAssumption ==
    /\ \A r \in Scopes : CommandLine(r)
    /\ Topology \in Seq([rack : ScanRacks, aisle : {"A1", "A2"}, bins : Seq(Bins)])
    /\ \A i, j \in DOMAIN Topology :    \* no bin is listed twice
           \A k \in DOMAIN Topology[i].bins, l \in DOMAIN Topology[j].bins :
               Topology[i].bins[k] = Topology[j].bins[l] => i = j /\ k = l
    /\ IsFiniteSet(Bins) /\ FirstRack \in ScanRacks
    /\ DOMAIN Inventory \subseteq Bins /\ \A b \in DOMAIN Inventory : Inventory[b] \in Labels
    /\ QrCode \in [Bins \cup {Demo} -> Labels \cup {None}]
    /\ Demo \notin Bins /\ Wrong \notin Labels /\ None \notin Labels \cup {Wrong}
    /\ None \notin Nat \cup ScanRacks /\ None # "COMPLETED"
    /\ Within \in [ScanRacks -> SUBSET ScanRacks] /\ \A r \in ScanRacks : r \in Within[r]
    /\ MaxCallFaults \in Nat

VARIABLES
    pc,
    request,   \* the command line
    inventory, \* the expected codes fetched, empty when the call failed
    plan,      \* racks still to do, each [rack, bins]
    detected,  \* what the camera made of the present rack: bin -> code
    results,   \* all_results
    target, event, \* _reached_target and _reached_event
    hearing,   \* the spin thread has matched a message and is about to set
    topic,     \* "Reached" messages under way
    drive,     \* where the robot stands and where it goes
    ros,       \* there is a ROS to drive with
    earlier,   \* history: the rack an earlier run had sent it to
    mission, missionId, \* the backend's mission, and what the run knows of it
    stored, alerts,     \* per bin, the run's observations and alerts stored
    raised,    \* per bin, the alerts stored by the ingest of its observations
    late,      \* calls that timed out and that the backend has not handled
    shown,     \* where the heartbeats say the robot is: the rack
    beating,   \* the heartbeat thread runs
    exit,      \* what the process returned
    callFaults

nav  == <<target, event, hearing, topic, drive, ros, earlier>>
api  == <<mission, stored, alerts, raised, late, callFaults>>
work == <<request, inventory, plan, detected, results, missionId>>
scan == <<pc, work, nav, api, shown, beating, exit>>

AllBins == Bins \cup {Demo}
Seen    == Labels \cup {Wrong, None}
Effect  == [what : {"create", "observe", "alert", "complete"}, bin : AllBins \cup {None},
            seen : Seen]
Result  == [bin : AllBins, rack : ScanRacks, expected : Labels \cup {None}, observed : Seen,
            error : BOOLEAN, at : ScanRacks \cup {None}]

ScanRunTypeOK ==
    /\ pc \in {"create", "topology", "next", "wait", "camera", "bin", "alert", "report", "done"}
    /\ request \in Scopes
    /\ DOMAIN inventory \subseteq AllBins
    /\ plan \in Seq([rack : ScanRacks, bins : Seq(AllBins)])
    /\ results \in Seq(Result)
    /\ target \in ScanRacks \cup {None} /\ event \in BOOLEAN /\ hearing \in BOOLEAN
    /\ topic \in Seq(ScanRacks)
    /\ drive \in [at : ScanRacks \cup {None}, to : ScanRacks \cup {None}]
    /\ ros \in BOOLEAN /\ earlier \in ScanRacks \cup {None}
    /\ mission \in {None, "SCHEDULED", "COMPLETED"} /\ missionId \in BOOLEAN
    /\ stored \in [AllBins -> Nat] /\ alerts \in [AllBins -> Nat]
    /\ raised \in [AllBins -> Nat] /\ late \subseteq Effect
    /\ shown \in ScanRacks \cup {None} /\ beating \in BOOLEAN
    /\ exit \in {None, 0, 1, 2} /\ callFaults \in 0 .. MaxCallFaults

\* The robot stands somewhere, or is still on its way to where an earlier
\* run sent it.
ScanRunInit ==
    /\ pc = "create" /\ request \in Scopes /\ inventory = <<>> /\ plan = <<>>
    /\ detected = <<>> /\ results = <<>> /\ target = None /\ event = FALSE
    /\ hearing = FALSE /\ topic = <<>>
    /\ \/ drive \in [at : ScanRacks, to : {None}]
       \/ drive \in [at : {None}, to : ScanRacks]
    /\ earlier = drive.to /\ ros \in BOOLEAN
    /\ mission = None /\ missionId = FALSE
    /\ stored = [b \in AllBins |-> 0] /\ alerts = [b \in AllBins |-> 0]
    /\ raised = [b \in AllBins |-> 0]
    /\ late = {} /\ shown = None /\ beating = FALSE /\ exit = None /\ callFaults = 0

-----------------------------------------------------------------------------
(* Calls.                                                                  *)

CallFault == callFaults < MaxCallFaults /\ callFaults' = callFaults + 1

\* COALESCE(bins.qr_code, inventory.sku), which the seeder fills from two
\* columns of the sheet.
BinCode(b) ==
    IF QrCode[b] # None THEN QrCode[b]
    ELSE IF b \in DOMAIN Inventory THEN Inventory[b] ELSE None

\* The ingest of an observation finds another code than the bin's, or one
\* where there is none.
Mismatched(e) == e.what = "observe" /\ e.seen # BinCode(e.bin)

\* An alert that is posted is stored as it is.
CreateAlert(e) ==
    alerts' = IF e.what = "alert" THEN [alerts EXCEPT ![e.bin] = @ + 1] ELSE alerts

\* What the backend does with a call: it takes complete in any open state,
\* and an observation that differs becomes an alert in a commit of its own,
\* whose failure is logged.
HandleCall(e, whole) ==
    /\ mission' = CASE e.what = "create" -> "SCHEDULED"
                    [] e.what = "complete" /\ mission = "SCHEDULED" -> "COMPLETED"
                    [] OTHER -> mission
    /\ stored' = IF e.what = "observe" THEN [stored EXCEPT ![e.bin] = @ + 1] ELSE stored
    /\ CreateAlert(e)
    /\ raised' = IF Mismatched(e) /\ whole THEN [raised EXCEPT ![e.bin] = @ + 1] ELSE raised

\* One attempt: it is answered, or not handled, or handled in part or in full
\* without an answer in time: at once or later, or never.
Post(e, answered) ==
    \/ answered /\ HandleCall(e, TRUE) /\ UNCHANGED <<late, callFaults>>
    \/ ~answered /\ CallFault /\ UNCHANGED <<mission, stored, alerts, raised>>
       /\ late' \in {late, late \cup {e}}

\* A call that is made again when it fails.
PostAgain(e, answered) ==
    \/ Post(e, answered)
    \/ answered /\ CallFault /\ HandleCall(e, TRUE) /\ late' = late \cup {e}

Tell(what, bin, seen, answered) ==
    Post([what |-> what, bin |-> bin, seen |-> seen], answered)

TellAgain(what, bin, seen, answered) ==
    PostAgain([what |-> what, bin |-> bin, seen |-> seen], answered)

\* The backend gets to a call nobody waits for any more.
HandleLate ==
    \E e \in late, whole \in BOOLEAN :
        /\ HandleCall(e, whole) /\ late' = late \ {e}
        /\ UNCHANGED <<pc, work, nav, shown, beating, exit, callFaults>>

-----------------------------------------------------------------------------
(* The plan.                                                               *)

CreateMission(answered) ==
    /\ pc = "create" /\ pc' = "topology"
    /\ Tell("create", None, None, answered) /\ missionId' = answered
    /\ UNCHANGED <<request, inventory, plan, detected, results, nav, shown, beating, exit>>

\* The members of a set of numbers from the smallest on.
Ascending(I) ==
    CHOOSE f \in [1 .. Cardinality(I) -> I] : \A i, j \in DOMAIN f : i < j => f[i] < f[j]

\* The scope chooses racks, an aisle's racks, or one bin; a rack without a
\* bin in scope is left out.
ParseTopology(r) ==
    LET InScope(t) == CASE r.scope = "rack"  -> t.rack = r.target
                        [] r.scope = "aisle" -> t.aisle = r.target
                        [] r.scope = "bin"   -> r.target \in ToSet(t.bins)
                        [] OTHER -> TRUE
        rows   == {i \in DOMAIN Topology : InScope(Topology[i]) /\ Topology[i].bins # <<>>}
        bins(t) == IF r.scope = "bin" THEN <<r.target>> ELSE t.bins
    IN  [k \in 1 .. Cardinality(rows) |->
            LET t == Topology[Ascending(rows)[k]] IN [rack |-> t.rack, bins |-> bins(t)]]

\* Without a topology, whatever the scope: one rack with every bin of the
\* inventory or, without one, with the demo bin.
Synthetic(bins) == {<<[rack |-> FirstRack, bins |-> s]>> : s \in SetToSeqs(bins)}

\* A call that fails, for whatever reason, brings nothing.
GetFails(got) == IF got THEN 0 ELSE 1

\* Either call may fail; then the heartbeats start.  Without a rack in scope
\* the run ends.
FetchPlan ==
    /\ pc = "topology"
    /\ \E known, listed \in BOOLEAN :
        /\ callFaults' = callFaults + GetFails(known) + GetFails(listed)
        /\ callFaults' <= MaxCallFaults
        /\ IF ~known /\ (~listed \/ DOMAIN Inventory = {})
           THEN /\ plan' \in Synthetic({Demo})
                /\ inventory' \in [{Demo} -> Labels]
           ELSE /\ plan' \in IF known THEN {ParseTopology(request)}
                                      ELSE Synthetic(DOMAIN Inventory)
                /\ inventory' = IF listed THEN Inventory ELSE <<>>
    /\ beating' = (plan' # <<>>)
    /\ IF plan' = <<>> THEN pc' = "done" /\ exit' = 1 ELSE pc' = "next" /\ UNCHANGED exit
    /\ UNCHANGED <<request, detected, results, missionId, nav, mission, stored, alerts, raised,
                   late, shown>>

Expects(b) == IF b \in DOMAIN inventory THEN inventory[b] ELSE None

Outcome(b, r, seen, error) ==
    [bin |-> b, rack |-> r, expected |-> Expects(b), observed |-> seen, error |-> error,
     at |-> drive.at]

-----------------------------------------------------------------------------
(* Driving.                                                                *)

Skip(rack) ==
    results' = results \o [i \in DOMAIN rack.bins |->
                              Outcome(rack.bins[i], rack.rack, None, TRUE)]

\* The robot sets off, unless it stands there.
Sent(r) == [at |-> IF drive.at = r THEN r ELSE None, to |-> r]

GoToUncleared ==
    /\ pc = "next" /\ plan # <<>> /\ ros
    /\ target' = Head(plan).rack
    /\ drive' = Sent(target')
    /\ pc' = "wait"
    /\ UNCHANGED <<work, event, hearing, topic, ros, earlier, api, shown, beating, exit>>

\* The event is cleared after the target is set and before the "Go".
GoTo ==
    /\ pc = "next" /\ plan # <<>> /\ ros
    /\ target' = Head(plan).rack /\ event' = FALSE
    /\ drive' = Sent(target')
    /\ pc' = "wait"
    /\ UNCHANGED <<work, hearing, topic, ros, earlier, api, shown, beating, exit>>

\* The robot, external to the repository: it goes where the last "Go" said,
\* says so when it arrives, and may never arrive.
Arrive ==
    /\ drive.to # None
    /\ drive' = [at |-> drive.to, to |-> None] /\ topic' = Append(topic, drive.to)
    /\ UNCHANGED <<pc, work, target, event, hearing, ros, earlier, api, shown, beating, exit>>

\* The spin thread compares a message with the present target ...
Hear ==
    /\ topic # <<>> /\ ~hearing
    /\ topic' = Tail(topic)
    /\ hearing' = (target # None /\ Head(topic) \in Within[target])
    /\ UNCHANGED <<pc, work, target, event, drive, ros, earlier, api, shown, beating, exit>>

\* ... and sets the event: the run may have gone on to another target.
SetEvent ==
    /\ hearing /\ hearing' = FALSE /\ event' = TRUE
    /\ UNCHANGED <<pc, work, target, topic, drive, ros, earlier, api, shown, beating, exit>>

\* The heartbeats give the first bin of the rack the run has come to.
Shows(rack) == shown' = rack.rack

\* Without ROS nothing moves, and the run takes the rack as reached.
StayPut ==
    /\ pc = "next" /\ plan # <<>> /\ ~ros
    /\ pc' = "camera" /\ Shows(Head(plan))
    /\ UNCHANGED <<work, nav, api, beating, exit>>

Reached ==
    /\ pc = "wait" /\ event
    /\ pc' = "camera" /\ Shows(Head(plan))
    /\ UNCHANGED <<work, nav, api, beating, exit>>

WaitsForEver == FALSE

\* Ninety seconds: every bin of the rack is recorded as an error.
TimesOut ==
    /\ pc = "wait" /\ ~event
    /\ Skip(Head(plan)) /\ plan' = Tail(plan) /\ pc' = "next"
    /\ UNCHANGED <<request, inventory, detected, missionId, nav, api, shown, beating, exit>>

-----------------------------------------------------------------------------
(* The rack.                                                               *)

\* A camera that opens finds the expected code of a bin or nothing; without
\* one the run makes the codes up and goes on as if it had seen them.
Photograph ==
    /\ pc = "camera"
    /\ detected' \in {d \in [Range(Head(plan).bins) -> Seen] :
                        \A b \in DOMAIN d : d[b] \in {Expects(b), None, Wrong}}
    /\ pc' = "bin"
    /\ UNCHANGED <<request, inventory, plan, results, missionId, nav, api, shown, beating,
                   exit>>

\* Nothing but a missing library is caught: a frame that cannot be resized or
\* decoded ends the process, and the mission stays open.
DecodeFails ==
    /\ pc = "camera" /\ pc' = "done" /\ exit' = 1 /\ beating' = FALSE
    /\ UNCHANGED <<work, nav, api, shown>>

Bin == Head(Head(plan).bins)
BinDone == plan' = <<[Head(plan) EXCEPT !.bins = Tail(@)]>> \o Tail(plan)

\* An alert follows when a code was expected and another one, or none, seen.
Record ==
    /\ pc = "bin" /\ Head(plan).bins # <<>>
    /\ results' = Append(results, Outcome(Bin, Head(plan).rack, detected[Bin], FALSE))
    /\ IF Expects(Bin) # None /\ detected[Bin] # Expects(Bin)
       THEN pc' = "alert" /\ UNCHANGED plan
       ELSE BinDone /\ UNCHANGED pc
    /\ UNCHANGED <<request, inventory, detected, missionId, nav, shown, beating, exit>>

SubmitAgain(answered) == Record /\ TellAgain("observe", Bin, detected[Bin], answered)

SubmitObservation(answered) == Record /\ Tell("observe", Bin, detected[Bin], answered)

\* MISSING or MISPLACED.
SubmitAlert(answered) ==
    /\ pc = "alert" /\ pc' = "bin"
    /\ Tell("alert", Bin, None, answered) /\ BinDone
    /\ UNCHANGED <<request, inventory, detected, results, missionId, nav, shown, beating, exit>>

\* "Succeeded": the robot of this topic may drive on; the next "Go" decides.
RackDone ==
    /\ pc = "bin" /\ Head(plan).bins = <<>>
    /\ plan' = Tail(plan) /\ pc' = "next"
    /\ UNCHANGED <<request, inventory, detected, results, missionId, nav, api, shown,
                   beating, exit>>

\* The mission is completed if the run knows its id.
CompleteMission(answered) ==
    /\ pc = "next" /\ plan = <<>> /\ pc' = "report" /\ beating' = FALSE
    /\ IF missionId THEN Tell("complete", None, None, answered)
                    ELSE answered /\ UNCHANGED api
    /\ UNCHANGED <<work, nav, shown, exit>>

Status(r) ==
    CASE r.error -> "ERROR"
      [] ~r.error /\ r.observed = None -> "MISSING"
      [] OTHER -> IF r.observed = r.expected THEN "MATCH" ELSE "MISMATCH"

Count(status) == Cardinality({i \in DOMAIN results : Status(results[i]) = status})

\* The CSV file may not be writable, which ends the run as a fatal error
\* does; racks that were not reached are no issue.
Report ==
    /\ pc = "report" /\ pc' = "done"
    /\ \/ exit' = IF Count("MISMATCH") + Count("MISSING") > 0 THEN 2 ELSE 0
       \/ exit' = 1
    /\ UNCHANGED <<work, nav, api, shown, beating>>

-----------------------------------------------------------------------------
Run == \/ \E answered \in BOOLEAN : \/ CreateMission(answered) \/ SubmitObservation(answered)
                                    \/ SubmitAlert(answered) \/ CompleteMission(answered)
       \/ FetchPlan \/ GoTo \/ StayPut \/ Reached \/ TimesOut \/ Photograph \/ DecodeFails
       \/ RackDone \/ Report

ScanRunNext == Run \/ HandleLate \/ Arrive \/ Hear \/ SetEvent

\* The run's thread goes on: a call ends at the latest with its timeout, a
\* wait with the ninety seconds.  Nothing is asked of the robot or of ROS.
ScanRunSpec == ScanRunInit /\ [][ScanRunNext]_scan /\ WF_scan(Run)

-----------------------------------------------------------------------------
(* Properties.                                                             *)

\* With ROS, until a drive has timed out, a rack is only photographed with
\* the robot in front of it: neither an event left set nor a message about the
\* rack before it lets the run go on too early (navigate_to,
\* _status_callback).  The one exception is the arrival an earlier run asked
\* for, at a rack of this run or one whose name begins alike.
SeenAtRack ==
    ros => \A i \in DOMAIN results :
        \/ results[i].at = results[i].rack
        \/ \E j \in 1 .. i : LET r == results[j]
                             IN  r.error \/ earlier \in Within[r.rack]

\* A post that was too slow is not made again, so that a bin has at most one
\* observation of the run and at most two alerts from it, one that the run
\* posts and one that the observation's ingest raises, the second only where
\* what was recorded is not what the bin has in the backend; a completed
\* mission has nothing left in the run, and unless calls failed there is
\* exactly one observation for every bin recorded, and its alert where it
\* differs (run_scan, _api_post, _process_post_commit_actions).
StoredOnce ==
    /\ \A b \in AllBins :
        LET seen    == {i \in DOMAIN results : results[i].bin = b /\ ~results[i].error}
            differs == {i \in seen : results[i].observed # BinCode(b)}
        IN  /\ stored[b] + Cardinality({e \in late : e.what = "observe" /\ e.bin = b})
                    <= Cardinality(seen)
            /\ Cardinality(seen) <= 1
            /\ alerts[b] <= 1 /\ raised[b] <= stored[b]
            /\ raised[b] > 0 => differs # {}
            /\ pc = "done" /\ callFaults = 0 => /\ stored[b] = Cardinality(seen)
                                                /\ raised[b] = Cardinality(differs)
    /\ mission = "COMPLETED" => plan = <<>>

\* A run that exits with 0 has posted no alert that is or may still be stored,
\* and an alert that the backend raised for a bin of it means that the bins
\* table has another code for the bin than the inventory the run went by; one
\* that exits with 2 has posted an alert unless calls failed or a bin had no
\* expected code (run_scan's exit code, ScanResult.status, get_expected_sku).
ExitTells ==
    /\ exit = 0 => /\ (\A b \in AllBins : alerts[b] = 0) /\ \A e \in late : e.what # "alert"
                   /\ \A b \in AllBins : raised[b] > 0 => BinCode(b) # Expects(b)
    /\ exit = 2 /\ callFaults = 0 /\ (\A i \in DOMAIN results : results[i].expected # None) =>
           \E b \in AllBins : alerts[b] > 0

ScanRunInv == ScanRunTypeOK /\ SeenAtRack /\ ExitTells

\* Whatever becomes of the robot, of ROS and of the backend, the run ends
\* (navigate_to's timeout, _api_post's).
Ends == <>(pc = "done")
=============================================================================
