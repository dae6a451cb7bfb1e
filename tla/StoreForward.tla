---------------------------- MODULE StoreForward ----------------------------
(***************************************************************************)
(* The edge agent of apps/robot-simulator and its SQLite buffer: the main  *)
(* loop posts each scan, or saves it when the network is down or the post  *)
(* raises; every heartbeat starts a task that uploads the oldest rows of   *)
(* the buffer and deletes them when the batch is accepted.  These tasks    *)
(* overlap with each other and with the main loop.                         *)
(*                                                                         *)
(* The server gives a row of its own to every observation it accepts       *)
(* (ObservationIngest has no observation_id), a batch in one transaction,   *)
(* or turns down all the agent sends: ObservationIngest wants a UUID for    *)
(* the robot, and main.py names its robot 'robot-001'.                     *)
(* A client that stops waiting does not stop the server.                   *)
(***************************************************************************)
EXTENDS Naturals, FiniteSets

CONSTANTS
    NumScans,  \* bound: how many scans the agent takes
    BatchSize, \* the limit of get_unsynced_observations
    Main,      \* the main loop
    Syncs,     \* bound: the sync tasks that can be under way at once
    MaxFaults  \* bound: errors, lost answers, failed writes, crashes

Scans   == 1 .. NumScans
Senders == Syncs \cup {Main}
Fault   == 1 .. MaxFaults

ASSUME StoreAssumption ==
    /\ NumScans \in Nat
    /\ BatchSize \in Nat \ {0}
    /\ Main \notin Syncs
    /\ IsFiniteSet(Syncs) /\ Syncs # {}
    /\ MaxFaults \in Nat

VARIABLES
    ingestible, \* the agent's payloads are ones ObservationIngest takes
    connected,  \* self.connected
    taken,     \* the scans taken so far are 1 .. taken
    pc,        \* where the main loop and each sync task are
    batch,     \* the scans in the request of each
    buffer,    \* the rows of buffered_observations; their order is the scans'
    late,      \* requests nobody waits for any more, by fault and sender
    stored,    \* how many rows of `observations` each scan has
    faults     \* counter for the bound

agent == <<ingestible, connected, taken, pc, batch, buffer>>
vars  == <<agent, late, stored, faults>>

\* A main loop is idle, awaits the answer to its request ("sent" until the
\* server has answered), saves, or has died; a sync task reads before it
\* sends.
Pc == {"idle", "reading", "sent", "accepted", "refused", "saving", "stuck"}

Init ==
    /\ ingestible \in BOOLEAN
    /\ connected = TRUE
    /\ taken = 0
    /\ pc = [x \in Senders |-> "idle"]
    /\ batch = [x \in Senders |-> {}]
    /\ buffer = {}
    /\ late = [k \in Fault |-> [x \in Senders |-> {}]]
    /\ stored = [o \in Scans |-> 0]
    /\ faults = 0

\* What a request under way carries.
Flying(x) == IF pc[x] = "sent" THEN batch[x] ELSE {}

Done(x) == /\ pc' = [pc EXCEPT ![x] = "idle"]
           /\ batch' = [batch EXCEPT ![x] = {}]

Store(S) == stored' = [o \in Scans |-> IF o \in S THEN stored[o] + 1
                                                  ELSE stored[o]]

Fails == faults < MaxFaults /\ faults' = faults + 1

-----------------------------------------------------------------------------
(* The heartbeat loop.                                                     *)

\* A turn with the network up starts a sync task.
TurnUp(t) ==
    /\ pc[t] = "idle"
    /\ connected' = TRUE
    /\ pc' = [pc EXCEPT ![t] = "reading"]
    /\ UNCHANGED <<ingestible, taken, batch, buffer, late, stored, faults>>

TurnDown ==
    /\ connected' = FALSE
    /\ UNCHANGED <<ingestible, taken, pc, batch, buffer, late, stored, faults>>

\* The first rows of the buffer, BatchSize of them at most.
Oldest == {o \in buffer : Cardinality({p \in buffer : p < o}) < BatchSize}

SyncRead(t) ==
    /\ pc[t] = "reading"
    /\ IF buffer = {} THEN Done(t)
       ELSE /\ pc' = [pc EXCEPT ![t] = "sent"]
            /\ batch' = [batch EXCEPT ![t] = Oldest]
    /\ UNCHANGED <<ingestible, connected, taken, buffer, late, stored, faults>>

\* Faulty variant: the rows are marked, but stay unsynced.
SyncEndKeeping(t) ==
    /\ pc[t] \in {"accepted", "refused"}
    /\ Done(t)
    /\ UNCHANGED <<ingestible, connected, taken, buffer, late, stored, faults>>

\* Faulty variant: the rows go whatever the answer was.
SyncEndCareless(t) ==
    /\ pc[t] \in {"accepted", "refused"}
    /\ buffer' = buffer \ batch[t]
    /\ Done(t)
    /\ UNCHANGED <<ingestible, connected, taken, late, stored, faults>>

\* Faulty variant: a batch that was accepted empties the buffer.
SyncEndPurging(t) ==
    /\ pc[t] \in {"accepted", "refused"}
    /\ buffer' = IF pc[t] = "accepted" THEN {} ELSE buffer
    /\ Done(t)
    /\ UNCHANGED <<ingestible, connected, taken, late, stored, faults>>

\* An accepted batch is deleted from the buffer, a refused one left in it.
SyncEnd(t) ==
    /\ pc[t] \in {"accepted", "refused"}
    /\ buffer' = IF pc[t] = "accepted" THEN buffer \ batch[t] ELSE buffer
    /\ Done(t)
    /\ UNCHANGED <<ingestible, connected, taken, late, stored, faults>>

-----------------------------------------------------------------------------
(* The main loop.                                                          *)

Scan ==
    /\ pc[Main] = "idle"
    /\ taken < NumScans
    /\ taken' = taken + 1
    /\ pc' = [pc EXCEPT ![Main] = IF connected THEN "sent" ELSE "saving"]
    /\ batch' = [batch EXCEPT ![Main] = {taken + 1}]
    /\ UNCHANGED <<ingestible, connected, buffer, late, stored, faults>>

\* Any answer will do: _execute_mission_run does not look at its status.
ScanAnswered ==
    /\ pc[Main] \in {"accepted", "refused"}
    /\ Done(Main)
    /\ UNCHANGED <<ingestible, connected, taken, buffer, late, stored, faults>>

Save ==
    /\ pc[Main] = "saving"
    /\ buffer' = buffer \cup batch[Main]
    /\ Done(Main)
    /\ UNCHANGED <<ingestible, connected, taken, late, stored, faults>>

\* The exception leaves the run; the agent stays AUDITING and asks for no
\* other mission.
SaveFails ==
    /\ Fails
    /\ pc[Main] = "saving"
    /\ pc' = [pc EXCEPT ![Main] = "stuck"]
    /\ batch' = [batch EXCEPT ![Main] = {}]
    /\ UNCHANGED <<ingestible, connected, taken, buffer, late, stored>>

-----------------------------------------------------------------------------
(* The observation service.                                                *)

\* The request is validated, stored and answered ...
Serve(x) ==
    /\ pc[x] = "sent" /\ ingestible
    /\ Store(batch[x])
    /\ pc' = [pc EXCEPT ![x] = "accepted"]
    /\ UNCHANGED <<ingestible, connected, taken, batch, buffer, late, faults>>

\* ... or does not validate, today or on any other day: 422.
Refuse(x) ==
    /\ pc[x] = "sent" /\ ~ingestible
    /\ pc' = [pc EXCEPT ![x] = "refused"]
    /\ UNCHANGED <<ingestible, connected, taken, batch, buffer, late, stored, faults>>

\* The database is away: the answer is an error, before the commit or after
\* it.
ServeFails(x) ==
    /\ Fails
    /\ pc[x] = "sent"
    /\ UNCHANGED stored \/ (ingestible /\ Store(batch[x]))
    /\ pc' = [pc EXCEPT ![x] = "refused"]
    /\ UNCHANGED <<ingestible, connected, taken, batch, buffer, late>>

\* A request reaches the server after the sender gave it up.
ServeLate(k, x) ==
    /\ late[k][x] # {} /\ ingestible
    /\ Store(late[k][x])
    /\ late' = [late EXCEPT ![k][x] = {}]
    /\ UNCHANGED <<agent, faults>>

LoseLate(k, x) ==
    /\ late[k][x] # {}
    /\ late' = [late EXCEPT ![k][x] = {}]
    /\ UNCHANGED <<agent, stored, faults>>

-----------------------------------------------------------------------------
(* Failures.                                                               *)

\* An exception: the sender stops waiting, the connection breaks, or SQLite
\* fails a sync task.  The main loop saves its scan, a sync task ends.
Timeout(x) ==
    /\ Fails
    /\ pc[x] \in {"reading", "sent", "accepted", "refused"}
    /\ late' = [late EXCEPT ![faults + 1][x] = Flying(x)]
    /\ IF x = Main
         THEN pc' = [pc EXCEPT ![x] = "saving"] /\ UNCHANGED batch
         ELSE Done(x)
    /\ UNCHANGED <<ingestible, connected, taken, buffer, stored>>

\* The process dies and is started again; the buffer's file survives.
Crash ==
    /\ Fails
    /\ late' = [late EXCEPT ![faults + 1] = [x \in Senders |-> Flying(x)]]
    /\ connected' = TRUE
    /\ pc' = [x \in Senders |-> "idle"]
    /\ batch' = [x \in Senders |-> {}]
    /\ UNCHANGED <<ingestible, taken, buffer, stored>>

-----------------------------------------------------------------------------

Sync(t) == SyncRead(t) \/ SyncEnd(t)

Next ==
    \/ TurnDown
    \/ \E t \in Syncs : TurnUp(t) \/ Sync(t)
    \/ Scan \/ ScanAnswered \/ Save \/ SaveFails
    \/ \E x \in Senders : Serve(x) \/ Refuse(x) \/ ServeFails(x) \/ Timeout(x)
    \/ \E k \in Fault, x \in Senders : ServeLate(k, x) \/ LoseLate(k, x)
    \/ Crash

Spec == Init /\ [][Next]_vars

\* Tasks and handlers go on.  The heartbeat loop turns for ever and each turn
\* draws anew whether the network is up.
Fairness ==
    /\ \A x \in Senders : WF_vars(Serve(x) \/ Refuse(x))
    /\ \A t \in Syncs : WF_vars(Sync(t))
    /\ WF_vars(ScanAnswered \/ Save)
    /\ SF_vars(\E t \in Syncs : TurnUp(t))

FairSpec == Spec /\ Fairness

-----------------------------------------------------------------------------
(* Properties.                                                             *)

\* Every variable has its type.
TypeOK ==
    /\ ingestible \in BOOLEAN /\ connected \in BOOLEAN
    /\ taken \in 0 .. NumScans
    /\ pc \in [Senders -> Pc]
    /\ batch \in [Senders -> SUBSET Scans]
    /\ buffer \subseteq Scans
    /\ late \in [Fault -> [Senders -> SUBSET Scans]]
    /\ stored \in [Scans -> Nat]
    /\ faults \in 0 .. MaxFaults

Arrived == {o \in Scans : stored[o] > 0}

\* In the main loop's hands or in a request that may still arrive.
UnderWay ==
    {o \in Scans : \/ o \in batch[Main]
                   \/ \E x \in Senders : o \in Flying(x)
                   \/ \E k \in Fault, x \in Senders : o \in late[k][x]}

Fresh == UnderWay \ (buffer \cup Arrived)
Kept  == buffer \ Arrived

Delivery == INSTANCE AtLeastOnce WITH
    Items    <- Scans,
    produced <- 1 .. taken,
    fresh    <- Fresh,
    kept     <- Kept,
    arrived  <- Arrived

\* What the main loop has in its hands; only sync tasks read.
MainHolds ==
    /\ pc[Main] # "reading"
    /\ batch[Main] = IF pc[Main] \in {"sent", "accepted", "refused", "saving"}
                       THEN {taken} ELSE {}

\* There is no scan that was not taken.
Known == UnderWay \cup buffer \cup Arrived \subseteq 1 .. taken

\* Whatever a sync task holds is in the buffer or at the service, and at the
\* service once its answer says so; of what the service does not take,
\* nothing arrives.
BatchSafe ==
    /\ \A t \in Syncs : batch[t] \subseteq buffer \cup Arrived
    /\ \A x \in Senders : pc[x] = "accepted" => batch[x] \subseteq Arrived
    /\ ~ingestible => Arrived = {}

\* Late requests that carry o, and the sync tasks that may still store it
\* without a fault: one whose batch has been stored deletes it first.
LateOf(o) == {kx \in Fault \X Senders : o \in late[kx[1]][kx[2]]}
Adds(t, o) == IF o \in batch[t] /\ pc[t] \in {"sent", "accepted"}
                THEN pc[t] = "sent"
                ELSE o \in buffer
AddsOf(o) == {t \in Syncs : Adds(t, o)}

\* Why DuplicatesBounded holds: what is stored, late and may still be stored
\* is within the bound, and a scan that the main loop holds is nowhere else.
SpentOn(o) ==
    /\ stored[o] + Cardinality(LateOf(o)) + Cardinality(AddsOf(o))
         <= Cardinality(Syncs) * (faults + 1)
    /\ o \in batch[Main] =>
         /\ o \notin buffer /\ \A t \in Syncs : o \notin batch[t]
         /\ stored[o] + Cardinality(LateOf(o)) <= IF pc[Main] = "sent" THEN 0 ELSE 1
         /\ pc[Main] = "saving" /\ faults = 0 => stored[o] + Cardinality(LateOf(o)) = 0
Spent == \A o \in Scans : SpentOn(o)

\* The inductive invariant.
Shape == TypeOK /\ MainHolds /\ Known /\ BatchSafe
Inv   == Shape /\ Spent

\* The buffer keeps what it was given: whatever tasks overlap, answers are
\* lost and the process crashes, the agent and the service implement a sender
\* that gives up only what it has not saved.
BufferKeeps == Delivery!Spec

\* No row leaves the buffer before the service has stored its scan: another
\* task's answer, a late or a failed one, never deletes it.
DeletedOnlyIfStored == [][\A o \in buffer : o \in buffer' \/ stored[o] > 0]_vars

\* Nothing discards duplicates, but what makes them is limited: each sync task
\* that reads a row before another deletes it, and each fault that keeps an
\* answer from a task, adds a copy.
DuplicatesBounded ==
    \A o \in Scans : stored[o] <= Cardinality(Syncs) * (faults + 1)

\* Once scans are in the buffer they reach the service and leave the buffer,
\* however many there are and however often uploads fail on the way, if the
\* service takes what the agent sends.  Where it does not, as with the robot
\* main.py names, they stay for ever (BatchSafe with DeletedOnlyIfStored).
BufferDrains ==
    \A o \in Scans :
        (ingestible /\ o \in buffer) ~> (o \notin buffer /\ stored[o] > 0)
=============================================================================
