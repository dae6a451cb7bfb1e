----------------------------- MODULE RackScanner -----------------------------
(***************************************************************************)
(* The scanner on a robot (rack_scanner_node.py, scanner_api_bridge.py)    *)
(* above the servos (ServoController).                                     *)
(*                                                                         *)
(* The robot says "Reached <rack>" and stands until it hears "Succeeded    *)
(* <rack>".  The node, one thread that runs callbacks and a timer, turns   *)
(* the camera to the rack, tilts it until the rack is in frame, grabs      *)
(* frames, sweeps up and down when shelves are missing, judges every code  *)
(* against its database, writes it to a file and then to the backend.  It  *)
(* waits for the servos by sleeping and never asks where they are.         *)
(***************************************************************************)
EXTENDS ServoController

CONSTANTS
    Racks,
    Route,        \* the racks in the order the robot drives to them
    Unreadable,   \* racks whose location parse_location does not accept
    Codes,
    At,           \* where each code lies: the rack
    Sheet,        \* the spreadsheet: code -> [rack, shelf]
    First,        \* A1/R1/RK1/S1
    ScanPose, ParkPose,
    PitchStep, Sweep,
    MaxTries,     \* max_steps of adjust_pitch_for_rack
    MaxFaults     \* bound: failed calls, crashes and stops

Shelves == 1 .. 2  \* the upper and the lower half
NoShelf == 0       \* determine_shelf's -1
Place   == [rack : Racks, shelf : Shelves]
Road    == "road"

ASSUME ScannerAssumption ==
    /\ Route \in Seq(Racks) /\ Unreadable \subseteq Racks /\ At \in [Codes -> Racks]
    /\ Sheet \in [DOMAIN Sheet -> Place] /\ First \in Place /\ Road \notin Racks
    /\ {ScanPose, ParkPose} \subseteq Pose
    /\ {PitchStep, Sweep, MaxTries, MaxFaults} \subseteq Nat

VARIABLES
    todo,     \* racks the robot has yet to drive to
    bot,      \* the rack it stands at and waits
    inbox,    \* "Reached" messages the node has not taken
    stopping, \* a "stop" on /camera_system it has not taken
    state, location, pitch, tries,
    centre,   \* center_pitch of run_scan
    database,
    found,    \* codes decoded in this scan, each with its shelf
    csv,      \* lines of the two log files
    backend,  \* observations and alerts the API has accepted
    ignored,  \* history: racks whose "Reached" went unheeded
    faults

robot == <<todo, bot>>
aim   == <<pitch, tries, centre>>
node  == <<stopping, state, location, aim, found>>
files == <<csv, backend>>
data  == <<database, files>>
vars  == <<servo, robot, inbox, node, data, ignored, faults>>

Looking == {"CENTRED", "TOP", "BOTTOM", "RETURN"}
Busy == {"MOVING_TO_SCAN", "ADJUSTING_PITCH", "LOGGING"} \cup Looking
States == Busy \cup {"IDLE", "MOVING_TO_PARK", "SHUTDOWN", "ended"}
Verdict == {"correct", "MISPLACED", "UNKNOWN_QR"}
Line == [code : Codes, rack : Racks, shelf : Shelves \cup {NoShelf}, verdict : Verdict]

\* The products of the API, or those of the local file in their form, carry
\* no place: each gets the first one.  Only when there are none is the sheet
\* itself read.
Databases == {[c \in DOMAIN Sheet |-> First], Sheet}
LoadDatabase == database' \in Databases

ScannerType ==
    /\ todo \in Seq(Racks) /\ bot \in Racks \cup {Road}
    /\ inbox \in Seq(Racks) /\ stopping \in BOOLEAN
    /\ state \in States /\ location \in Racks \cup {Road}
    /\ pitch \in Angles /\ centre \in Angles /\ tries \in 0 .. MaxTries
    /\ database \in Databases
    /\ found \subseteq [code : Codes, shelf : Shelves \cup {NoShelf}]
    /\ csv \subseteq Line /\ backend \subseteq Line
    /\ ignored \subseteq Racks /\ faults \in 0 .. MaxFaults

Init ==
    /\ ServoInit /\ database \in Databases
    /\ todo = Route /\ bot = Road /\ inbox = <<>> /\ stopping = FALSE
    /\ state = "IDLE" /\ location = Road /\ pitch = ParkPose["pitch"] /\ tries = 0
    /\ centre = ParkPose["pitch"] /\ found = {} /\ csv = {} /\ backend = {}
    /\ ignored = {} /\ faults = 0

Fault == faults < MaxFaults /\ faults' = faults + 1

-----------------------------------------------------------------------------
(* The robot and the operator.                                             *)

Reach(r) ==
    /\ bot = Road /\ todo # <<>> /\ r = Head(todo)
    /\ bot' = r /\ todo' = Tail(todo)
    /\ IF state = "ended"
       THEN ignored' = ignored \cup {r} /\ UNCHANGED inbox
       ELSE inbox' = Append(inbox, r) /\ UNCHANGED ignored
    /\ UNCHANGED <<servo, node, data, faults>>

\* "stop" goes to the node and to the bridge.
Stop ==
    /\ Fault /\ state # "ended"
    /\ stopping' = TRUE
    /\ Send(<<STOP>>)
    /\ UNCHANGED <<pos, active, frames, robot, inbox, state, location, aim, found, data,
                   ignored>>

\* The process dies, at whatever line it is; what it had not answered it
\* never will.
Die ==
    /\ state' = "ended" /\ stopping' = FALSE /\ inbox' = <<>>
    /\ found' = {} /\ tries' = 0 /\ centre' = ParkPose["pitch"]
    /\ ignored' = ignored \cup ({bot} \cap Racks)
    /\ UNCHANGED <<robot, location, pitch, data>>

Crash == Fault /\ state # "ended" /\ Die /\ UNCHANGED servo

\* It is launched again.  The firmware remembers that it was stopped.
Launch ==
    /\ state = "ended"
    /\ LoadDatabase
    /\ state' = "IDLE" /\ location' = Road /\ pitch' = ParkPose["pitch"]
    /\ UNCHANGED <<servo, robot, inbox, stopping, tries, centre, found, files, ignored,
                   faults>>

-----------------------------------------------------------------------------
(* The node's callbacks: they run between two turns of the timer.          *)

Spinning == state \notin Looking \cup {"LOGGING", "ended"}

BotStatus ==
    LET r == Head(inbox) IN
    /\ Spinning /\ inbox # <<>>
    /\ inbox' = Tail(inbox)
    /\ IF state = "IDLE" /\ r \notin Unreadable
       THEN state' = "MOVING_TO_SCAN" /\ location' = r /\ UNCHANGED ignored
       ELSE ignored' = ignored \cup {r} /\ UNCHANGED <<state, location>>
    /\ UNCHANGED <<servo, robot, stopping, aim, found, data, faults>>

CameraSystem ==
    /\ Spinning /\ stopping
    /\ stopping' = FALSE /\ state' = "SHUTDOWN"
    /\ UNCHANGED <<servo, robot, inbox, location, aim, found, data, ignored,
                   faults>>

-----------------------------------------------------------------------------
(* process_loop.  A sleep takes any time.                                  *)

Clip(p) == IF p < 0 THEN 0 ELSE IF p > MaxAngle THEN MaxAngle ELSE p

\* send_servo_command: what is sent is from then on where the node believes
\* the camera to be.
Turn(yaw, p) ==
    /\ Send(<<Move([yaw |-> yaw, pitch |-> p])>>)
    /\ pitch' = p
    /\ UNCHANGED <<pos, active, frames>>

ShutdownTurn ==
    /\ state = "SHUTDOWN"
    /\ Send(<<STOP>>)
    /\ Die
    /\ UNCHANGED <<pos, active, frames, faults>>

MoveToScan ==
    /\ state = "MOVING_TO_SCAN"
    /\ Turn(ScanPose["yaw"], ScanPose["pitch"])
    /\ state' = "ADJUSTING_PITCH" /\ tries' = 0
    /\ UNCHANGED <<robot, inbox, stopping, location, centre, found, data, ignored, faults>>

\* The camera does not open: idle again, and nobody is told.
CameraFails ==
    /\ Fault /\ state = "MOVING_TO_SCAN"
    /\ state' = "IDLE" /\ ignored' = ignored \cup {location}
    /\ UNCHANGED <<servo, robot, inbox, stopping, location, aim, found, data>>

\* One try of adjust_pitch_for_rack, and its end: the rack is in frame, or
\* the tries are used up, which makes no difference.
AdjustPitch ==
    /\ state = "ADJUSTING_PITCH" /\ tries < MaxTries
    /\ \E p \in {pitch - PitchStep, pitch + PitchStep} : Turn(ScanPose["yaw"], Clip(p))
    /\ tries' = tries + 1
    /\ UNCHANGED <<robot, inbox, stopping, state, location, centre, found, data, ignored,
                   faults>>

\* Variant: a rack that does not come into frame is given up.
AdjustedOrAborted ==
    /\ state = "ADJUSTING_PITCH"
    /\ state' = IF tries = MaxTries THEN "IDLE" ELSE "CENTRED"
    /\ tries' = 0
    /\ UNCHANGED <<servo, robot, inbox, stopping, location, pitch, centre, found, data,
                   ignored, faults>>

\* Variant: "Succeeded" is published when the rack is in frame.
AdjustedEarly ==
    /\ state = "ADJUSTING_PITCH"
    /\ state' = "CENTRED" /\ tries' = 0
    /\ bot' = IF bot = location THEN Road ELSE bot
    /\ UNCHANGED <<servo, todo, inbox, stopping, location, pitch, centre, found, data,
                   ignored, faults>>

Adjusted ==
    /\ state = "ADJUSTING_PITCH"
    /\ state' = "CENTRED" /\ tries' = 0
    /\ UNCHANGED <<servo, robot, inbox, stopping, location, pitch, centre, found, data,
                   ignored, faults>>

\* detect_qr_codes: codes of the rack in front of a camera that faces it.  A
\* code keeps the shelf it was first seen on, which is read off the picture.
Sees(shelves) ==
    LET visible == {c \in Codes : At[c] = bot /\ pos["yaw"] = ScanPose["yaw"]}
                     \ {d.code : d \in found}
    IN  \E S \in SUBSET visible : \E shelf \in [S -> shelves] :
            found' = found \cup {[code |-> c, shelf |-> shelf[c]] : c \in S}

\* The frames of run_scan at one pitch, and the command that follows them.
Look(from, shelves, to, turn) ==
    /\ state = from /\ state' = to
    /\ Sees(shelves)
    /\ turn
    /\ UNCHANGED <<robot, inbox, stopping, location, data, ignored, faults>>

StayThere == UNCHANGED <<servo, aim>>
TurnTo(p) == Turn(ScanPose["yaw"], Clip(p)) /\ UNCHANGED tries

LookCentred ==
    \/ Look("CENTRED", Shelves \cup {NoShelf}, "LOGGING", StayThere)
    \/ Look("CENTRED", Shelves \cup {NoShelf}, "TOP", TurnTo(pitch - Sweep) /\ centre' = pitch)
LookUp   == Look("TOP", {1}, "BOTTOM", TurnTo(centre + Sweep) /\ UNCHANGED centre)
LookDown == Look("BOTTOM", {2}, "RETURN", TurnTo(centre) /\ UNCHANGED centre)
Return ==
    /\ state = "RETURN" /\ state' = "LOGGING"
    /\ centre' = ParkPose["pitch"]
    /\ UNCHANGED <<servo, robot, inbox, stopping, location, pitch, tries, found, data,
                   ignored, faults>>

Judge(d) ==
    IF d.code \notin DOMAIN database THEN "UNKNOWN_QR"
    ELSE IF database[d.code] = [rack |-> location, shelf |-> d.shelf]
         THEN "correct" ELSE "MISPLACED"

\* submit_observation for a match, submit_mismatch_alert for the rest.  A call
\* that fails, or a bin that cannot be resolved, is logged and forgotten.
Submit(line) ==
    \/ backend' = backend \cup {line} /\ UNCHANGED faults
    \/ Fault /\ UNCHANGED backend

\* One result of process_scan_results: the file first, the backend then.  A
\* file that cannot be written keeps the result from the backend as well.
LogScan(d) ==
    LET line == [code |-> d.code, rack |-> location, shelf |-> d.shelf,
                 verdict |-> Judge(d)]
    IN  /\ state = "LOGGING"
        /\ found' = found \ {d}
        /\ \/ csv' = csv \cup {line} /\ Submit(line)
           \/ Fault /\ UNCHANGED files
        /\ UNCHANGED <<servo, robot, inbox, stopping, state, location, aim, database, ignored>>

\* "Succeeded <location>" sends the robot on.
Succeed ==
    /\ state = "LOGGING" /\ found = {}
    /\ state' = "MOVING_TO_PARK"
    /\ bot' = IF bot = location THEN Road ELSE bot
    /\ UNCHANGED <<servo, todo, inbox, stopping, location, aim, found, data, ignored,
                   faults>>

MoveToPark ==
    /\ state = "MOVING_TO_PARK"
    /\ Turn(ParkPose["yaw"], ParkPose["pitch"])
    /\ state' = "IDLE"
    /\ UNCHANGED <<robot, inbox, stopping, location, tries, centre, found, data, ignored,
                   faults>>

ProcessLoop ==
    \/ ShutdownTurn \/ MoveToScan \/ AdjustPitch \/ Adjusted
    \/ LookCentred \/ LookUp \/ LookDown \/ Return
    \/ \E d \in found : LogScan(d)
    \/ Succeed \/ MoveToPark

-----------------------------------------------------------------------------
NodeStays == UNCHANGED <<robot, inbox, node, data, ignored, faults>>
Servos == Firmware /\ NodeStays

Lost(i) == Fault /\ Drop(i) /\ UNCHANGED <<robot, inbox, node, data, ignored>>

Reboot == Fault /\ Reboots /\ UNCHANGED <<robot, inbox, node, data, ignored>>

Next ==
    \/ \E r \in Racks : Reach(r)
    \/ Stop \/ Crash \/ Launch
    \/ BotStatus \/ CameraSystem \/ ProcessLoop \/ CameraFails
    \/ Servos \/ Reboot
    \/ \E i \in DOMAIN sent : Lost(i)

\* The node's thread and the firmware's run on.  Strong fairness for the
\* threads of the bridge, which get to post when the firmware polls.
Spec ==
    /\ Init /\ [][Next]_vars
    /\ WF_vars(BotStatus) /\ WF_vars(CameraSystem)
    /\ SF_vars(ProcessLoop)
    /\ WF_vars(Loop /\ NodeStays)
    /\ SF_vars(\E i \in DOMAIN sent : Handle(i) /\ NodeStays)

-----------------------------------------------------------------------------
(* Properties.                                                             *)

\* The robot stands at the rack until the scan of it is over.
StandsStill == state \in Busy => bot = location

\* Every line that reaches a log or the backend names the rack its code was
\* really seen on, whatever was stopped, lost or restarted in between.
Truthful == \A line \in csv \cup backend : At[line.code] = line.rack

\* Nothing is known to the backend that the files do not have.
FilesFirst == backend \subseteq csv

\* What makes them inductive: only a robot that waits has sent a message, and
\* what is found lies where it waits.
Waiting ==
    /\ inbox # <<>> => inbox = <<bot>> /\ bot \in Racks /\ state \notin Busy
    /\ state \in Busy => location \in Racks

FoundHere ==
    /\ found # {} => state \in Looking \cup {"LOGGING"}
    /\ \A d \in found : At[d.code] = bot

Inv ==
    /\ ServoType /\ ScannerType /\ StandsStill /\ Truthful /\ FilesFirst
    /\ Waiting /\ FoundHere

\* A robot that waits at a rack is sent on, unless its message was one that
\* the node drops: unreadable, while it was parking, without a camera, or
\* lost with the process.
Answered == \A r \in Racks : (bot = r) ~> (bot # r \/ r \in ignored)
=============================================================================
