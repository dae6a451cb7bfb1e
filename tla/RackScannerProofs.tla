-------------------------- MODULE RackScannerProofs --------------------------
(***************************************************************************)
(* Proofs about the rack scanner and the servos, for every set of racks    *)
(* and codes, every route, spreadsheet and pose; and about a run of the    *)
(* command line scanner, for every topology, inventory and command line.   *)
(***************************************************************************)
EXTENDS RackScanner, ScanRun, FiniteSetTheorems, SequenceTheorems, WellFoundedInduction,
        TLAPS

Command == [cmd : {"MOVE", "STOP"}, to : Pose]
Frame   == [to : Pose, dir : [Axes -> {-1, 0, 1}], poll : BOOLEAN]

-----------------------------------------------------------------------------
(* The servos.                                                             *)

\* Taking an element out of a sequence leaves one of the same kind.
LEMMA RemoveType ==
    ASSUME NEW S, NEW s \in Seq(S), NEW i \in DOMAIN s
    PROVE  RemoveAt(s, i) \in Seq(S)
<1>1. i \in 1 .. Len(s) /\ Len(s) \in Nat
  OBVIOUS
<1>2. \A k \in 1 .. i - 1 : s[k] \in S
  BY <1>1
<1>3. \A k \in i + 1 .. Len(s) : s[k] \in S
  BY <1>1
<1>4. SubSeq(s, 1, i - 1) \in Seq(S)
  BY <1>1, <1>2, SubSeqProperties
<1>5. SubSeq(s, i + 1, Len(s)) \in Seq(S)
  BY <1>1, <1>3, SubSeqProperties
<1> QED  BY <1>4, <1>5, ConcatProperties DEF RemoveAt

\* What stays of a sequence when its first element is replaced or dropped.
LEMMA RestType ==
    ASSUME NEW S, NEW s \in Seq(S), s # <<>>
    PROVE  /\ Tail(s) \in Seq(S) /\ Head(s) \in S /\ s[1] = Head(s)
           /\ \A x \in S : <<x>> \o Tail(s) \in Seq(S)
<1>1. Tail(s) \in Seq(S) /\ Head(s) \in S /\ s[1] = Head(s)
  OBVIOUS
<1>2. ASSUME NEW x \in S PROVE <<x>> \o Tail(s) \in Seq(S)
  <2>1. <<x>> \in Seq(S)
    OBVIOUS
  <2> QED  BY <1>1, <2>1, ConcatProperties
<1> QED  BY <1>1, <1>2

\* The pose of a command.
LEMMA PoseType ==
    ASSUME NEW a \in Angles, NEW b \in Angles
    PROVE  [yaw |-> a, pitch |-> b] \in Pose
BY DEF Pose, Axes

LEMMA MoveType == \A pose \in Pose : Move(pose) \in Command
BY DEF Move, Command

LEMMA StopType == STOP \in Command
BY ServoAssumption DEF STOP, Command

\* A command that is sent (send_servo_command, send_servo_stop).
LEMMA SendType ==
    ASSUME ServoType, NEW c \in Command, Send(<<c>>), UNCHANGED <<pos, active, frames>>
    PROVE  ServoType'
<1>1. sent \in Seq(Command) /\ <<c>> \in Seq(Command)
  BY DEF ServoType, Command
<1>2. sent \o <<c>> \in Seq(Command)
  BY <1>1, ConcatProperties
<1> QED  BY <1>2 DEF Send, ServoType, Command

\* The firmware and the bridge (moveBothServosSmooth, handleCommand).
LEMMA LoopType ==
    ASSUME ServoType, Loop
    PROVE  ServoType'
<1> DEFINE f == Head(frames)
           next(a) == IF pos[a] = f.to[a] \/ pos[a] + f.dir[a] \notin Counts
                      THEN pos[a] ELSE pos[a] + f.dir[a]
           stepped == [f EXCEPT !.poll = TRUE]
<1>1. frames \in Seq(Frame) /\ frames # <<>> /\ pos \in [Axes -> Counts]
  BY DEF ServoType, Frame, Loop
<1>2. f \in Frame /\ Tail(frames) \in Seq(Frame) /\ \A x \in Frame : <<x>> \o Tail(frames) \in Seq(Frame)
  BY <1>1, RestType
<1>3. stepped \in Frame
  BY <1>2 DEF Frame
<1>4. [a \in Axes |-> next(a)] \in [Axes -> Counts]
  BY <1>1
<1>5. frames' \in Seq(Frame)
  <2>1. <<stepped>> \o Tail(frames) \in Seq(Frame)
    BY <1>2, <1>3
  <2>2. frames' = Tail(frames) \/ frames' = <<stepped>> \o Tail(frames)
    BY DEF Loop
  <2> QED  BY <1>2, <2>1, <2>2
<1>6. pos' \in [Axes -> Counts]
  BY <1>1, <1>4 DEF Loop
<1> QED  BY <1>5, <1>6 DEF Loop, ServoType, Frame

LEMMA HandleType ==
    ASSUME ServoType, NEW i \in DOMAIN sent, Handle(i)
    PROVE  ServoType'
<1> DEFINE caller == IF frames = <<>> THEN <<>>
                     ELSE <<[frames[1] EXCEPT !.poll = FALSE]>> \o Tail(frames)
           new == [to |-> sent[i].to, dir |-> Toward(pos, sent[i].to), poll |-> FALSE]
<1>1. frames \in Seq(Frame) /\ sent \in Seq(Command) /\ pos \in [Axes -> Counts] /\ active \in BOOLEAN
  BY DEF ServoType, Frame, Command
<1>2. sent[i] \in Command /\ RemoveAt(sent, i) \in Seq(Command)
  BY <1>1, RemoveType
<1>3. caller \in Seq(Frame)
  <2>1. CASE frames = <<>>
    BY <1>1, <2>1
  <2>2. CASE frames # <<>>
    <3>1. frames[1] \in Frame /\ \A x \in Frame : <<x>> \o Tail(frames) \in Seq(Frame)
      BY <1>1, <2>2, RestType
    <3>2. [frames[1] EXCEPT !.poll = FALSE] \in Frame
      BY <3>1 DEF Frame
    <3> QED  BY <2>2, <3>1, <3>2
  <2> QED  BY <2>1, <2>2
<1>4. new \in Frame
  <2>1. Toward(pos, sent[i].to) \in [Axes -> {-1, 0, 1}]
    BY DEF Toward
  <2> QED  BY <1>2, <2>1 DEF Frame, Command
<1>5. <<new>> \o caller \in Seq(Frame)
  <2>1. <<new>> \in Seq(Frame)
    BY <1>4
  <2> HIDE DEF new, caller
  <2> QED  BY <1>3, <2>1, ConcatProperties
<1>6. frames' = caller \/ frames' = <<new>> \o caller
  BY DEF Handle
<1>7. /\ sent' = RemoveAt(sent, i) /\ active' \in BOOLEAN /\ pos' = pos
  BY <1>1 DEF Handle
<1> HIDE DEF caller, new
<1> QED  BY <1>1, <1>2, <1>3, <1>5, <1>6, <1>7 DEF ServoType, Frame, Command

LEMMA DropType ==
    ASSUME ServoType, NEW i \in DOMAIN sent, Drop(i)
    PROVE  ServoType'
<1>1. sent \in Seq(Command)
  BY DEF ServoType, Command
<1>2. RemoveAt(sent, i) \in Seq(Command)
  BY <1>1, RemoveType
<1> QED  BY <1>2 DEF ServoType, Drop, Command

LEMMA RebootType == ServoType /\ Reboots => ServoType'
<1> SUFFICES ASSUME ServoType, Reboots PROVE ServoType'
  OBVIOUS
<1>1. Home \in [Axes -> Counts]
  BY ServoAssumption DEF Pose, Angles, Counts
<1> QED  BY <1>1 DEF ServoType, Reboots

-----------------------------------------------------------------------------
(* The node.                                                               *)

LEMMA Constants ==
    /\ \A p \in Int : Clip(p) \in Angles
    /\ ScanPose["yaw"] \in Angles /\ ScanPose["pitch"] \in Angles
    /\ ParkPose["yaw"] \in Angles /\ ParkPose["pitch"] \in Angles
    /\ Angles \subseteq Int /\ {PitchStep, Sweep, MaxTries, MaxFaults} \subseteq Nat
BY ServoAssumption, ScannerAssumption DEF Clip, Angles, Pose, Axes

\* A command to turn leaves the servos and the pitch the node believes in
\* as they should be (send_servo_command).
LEMMA TurnType ==
    ASSUME ServoType, NEW p \in Angles, NEW yaw \in Angles, Turn(yaw, p)
    PROVE  ServoType' /\ pitch' \in Angles
<1>1. Move([yaw |-> yaw, pitch |-> p]) \in Command
  BY PoseType, MoveType
<1> QED  BY <1>1, SendType DEF Turn

\* The database is that of the API, of the local file or of the sheet.
LEMMA VerdictType ==
    ASSUME NEW d PROVE Judge(d) \in Verdict
BY DEF Judge, Verdict

\* Only who stands at no rack reaches one, and nothing is under way then.
LEMMA OnTheRoad ==
    ASSUME Inv, bot \notin Racks
    PROVE  inbox = <<>> /\ state \notin Busy /\ found = {}
<1>1. state \notin Busy /\ inbox = <<>>
  BY DEF Inv, StandsStill, Waiting
<1> QED  BY <1>1 DEF Inv, FoundHere, Busy

\* The parts of the invariant in one step that writes no line.
Kept ==
    /\ ScannerType /\ StandsStill /\ Waiting /\ FoundHere

LEMMA NoLine ==
    ASSUME Inv, ServoType', Kept', UNCHANGED files
    PROVE  Inv'
BY DEF Inv, Kept, Truthful, FilesFirst, files

LEMMA ReachKeeps ==
    ASSUME Inv, NEW r \in Racks, Reach(r)
    PROVE  Inv'
<1>1. bot = Road /\ todo # <<>> /\ r = Head(todo) /\ todo \in Seq(Racks) /\ todo' = Tail(todo) /\ bot' = r
  BY DEF Reach, Inv, ScannerType
<1>2. inbox = <<>> /\ state \notin Busy /\ found = {}
  BY <1>1, OnTheRoad, ScannerAssumption
<1>3. todo' \in Seq(Racks)
  BY <1>1, RestType
<1>4. inbox' = <<>> \/ inbox' = <<r>>
  BY <1>2 DEF Reach
<1>5. <<r>> \in Seq(Racks) /\ ignored' \subseteq Racks
  BY DEF Reach, Inv, ScannerType
<1>6. UNCHANGED <<servo, node, data, faults>>
  BY DEF Reach
<1>7. ScannerType'
  BY <1>1, <1>2, <1>3, <1>4, <1>5, <1>6 DEF Inv, ScannerType, node, aim, data, files
<1>8. StandsStill' /\ Waiting' /\ FoundHere'
  BY <1>1, <1>2, <1>4, <1>6 DEF StandsStill, Waiting, FoundHere, node
<1> QED  BY <1>6, <1>7, <1>8, NoLine DEF Kept, Inv, ServoType, servo, data

\* The process ends, with the servos as they are or told to stop.
LEMMA DieKeeps ==
    ASSUME Inv, Die, ServoType', faults' \in 0 .. MaxFaults
    PROVE  Inv'
<1>1. ScannerType'
  <2>1. ParkPose["pitch"] \in Angles /\ <<>> \in Seq(Racks) /\ 0 \in 0 .. MaxTries
    BY Constants
  <2> QED  BY <2>1 DEF Die, Inv, ScannerType, robot, data, files, States
<1>2. StandsStill' /\ Waiting' /\ FoundHere'
  BY DEF Die, StandsStill, Waiting, FoundHere, Busy, Looking
<1> QED  BY <1>1, <1>2, NoLine DEF Die, Kept, data

LEMMA OperatorKeeps ==
    ASSUME Inv, Stop \/ Crash \/ Launch
    PROVE  Inv'
<1>1. CASE Stop
  <2>1. ServoType'
    BY <1>1, StopType, SendType DEF Stop, Inv
  <2>2. ScannerType'
    BY <1>1, Constants DEF Stop, Fault, Inv, ScannerType, robot, aim, data, files
  <2>3. StandsStill' /\ Waiting' /\ FoundHere'
    BY <1>1 DEF Stop, Inv, StandsStill, Waiting, FoundHere, robot
  <2> QED  BY <1>1, <2>1, <2>2, <2>3, NoLine DEF Kept, Stop, data
<1>2. CASE Crash
  <2>1. ServoType' /\ faults' \in 0 .. MaxFaults
    BY <1>2, Constants DEF Crash, Fault, Inv, ServoType, servo, ScannerType
  <2> QED  BY <1>2, <2>1, DieKeeps DEF Crash
<1>3. CASE Launch
  <2>1. state' = "IDLE" /\ found = {} /\ state = "ended" /\ bot' = bot /\ inbox' = inbox /\ found' = found
    BY <1>3 DEF Launch, Inv, FoundHere, Looking, robot
  <2>2. ScannerType'
    BY <1>3, Constants DEF Launch, LoadDatabase, Inv, ScannerType, robot, files, States
  <2>3. StandsStill' /\ Waiting' /\ FoundHere'
    BY <2>1 DEF Inv, StandsStill, Waiting, FoundHere, Busy, Looking
  <2> QED  BY <1>3, <2>2, <2>3, NoLine DEF Kept, Launch, Inv, ServoType, servo
<1> QED  BY <1>1, <1>2, <1>3

\* The callbacks: a "Reached" that is heeded names the rack the robot stands
\* at (bot_status_callback, camera_system_callback).
LEMMA CallbackKeeps ==
    ASSUME Inv, BotStatus \/ CameraSystem
    PROVE  Inv'
<1>1. CASE BotStatus
  <2>1. inbox = <<bot>> /\ bot \in Racks /\ state \notin Busy /\ inbox # <<>>
    BY <1>1 DEF BotStatus, Inv, Waiting
  <2>2. Head(inbox) = bot /\ inbox' = <<>> /\ found = {} /\ <<>> \in Seq(Racks)
    BY <1>1, <2>1 DEF BotStatus, Inv, FoundHere, Busy
  <2>3. \/ state' = "MOVING_TO_SCAN" /\ location' = bot /\ ignored' = ignored
        \/ state' = state /\ location' = location /\ ignored' = ignored \cup {bot}
    BY <1>1, <2>2 DEF BotStatus
  <2>4. UNCHANGED <<servo, robot, stopping, aim, found, data, faults>>
    BY <1>1 DEF BotStatus
  <2>5. ScannerType'
    BY <2>1, <2>2, <2>3, <2>4 DEF Inv, ScannerType, robot, aim, data, files, States, Busy
  <2>6. StandsStill' /\ Waiting' /\ FoundHere'
    BY <2>1, <2>2, <2>3, <2>4 DEF StandsStill, Waiting, FoundHere, robot
  <2> QED  BY <2>4, <2>5, <2>6, NoLine DEF Kept, Inv, ServoType, servo, data
<1>2. CASE CameraSystem
  <2>1. state' = "SHUTDOWN" /\ found = {}
    BY <1>2 DEF CameraSystem, Spinning, Inv, FoundHere
  <2>2. UNCHANGED <<servo, robot, inbox, location, aim, found, data, ignored, faults>> /\ stopping' = FALSE
    BY <1>2 DEF CameraSystem
  <2>3. ScannerType'
    BY <2>1, <2>2 DEF Inv, ScannerType, robot, aim, data, files, States
  <2>4. StandsStill' /\ Waiting' /\ FoundHere'
    BY <2>1, <2>2 DEF Inv, StandsStill, Waiting, FoundHere, robot, Busy, Looking
  <2> QED  BY <2>2, <2>3, <2>4, NoLine DEF Kept, Inv, ServoType, servo, data
<1> QED  BY <1>1, <1>2

-----------------------------------------------------------------------------
(* The timer: process_loop.                                                *)

\* A step of the timer in which the robot and the files stay and the state
\* remains one of those in which the robot stands, or becomes another with
\* nothing found.
LEMMA TimerKeeps ==
    ASSUME Inv, state \in Busy \cup {"MOVING_TO_PARK"}, state' \in States,
           UNCHANGED <<robot, inbox, stopping, location, found, data>>, ServoType',
           state' \in Busy => state \in Busy,
           found # {} => state' \in Looking \cup {"LOGGING"},
           pitch' \in Angles, centre' \in Angles, tries' \in 0 .. MaxTries,
           ignored' \subseteq Racks, faults' \in 0 .. MaxFaults
    PROVE  Inv'
<1>1. ScannerType'
  BY DEF Inv, ScannerType, robot, data, files
<1>2. StandsStill' /\ Waiting' /\ FoundHere'
  BY DEF Inv, StandsStill, Waiting, FoundHere, robot
<1> QED  BY <1>1, <1>2, NoLine DEF Kept, data

LEMMA PoseKeeps ==
    ASSUME Inv, MoveToScan \/ CameraFails \/ AdjustPitch \/ Adjusted \/ Return \/ MoveToPark
    PROVE  Inv'
<1>1. /\ pitch \in Angles /\ centre \in Angles /\ tries \in 0 .. MaxTries /\ MaxTries \in Nat
      /\ ignored \subseteq Racks /\ faults \in 0 .. MaxFaults /\ MaxFaults \in Nat /\ ServoType
  BY Constants DEF Inv, ScannerType
<1>2. UNCHANGED servo => ServoType'
  BY <1>1 DEF servo, ServoType
<1>3. CASE MoveToScan
  <2>1. ServoType' /\ pitch' \in Angles
    BY <1>1, <1>3, Constants, TurnType DEF MoveToScan
  <2>2. found = {}
    BY <1>3 DEF MoveToScan, Inv, FoundHere, Looking
  <2> QED  BY <1>1, <1>3, <2>1, <2>2, TimerKeeps DEF MoveToScan, Busy, States
<1>4. CASE CameraFails
  <2>1. found = {} /\ location \in Racks
    BY <1>4 DEF CameraFails, Inv, FoundHere, Looking, Waiting, Busy
  <2>2. faults' \in 0 .. MaxFaults /\ ignored' \subseteq Racks
    BY <1>1, <1>4, <2>1 DEF CameraFails, Fault
  <2> QED  BY <1>1, <1>2, <1>4, <2>1, <2>2, TimerKeeps DEF CameraFails, aim, Busy, Looking, States
<1>5. CASE AdjustPitch
  <2>1. PICK p \in {pitch - PitchStep, pitch + PitchStep} : Turn(ScanPose["yaw"], Clip(p))
    BY <1>5 DEF AdjustPitch
  <2>2. p \in Int
    BY <1>1, Constants
  <2>3. ServoType' /\ pitch' \in Angles
    BY <1>1, <2>1, <2>2, Constants, TurnType
  <2>4. found = {} /\ tries' \in 0 .. MaxTries
    BY <1>1, <1>5 DEF AdjustPitch, Inv, FoundHere, Looking
  <2> QED  BY <1>1, <1>5, <2>3, <2>4, TimerKeeps DEF AdjustPitch, Busy, States
<1>6. CASE Adjusted
  <2>1. found = {}
    BY <1>6 DEF Adjusted, Inv, FoundHere, Looking
  <2> QED  BY <1>1, <1>2, <1>6, <2>1, TimerKeeps DEF Adjusted, Busy, Looking, States
<1>7. CASE Return
  BY <1>1, <1>2, <1>7, Constants, TimerKeeps DEF Return, Busy, Looking, States
<1>8. CASE MoveToPark
  <2>1. ServoType' /\ pitch' \in Angles
    BY <1>1, <1>8, Constants, TurnType DEF MoveToPark
  <2>2. found = {}
    BY <1>8 DEF MoveToPark, Inv, FoundHere, Looking
  <2> QED  BY <1>1, <1>8, <2>1, <2>2, TimerKeeps DEF MoveToPark, Busy, Looking, States
<1> QED  BY <1>3, <1>4, <1>5, <1>6, <1>7, <1>8

\* Frames: whatever is decoded lies at the rack the robot stands at
\* (run_scan, detect_qr_codes).
LEMMA LookKeeps ==
    ASSUME Inv, LookCentred \/ LookUp \/ LookDown
    PROVE  Inv'
<1>1. /\ pitch \in Angles /\ centre \in Angles /\ tries \in 0 .. MaxTries /\ ServoType
  BY DEF Inv, ScannerType
<1>2. PICK shelves \in SUBSET (Shelves \cup {NoShelf}) : Sees(shelves)
  BY DEF LookCentred, LookUp, LookDown, Look, Shelves
<1>3. /\ state \in Looking /\ state' \in Looking \cup {"LOGGING"}
      /\ UNCHANGED <<robot, inbox, stopping, location, data, ignored, faults>>
  BY DEF LookCentred, LookUp, LookDown, Look, Looking
<1>4. \/ StayThere
      \/ \E p \in Int : TurnTo(p) /\ centre' \in {centre, pitch}
  BY <1>1, Constants DEF LookCentred, LookUp, LookDown, Look
<1>5. ServoType' /\ pitch' \in Angles /\ centre' \in Angles /\ tries' = tries
  <2>1. CASE StayThere
    BY <1>1, <2>1 DEF StayThere, servo, aim, ServoType
  <2>2. ASSUME NEW p \in Int, TurnTo(p), centre' \in {centre, pitch}
        PROVE  ServoType' /\ pitch' \in Angles /\ centre' \in Angles /\ tries' = tries
    BY <1>1, <2>2, Constants, TurnType DEF TurnTo
  <2> QED  BY <1>4, <2>1, <2>2
<1>6. /\ \A d \in found' : At[d.code] = bot
      /\ found' \subseteq [code : Codes, shelf : Shelves \cup {NoShelf}]
  <2>1. PICK S \in SUBSET {c \in Codes : At[c] = bot} : \E shelf \in [S -> shelves] :
                found' = found \cup {[code |-> c, shelf |-> shelf[c]] : c \in S}
    BY <1>2 DEF Sees
  <2>2. PICK shelf \in [S -> shelves] : found' = found \cup {[code |-> c, shelf |-> shelf[c]] : c \in S}
    BY <2>1
  <2>3. \A c \in S : c \in Codes /\ At[c] = bot /\ shelf[c] \in Shelves \cup {NoShelf}
    BY <2>1, <2>2
  <2>4. (\A d \in found : At[d.code] = bot) /\ found \subseteq [code : Codes, shelf : Shelves \cup {NoShelf}]
    BY DEF Inv, FoundHere, ScannerType
  <2> QED  BY <2>2, <2>3, <2>4
<1>7. ScannerType'
  BY <1>1, <1>3, <1>5, <1>6 DEF Inv, ScannerType, robot, data, files, States, Busy
<1>8. StandsStill' /\ Waiting'
  BY <1>3 DEF Inv, StandsStill, Waiting, robot, Busy
<1>9. FoundHere'
  BY <1>3, <1>6 DEF FoundHere, robot
<1> QED  BY <1>3, <1>5, <1>7, <1>8, <1>9, NoLine DEF Kept, data

\* A result that is written down: the file first, and the rack is the one the
\* code lies at (process_scan_results, log_scan).
LEMMA LogScanKeeps ==
    ASSUME Inv, NEW d \in found, LogScan(d)
    PROVE  Inv'
<1> DEFINE line == [code |-> d.code, rack |-> location, shelf |-> d.shelf, verdict |-> Judge(d)]
<1>1. /\ state = "LOGGING" /\ found' = found \ {d}
      /\ UNCHANGED <<servo, robot, inbox, stopping, state, location, aim, database, ignored>>
  BY DEF LogScan
<1>2. bot = location /\ location \in Racks /\ At[d.code] = bot
      /\ d \in [code : Codes, shelf : Shelves \cup {NoShelf}]
  BY <1>1 DEF Inv, StandsStill, Waiting, FoundHere, Busy, ScannerType
<1>3. line \in Line /\ At[line.code] = line.rack
  BY <1>2, VerdictType DEF Line
<1>4. /\ csv' = csv \/ csv' = csv \cup {line}
      /\ backend' = backend \/ (backend' = backend \cup {line} /\ csv' = csv \cup {line})
      /\ faults' = faults \/ Fault
  BY DEF LogScan, Submit, files
<1>5. faults' \in 0 .. MaxFaults
  BY <1>4, Constants DEF Fault, Inv, ScannerType
<1> HIDE DEF line
<1>6. ServoType'
  BY <1>1 DEF Inv, ServoType, servo
<1>7. ScannerType'
  BY <1>1, <1>3, <1>4, <1>5 DEF Inv, ScannerType, robot, aim
<1>8. StandsStill' /\ Waiting' /\ FoundHere'
  BY <1>1 DEF Inv, StandsStill, Waiting, FoundHere, robot
<1>9. Truthful' /\ FilesFirst'
  BY <1>3, <1>4 DEF Inv, Truthful, FilesFirst
<1> QED  BY <1>6, <1>7, <1>8, <1>9 DEF Inv

LEMMA SucceedKeeps ==
    ASSUME Inv, Succeed
    PROVE  Inv'
<1>1. state = "LOGGING" /\ state' = "MOVING_TO_PARK" /\ found = {} /\ bot = location
      /\ bot' = Road /\ location \in Racks /\ inbox = <<>>
  BY DEF Succeed, Inv, StandsStill, Waiting, Busy
<1>2. UNCHANGED <<servo, todo, inbox, stopping, location, aim, found, data, ignored, faults>>
  BY DEF Succeed
<1>3. ScannerType'
  BY <1>1, <1>2 DEF Inv, ScannerType, aim, data, files, States
<1>4. StandsStill' /\ Waiting' /\ FoundHere'
  BY <1>1, <1>2 DEF StandsStill, Waiting, FoundHere, Busy, Looking
<1> QED  BY <1>2, <1>3, <1>4, NoLine DEF Kept, Inv, ServoType, servo, data

-----------------------------------------------------------------------------
LEMMA ServosKeep ==
    ASSUME Inv, ServoType', NodeStays \/ (Fault /\ UNCHANGED <<robot, inbox, node, data, ignored>>)
    PROVE  Inv'
<1>1. faults' \in 0 .. MaxFaults /\ UNCHANGED <<robot, inbox, node, data, ignored>>
  BY Constants DEF NodeStays, Fault, Inv, ScannerType
<1>2. ScannerType'
  BY <1>1 DEF Inv, ScannerType, robot, node, aim, data, files
<1>3. StandsStill' /\ Waiting' /\ FoundHere'
  BY <1>1 DEF Inv, StandsStill, Waiting, FoundHere, robot, node
<1> QED  BY <1>1, <1>2, <1>3, NoLine DEF Kept, data

\* The robot stands at a rack while it is scanned, every line that reaches a
\* log or the backend names the rack its code lies at, and the backend knows
\* of nothing the files do not have, whatever is stopped, lost or restarted
\* (rack_scanner_node.py, scanner_api_bridge.py, esp32_servo_controller.ino).
THEOREM InvCorrect == Spec => []Inv
<1>1. Init => Inv
  <2> SUFFICES ASSUME Init PROVE Inv
    OBVIOUS
  <2>1. ServoType
    <3>1. Home \in [Axes -> Counts]
      BY ServoAssumption DEF Pose, Angles, Counts
    <3> QED  BY <3>1 DEF Init, ServoInit, ServoType
  <2>2. ScannerType
    <3>1. todo \in Seq(Racks) /\ inbox \in Seq(Racks)
      BY ScannerAssumption DEF Init
    <3>2. pitch \in Angles /\ centre \in Angles /\ tries \in 0 .. MaxTries /\ faults \in 0 .. MaxFaults
      BY Constants DEF Init
    <3> QED  BY <3>1, <3>2 DEF Init, ScannerType, States
  <2>3. StandsStill /\ Waiting /\ FoundHere /\ Truthful /\ FilesFirst
    BY DEF Init, StandsStill, Waiting, FoundHere, Truthful, FilesFirst, Busy, Looking
  <2> QED  BY <2>1, <2>2, <2>3 DEF Inv
<1>2. Inv /\ [Next]_vars => Inv'
  <2> SUFFICES ASSUME Inv, [Next]_vars PROVE Inv'
    OBVIOUS
  <2>1. CASE \E r \in Racks : Reach(r)
    BY <2>1, ReachKeeps
  <2>2. CASE Stop \/ Crash \/ Launch
    BY <2>2, OperatorKeeps
  <2>3. CASE BotStatus \/ CameraSystem
    BY <2>3, CallbackKeeps
  <2>4. CASE ShutdownTurn
    <3>1. ServoType' /\ faults' \in 0 .. MaxFaults
      BY <2>4, StopType, SendType DEF ShutdownTurn, Inv, ScannerType
    <3> QED  BY <2>4, <3>1, DieKeeps DEF ShutdownTurn
  <2>5. CASE MoveToScan \/ CameraFails \/ AdjustPitch \/ Adjusted \/ Return \/ MoveToPark
    BY <2>5, PoseKeeps
  <2>6. CASE LookCentred \/ LookUp \/ LookDown
    BY <2>6, LookKeeps
  <2>7. CASE \E d \in found : LogScan(d)
    BY <2>7, LogScanKeeps
  <2>8. CASE Succeed
    BY <2>8, SucceedKeeps
  <2>9. CASE Servos
    <3>1. ServoType'
      BY <2>9, LoopType, HandleType DEF Servos, Firmware, Inv
    <3> QED  BY <2>9, <3>1, ServosKeep DEF Servos
  <2>10. CASE Reboot \/ \E i \in DOMAIN sent : Lost(i)
    <3>1. ServoType'
      BY <2>10, RebootType, DropType DEF Reboot, Lost, Inv
    <3> QED  BY <2>10, <3>1, ServosKeep DEF Reboot, Lost
  <2>11. CASE UNCHANGED vars
    <3>1. ServoType' /\ NodeStays
      BY <2>11 DEF vars, NodeStays, Inv, ServoType, servo
    <3> QED  BY <3>1, ServosKeep
  <2> QED  BY <2>1, <2>2, <2>3, <2>4, <2>5, <2>6, <2>7, <2>8, <2>9, <2>10, <2>11
           DEF Next, ProcessLoop
<1> QED  BY <1>1, <1>2, PTL DEF Spec

-----------------------------------------------------------------------------
(* A run of the command line scanner (ScanRun).                            *)

AtRack == {"camera", "bin", "alert"}
Rack   == Head(plan).rack

\* Where the run is says what it has planned.
PlanFits ==
    /\ \A b \in DOMAIN inventory : inventory[b] \in Labels
    /\ pc \in {"create", "topology"} => plan = <<>> /\ results = <<>>
    /\ pc \in {"wait"} \cup AtRack => plan # <<>>
    /\ pc = "report" => plan = <<>>
    /\ pc \in {"bin", "alert"} => \A k \in DOMAIN Head(plan).bins : detected[Head(plan).bins[k]] \in Seen
    /\ \A i \in DOMAIN plan :
        plan[i].bins # <<>> \/ (i = 1 /\ pc = "bin" /\ \E j \in DOMAIN results : results[j].rack = Rack)

Apart(p) ==
    \A i, j \in DOMAIN p : \A k \in DOMAIN p[i].bins, l \in DOMAIN p[j].bins :
        p[i].bins[k] = p[j].bins[l] => i = j /\ k = l

Logs(m, b) == ~results[m].error /\ results[m].bin = b

\* No bin is planned or recorded twice, nor recorded and planned still, but
\* for the one whose alert is to follow.
BinsOnce ==
    /\ Apart(plan)
    /\ \A m, n \in DOMAIN results : ~results[m].error /\ Logs(n, results[m].bin) => m = n
    /\ \A m \in DOMAIN results, i \in DOMAIN plan : \A k \in DOMAIN plan[i].bins :
        Logs(m, plan[i].bins[k]) => pc = "alert" /\ i = 1 /\ k = 1
    /\ pc = "alert" =>
        /\ Head(plan).bins # <<>> /\ results # <<>>
        /\ LET r == results[Len(results)]
           IN  ~r.error /\ r.bin = Bin /\ r.rack = Rack /\ r.expected # None /\ r.observed # r.expected

Recorded(b) == \E m \in DOMAIN results : Logs(m, b)
Differs(b)  == \E m \in DOMAIN results :
                   Logs(m, b) /\ results[m].expected # None /\ results[m].observed # results[m].expected
Saw(b, x)   == \E m \in DOMAIN results : Logs(m, b) /\ results[m].observed = x
OffTable(b) == \E m \in DOMAIN results : Logs(m, b) /\ results[m].observed # BinCode(b)
Pending(b)  == pc = "alert" /\ Bin = b

Waits(what, b) == \E e \in late : e.what = what /\ e.bin = b

\* A late call carries what the run has recorded.
LateFits(e) ==
    /\ e.what \in {"observe", "alert"} => e.bin \in AllBins
    /\ e.what = "observe" => Saw(e.bin, e.seen)
    /\ e.what = "alert" => e.seen = None

\* What a bin's calls have to do with what the run has recorded of it: a call
\* is made once, and it is handled, or late, or lost.
BinsCalls(b) ==
    /\ stored[b] \in {0, 1} /\ (stored[b] = 1 => ~Waits("observe", b))
    /\ stored[b] = 1 \/ Waits("observe", b) => Recorded(b)
    /\ callFaults = 0 /\ Recorded(b) => stored[b] = 1
    /\ raised[b] \in {0, 1} /\ (raised[b] = 1 => stored[b] = 1 /\ OffTable(b))
    /\ callFaults = 0 /\ OffTable(b) => raised[b] = 1
    /\ alerts[b] \in {0, 1} /\ (alerts[b] = 1 => ~Waits("alert", b))
    /\ alerts[b] = 1 \/ Waits("alert", b) => Differs(b) /\ ~Pending(b)
    /\ callFaults = 0 /\ Differs(b) /\ ~Pending(b) => alerts[b] = 1

CallsOnce ==
    /\ \A e \in late : LateFits(e)
    /\ \A b \in AllBins : BinsCalls(b)
    /\ mission = "COMPLETED" \/ (\E e \in late : e.what = "complete") =>
           pc \in {"report", "done"} /\ plan = <<>>

\* The exit code tells whether something differed from what was expected.
ExitFits ==
    /\ \A m \in DOMAIN results : results[m].expected = Expects(results[m].bin)
    /\ exit # None => pc = "done"
    /\ exit = 0 => \A m \in DOMAIN results :
                       results[m].error \/ results[m].observed = results[m].expected
    /\ exit = 2 /\ (\A m \in DOMAIN results : results[m].expected # None) => \E b \in AllBins : Differs(b)

\* What the run has recorded excuses what follows.
Excused == \E j \in DOMAIN results : results[j].error \/ earlier \in Within[results[j].rack]

Old(q) == \A i \in DOMAIN q : q[i] = earlier

Quiet ==
    /\ drive.to \in {None, earlier} /\ Old(topic) /\ ~hearing
    /\ target = None \/ earlier \notin Within[target]

Stands == drive.at = Rack /\ drive.to = None

\* The arrival that the run waits for is asked for, announced, heard or told.
Awaited ==
    \/ drive.to = Rack /\ Old(topic) /\ ~hearing /\ ~event
    \/ Stands /\ ~hearing /\ ~event
         /\ \E i \in DOMAIN topic : topic[i] = Rack /\ \A j \in DOMAIN topic \ {i} : topic[j] = earlier
    \/ Stands /\ Old(topic) /\ (hearing <=> ~event)

DriveTells ==
    ros /\ ~Excused =>
        /\ pc \in {"create", "topology", "next"} => Quiet
        /\ pc = "wait" /\ earlier \notin Within[Rack] => target = Rack /\ Awaited
        /\ pc \in AtRack /\ earlier \notin Within[Rack] =>
               target = Rack /\ Stands /\ Old(topic) /\ ~hearing

RunInv == ScanRunTypeOK /\ PlanFits /\ BinsOnce /\ CallsOnce /\ ExitFits /\ DriveTells /\ SeenAtRack

-----------------------------------------------------------------------------
(* The plan.                                                               *)

LEMMA Least ==
    ASSUME NEW T \in SUBSET Nat, T # {}
    PROVE  \E x \in T : \A y \in T : x <= y
<1>1. PICK R : R = OpToRel(<, Nat)
  OBVIOUS
<1>2. IsWellFoundedOn(R, Nat)
  BY <1>1, NatLessThanWellFounded
<1>3. PICK x \in T : \A y \in T : <<y, x>> \notin R
  BY <1>2, WFMin
<1>4. \A y, z \in Nat : y < z => <<y, z>> \in R
  BY <1>1 DEF OpToRel
<1>5. ASSUME NEW y \in T PROVE x <= y
  <2>1. x \in Nat /\ y \in Nat /\ ~(y < x)
    BY <1>3, <1>4
  <2> QED  BY <2>1
<1> QED  BY <1>5

Climbs(f) == \A i, j \in DOMAIN f : i < j => f[i] < f[j]
HasOrder(I) == \E f \in [1 .. Cardinality(I) -> I] : Climbs(f)

\* A finite set of numbers has an order: its least member, then the rest.
LEMMA OrderExists ==
    ASSUME NEW I \in SUBSET Nat, IsFiniteSet(I)
    PROVE  HasOrder(I)
<1> DEFINE T == {n \in Nat : \E J \in SUBSET Nat : IsFiniteSet(J) /\ Cardinality(J) = n /\ ~HasOrder(J)}
<1>1. SUFFICES T = {}
  BY FS_CardinalityType
<1>2. SUFFICES ASSUME T # {} PROVE FALSE
  OBVIOUS
<1>3. PICK n \in T : \A m \in T : n <= m
  BY <1>2, Least
<1>4. PICK J \in SUBSET Nat : IsFiniteSet(J) /\ Cardinality(J) = n /\ ~HasOrder(J)
  BY <1>3
<1>5. J # {}
  <2>1. HasOrder({})
    <3>1. Cardinality({}) = 0
      BY FS_EmptySet
    <3>2. [i \in 1 .. 0 |-> 0] \in [1 .. 0 -> {}] /\ Climbs([i \in 1 .. 0 |-> 0])
      BY DEF Climbs
    <3> QED  BY <3>1, <3>2 DEF HasOrder
  <2> QED  BY <1>4, <2>1
<1>6. PICK a \in J : \A b \in J : a <= b
  BY <1>5, Least
<1>7. /\ IsFiniteSet(J \ {a}) /\ Cardinality(J \ {a}) = n - 1 /\ n \in Nat /\ n # 0
      /\ n - 1 \in Nat
  BY <1>4, <1>6, FS_RemoveElement, FS_EmptySet, FS_CardinalityType
<1>8. HasOrder(J \ {a})
  BY <1>3, <1>7
<1>9. PICK g \in [1 .. n - 1 -> J \ {a}] : Climbs(g)
  BY <1>7, <1>8 DEF HasOrder
<1> DEFINE f == [k \in 1 .. n |-> IF k = 1 THEN a ELSE g[k - 1]]
<1>10. \A k \in 1 .. n : k # 1 => k - 1 \in 1 .. n - 1 /\ g[k - 1] \in J /\ a < g[k - 1]
  <2> SUFFICES ASSUME NEW k \in 1 .. n, k # 1
               PROVE  k - 1 \in 1 .. n - 1 /\ g[k - 1] \in J /\ a < g[k - 1]
    OBVIOUS
  <2>1. k - 1 \in 1 .. n - 1
    BY <1>7
  <2>2. g[k - 1] \in J \ {a}
    BY <1>9, <2>1
  <2>3. g[k - 1] \in Nat /\ a \in Nat /\ a <= g[k - 1] /\ g[k - 1] # a
    BY <1>6, <2>2
  <2> QED  BY <2>1, <2>2, <2>3
<1>11. f \in [1 .. n -> J]
  BY <1>6, <1>10
<1>12. ASSUME NEW i \in 1 .. n, NEW j \in 1 .. n, i < j PROVE f[i] < f[j]
  <2>1. j # 1 /\ j - 1 \in 1 .. n - 1 /\ f[j] = g[j - 1]
    BY <1>7, <1>10, <1>12
  <2>2. CASE i = 1
    BY <1>10, <2>1, <2>2
  <2>3. CASE i # 1
    <3>1. i - 1 \in 1 .. n - 1 /\ f[i] = g[i - 1] /\ i - 1 < j - 1
      BY <1>7, <1>10, <1>12, <2>3
    <3> QED  BY <1>9, <2>1, <3>1 DEF Climbs
  <2> QED  BY <2>2, <2>3
<1>13. HasOrder(J)
  BY <1>4, <1>11, <1>12 DEF HasOrder, Climbs
<1> QED  BY <1>4, <1>13

LEMMA AscendingFacts ==
    ASSUME NEW I \in SUBSET Nat, IsFiniteSet(I)
    PROVE  /\ Ascending(I) \in [1 .. Cardinality(I) -> I] /\ Cardinality(I) \in Nat
           /\ \A i, j \in 1 .. Cardinality(I) : Ascending(I)[i] = Ascending(I)[j] => i = j
<1>1. Ascending(I) \in [1 .. Cardinality(I) -> I] /\ Climbs(Ascending(I))
  BY OrderExists DEF HasOrder, Climbs, Ascending
<1>2. Cardinality(I) \in Nat
  BY FS_CardinalityType
<1>3. ASSUME NEW i \in 1 .. Cardinality(I), NEW j \in 1 .. Cardinality(I), i < j
      PROVE  Ascending(I)[i] # Ascending(I)[j]
  <2>1. Ascending(I)[i] \in Nat /\ Ascending(I)[j] \in Nat
    BY <1>1
  <2>2. Ascending(I)[i] < Ascending(I)[j]
    BY <1>1, <1>3 DEF Climbs
  <2> QED  BY <2>1, <2>2
<1> QED  BY <1>1, <1>2, <1>3

Planned == [rack : ScanRacks, bins : Seq(AllBins)]

LEMMA ParseFacts ==
    ASSUME NEW r
    PROVE  LET p == ParseTopology(r) IN
           p \in Seq(Planned) /\ Apart(p) /\ \A i \in DOMAIN p : p[i].bins # <<>>
<1> DEFINE Chosen(t) == CASE r.scope = "rack"  -> t.rack = r.target
                          [] r.scope = "aisle" -> t.aisle = r.target
                          [] r.scope = "bin"   -> r.target \in ToSet(t.bins)
                          [] OTHER -> TRUE
           rows == {i \in DOMAIN Topology : Chosen(Topology[i]) /\ Topology[i].bins # <<>>}
           bins(t) == IF r.scope = "bin" THEN <<r.target>> ELSE t.bins
           n == Cardinality(rows)
           A == Ascending(rows)
           p == ParseTopology(r)
<1>1. \A i \in rows : r.scope = "bin" => r.target \in ToSet(Topology[i].bins)
  OBVIOUS
<1>2. DOMAIN Topology = 1 .. Len(Topology) /\ Len(Topology) \in Nat
  BY ScanAssumption
<1>3. rows \in SUBSET Nat /\ IsFiniteSet(rows)
  <2>1. IsFiniteSet(1 .. Len(Topology))
    BY <1>2, FS_Interval
  <2>2. rows \subseteq 1 .. Len(Topology)
    BY <1>2
  <2> QED  BY <2>1, <2>2, FS_Subset
<1>4. /\ A \in [1 .. n -> rows] /\ n \in Nat
      /\ \A i, j \in 1 .. n : A[i] = A[j] => i = j
  BY <1>3, AscendingFacts
<1>5. p = [k \in 1 .. n |-> [rack |-> Topology[A[k]].rack, bins |-> bins(Topology[A[k]])]]
  BY DEF ParseTopology
<1>6. \A i \in rows : /\ i \in DOMAIN Topology /\ Topology[i].rack \in ScanRacks
                     /\ Topology[i].bins \in Seq(Bins) /\ Topology[i].bins # <<>>
  <2> SUFFICES ASSUME NEW i \in rows
               PROVE  /\ i \in DOMAIN Topology /\ Topology[i].rack \in ScanRacks
                      /\ Topology[i].bins \in Seq(Bins) /\ Topology[i].bins # <<>>
    OBVIOUS
  <2>1. i \in DOMAIN Topology /\ Topology[i].bins # <<>>
    OBVIOUS
  <2> HIDE DEF rows
  <2>2. Topology \in Seq([rack : ScanRacks, aisle : {"A1", "A2"}, bins : Seq(Bins)])
    BY ScanAssumption
  <2>3. i \in 1 .. Len(Topology)
    BY <1>2, <2>1
  <2>4. Topology[i] \in [rack : ScanRacks, aisle : {"A1", "A2"}, bins : Seq(Bins)]
    BY <2>2, <2>3, ElementOfSeq
  <2> QED  BY <2>1, <2>4
<1> HIDE DEF rows, n, A, p
<1>7. ASSUME NEW i \in rows
      PROVE  /\ bins(Topology[i]) \in Seq(AllBins) /\ bins(Topology[i]) # <<>>
             /\ \A k \in DOMAIN bins(Topology[i]) : \E l \in DOMAIN Topology[i].bins :
                    /\ Topology[i].bins[l] = bins(Topology[i])[k]
                    /\ r.scope # "bin" => l = k
             /\ r.scope = "bin" => DOMAIN bins(Topology[i]) = {1}
  <2>1. CASE r.scope = "bin"
    <3>1. PICK l \in DOMAIN Topology[i].bins : Topology[i].bins[l] = r.target
      BY <1>1, <2>1 DEF ToSet
    <3>2. r.target \in Bins
      BY <1>6, <3>1
    <3>3. bins(Topology[i]) = <<r.target>>
      BY <2>1
    <3> QED  BY <2>1, <3>1, <3>2, <3>3 DEF AllBins
  <2>2. CASE r.scope # "bin"
    <3>1. bins(Topology[i]) = Topology[i].bins /\ Topology[i].bins \in Seq(Bins)
      BY <1>6, <2>2
    <3> QED  BY <1>6, <2>2, <3>1 DEF AllBins
  <2> QED  BY <2>1, <2>2
<1> HIDE DEF bins
<1>8. ASSUME NEW k \in 1 .. n
      PROVE  /\ A[k] \in rows /\ p[k].bins = bins(Topology[A[k]])
             /\ p[k] \in Planned
  BY <1>4, <1>5, <1>6, <1>7 DEF Planned
<1>9. p \in Seq(Planned) /\ DOMAIN p = 1 .. n
  BY <1>4, <1>5, <1>8, IsASeq
<1>10. \A i \in DOMAIN p : p[i].bins # <<>>
  BY <1>7, <1>8, <1>9
<1>11. ASSUME NEW i \in 1 .. n, NEW j \in 1 .. n, NEW k \in DOMAIN p[i].bins, NEW l \in DOMAIN p[j].bins,
              p[i].bins[k] = p[j].bins[l]
       PROVE  i = j /\ k = l
  <2>a. /\ A[i] \in rows /\ p[i].bins = bins(Topology[A[i]])
        /\ A[j] \in rows /\ p[j].bins = bins(Topology[A[j]])
    BY <1>8
  <2>1. PICK x \in DOMAIN Topology[A[i]].bins :
              Topology[A[i]].bins[x] = p[i].bins[k] /\ (r.scope # "bin" => x = k)
    <3>1. PICK a \in rows : a = A[i]
      BY <2>a
    <3>2. k \in DOMAIN bins(Topology[a]) /\ p[i].bins = bins(Topology[a])
      BY <2>a, <3>1
    <3>3. PICK x \in DOMAIN Topology[a].bins :
              Topology[a].bins[x] = bins(Topology[a])[k] /\ (r.scope # "bin" => x = k)
      BY <1>7, <3>2
    <3> QED  BY <3>1, <3>2, <3>3
  <2>2. PICK y \in DOMAIN Topology[A[j]].bins :
              Topology[A[j]].bins[y] = p[j].bins[l] /\ (r.scope # "bin" => y = l)
    <3>1. PICK a \in rows : a = A[j]
      BY <2>a
    <3>2. l \in DOMAIN bins(Topology[a]) /\ p[j].bins = bins(Topology[a])
      BY <2>a, <3>1
    <3>3. PICK y \in DOMAIN Topology[a].bins :
              Topology[a].bins[y] = bins(Topology[a])[l] /\ (r.scope # "bin" => y = l)
      BY <1>7, <3>2
    <3> QED  BY <3>1, <3>2, <3>3
  <2>3. A[i] \in DOMAIN Topology /\ A[j] \in DOMAIN Topology
    BY <1>6, <1>8
  <2>4. A[i] = A[j] /\ x = y
    BY <1>11, <2>1, <2>2, <2>3, ScanAssumption
  <2>5. r.scope = "bin" => k = 1 /\ l = 1
    BY <1>7, <1>8
  <2> QED  BY <1>4, <2>1, <2>2, <2>4, <2>5
<1> QED  BY <1>9, <1>10, <1>11 DEF p, Apart

LEMMA SyntheticFacts ==
    ASSUME NEW B \in SUBSET AllBins, IsFiniteSet(B), B # {}, NEW p \in Synthetic(B)
    PROVE  p \in Seq(Planned) /\ Apart(p) /\ \A i \in DOMAIN p : p[i].bins # <<>>
<1> DEFINE n == Cardinality(B)
<1>1. n \in Nat /\ n # 0
  BY FS_CardinalityType, FS_EmptySet
<1>2. PICK s \in SetToSeqs(B) : p = <<[rack |-> FirstRack, bins |-> s]>>
  BY DEF Synthetic
<1>3. s \in [1 .. n -> B] /\ \A k, l \in 1 .. n : s[k] = s[l] => k = l
  BY <1>2 DEF SetToSeqs
<1> HIDE DEF n
<1>4. s \in Seq(AllBins) /\ DOMAIN s = 1 .. n /\ s # <<>>
  <2>1. s \in Seq(AllBins) /\ DOMAIN s = 1 .. n
    BY <1>1, <1>3, IsASeq
  <2> QED  BY <1>1, <2>1
<1>5. [rack |-> FirstRack, bins |-> s] \in Planned
  BY <1>4, ScanAssumption DEF Planned
<1>6. p \in Seq(Planned) /\ DOMAIN p = {1} /\ p[1].bins = s
  BY <1>2, <1>5
<1> QED  BY <1>3, <1>4, <1>6 DEF Apart

LEMMA Heads ==
    ASSUME ScanRunTypeOK, plan # <<>>
    PROVE  /\ plan \in Seq(Planned) /\ DOMAIN plan = 1 .. Len(plan) /\ Len(plan) \in Nat
           /\ 1 \in DOMAIN plan /\ Head(plan) = plan[1] /\ Head(plan) \in Planned
           /\ Rack \in ScanRacks /\ Head(plan).bins \in Seq(AllBins)
           /\ Tail(plan) \in Seq(Planned)
           /\ \A i \in DOMAIN Tail(plan) : i + 1 \in DOMAIN plan /\ i \in Nat /\ Tail(plan)[i] = plan[i + 1]
<1>1. plan \in Seq(Planned) /\ Len(plan) \in Nat /\ DOMAIN plan = 1 .. Len(plan) /\ Len(plan) # 0
  BY DEF ScanRunTypeOK, Planned
<1>2. 1 \in DOMAIN plan /\ Head(plan) = plan[1]
  BY <1>1
<1>3. Head(plan) \in Planned
  BY <1>1, <1>2, ElementOfSeq
<1>4. /\ Tail(plan) \in Seq(Planned)
      /\ \A i \in DOMAIN Tail(plan) : i + 1 \in DOMAIN plan /\ i \in Nat /\ Tail(plan)[i] = plan[i + 1]
  BY <1>1
<1> QED  BY <1>1, <1>2, <1>3, <1>4 DEF Planned, Rack

\* The bin that was done is gone from the rack, and nothing else changes.
LEMMA BinDoneFacts ==
    ASSUME ScanRunTypeOK, plan # <<>>, Head(plan).bins # <<>>, BinDone
    PROVE  /\ plan' \in Seq(Planned) /\ plan' # <<>> /\ Rack' = Rack /\ DOMAIN plan' = DOMAIN plan
           /\ Bin \in AllBins /\ 1 \in DOMAIN plan[1].bins /\ Bin = plan[1].bins[1] /\ 1 \in DOMAIN plan
           /\ \A i \in DOMAIN plan' : \A k \in DOMAIN plan'[i].bins :
                  LET l == IF i = 1 THEN k + 1 ELSE k
                  IN  k \in Nat /\ l \in DOMAIN plan[i].bins /\ plan'[i].bins[k] = plan[i].bins[l]
           /\ \A i \in DOMAIN plan : i # 1 => plan'[i] = plan[i]
           /\ Head(plan').bins = Tail(Head(plan).bins) /\ Head(plan') = plan'[1]
<1> DEFINE h == [Head(plan) EXCEPT !.bins = Tail(@)]
           q == Tail(plan)
           s == Head(plan).bins
<1>1. /\ plan \in Seq(Planned) /\ DOMAIN plan = 1 .. Len(plan) /\ Len(plan) \in Nat /\ 1 \in DOMAIN plan
      /\ Head(plan) = plan[1] /\ Head(plan) \in Planned /\ s \in Seq(AllBins) /\ q \in Seq(Planned)
      /\ Len(plan) # 0 /\ Len(q) = Len(plan) - 1
      /\ \A i \in 1 .. Len(plan) : i # 1 => i - 1 \in 1 .. Len(q) /\ q[i - 1] = plan[i]
  <2>1. Len(plan) # 0 /\ Len(q) = Len(plan) - 1
        /\ \A i \in 1 .. Len(plan) : i # 1 => i - 1 \in 1 .. Len(q) /\ q[i - 1] = plan[i]
    BY Heads
  <2> QED  BY <2>1, Heads
<1>2. /\ Tail(s) \in Seq(AllBins) /\ Head(s) = s[1] /\ 1 \in DOMAIN s /\ s[1] \in AllBins
      /\ \A k \in DOMAIN Tail(s) : k \in Nat /\ k + 1 \in DOMAIN s /\ Tail(s)[k] = s[k + 1]
  BY <1>1
<1>3. h \in Planned /\ h.bins = Tail(s) /\ h.rack = Head(plan).rack
  BY <1>1, <1>2 DEF Planned
<1>4. plan' = <<h>> \o q
  BY DEF BinDone
<1> HIDE DEF h, q
<1>5. /\ plan' \in Seq(Planned) /\ Len(plan') = Len(plan) /\ plan'[1] = h
      /\ \A i \in 1 .. Len(plan) : i # 1 => plan'[i] = plan[i]
  <2> DEFINE l == Len(q)
  <2>1. l \in Nat /\ Len(plan) = l + 1 /\ Len(<<h>>) = 1 /\ <<h>> \in Seq(Planned)
    BY <1>1, <1>3
  <2>2. plan' \in Seq(Planned) /\ Len(plan') = Len(plan) /\ plan'[1] = h
    <3>1. plan' \in Seq(Planned) /\ Len(plan') = Len(<<h>>) + Len(q)
      BY <1>1, <1>4, <2>1, ConcatProperties
    <3>2. Len(plan') = Len(plan)
      BY <2>1, <3>1
    <3>3. plan'[1] = h
      BY <1>1, <1>4, <2>1
    <3> QED  BY <3>1, <3>2, <3>3
  <2>3. ASSUME NEW i \in 1 .. Len(plan), i # 1 PROVE plan'[i] = plan[i]
    <3>1. plan'[i] = q[i - 1]
      BY <1>1, <1>4, <2>1, <2>3
    <3> QED  BY <1>1, <2>3, <3>1
  <2> QED  BY <2>2, <2>3
<1>6. DOMAIN plan' = 1 .. Len(plan) /\ plan' # <<>> /\ Head(plan') = plan'[1]
  BY <1>1, <1>5
<1>7. Rack' = Rack /\ Bin = s[1]
  BY <1>2, <1>3, <1>5, <1>6 DEF Rack, Bin
<1>8. ASSUME NEW i \in DOMAIN plan', NEW k \in DOMAIN plan'[i].bins
      PROVE  LET l == IF i = 1 THEN k + 1 ELSE k
             IN  k \in Nat /\ l \in DOMAIN plan[i].bins /\ plan'[i].bins[k] = plan[i].bins[l]
  <2>1. CASE i = 1
    BY <1>1, <1>2, <1>3, <1>5, <1>8, <2>1
  <2>2. CASE i # 1
    <3>1. plan'[i] = plan[i]
      BY <1>5, <1>6, <2>2
    <3>2. i \in 1 .. Len(plan)
      BY <1>6
    <3>2a. plan[i] \in Planned
      BY <1>1, <3>2, ElementOfSeq
    <3>2b. plan[i].bins \in Seq(AllBins)
      BY <3>2a DEF Planned
    <3>3. k \in Nat
      BY <1>8, <3>1, <3>2b
    <3> QED  BY <2>2, <3>1, <3>3
  <2> QED  BY <2>1, <2>2
<1>9. Head(plan').bins = Tail(Head(plan).bins)
  BY <1>3, <1>5, <1>6
<1> QED  BY <1>1, <1>2, <1>5, <1>6, <1>7, <1>8, <1>9

-----------------------------------------------------------------------------
(* Calls.                                                                  *)

\* Whether a call is answered, lost or late.
Made(e) ==
    /\ mission' \in {mission, "SCHEDULED"} \cup {c \in {"COMPLETED"} : e.what = "complete"}
    /\ callFaults' \in 0 .. MaxCallFaults /\ (callFaults' = 0 => callFaults = 0)
    /\ \/ stored' = stored /\ alerts' = alerts /\ late' \in {late, late \cup {e}}
          /\ callFaults' # 0
          /\ raised' = raised
       \/ /\ late' = late
          /\ raised' = IF Mismatched(e) THEN [raised EXCEPT ![e.bin] = @ + 1] ELSE raised
          /\ stored' = IF e.what = "observe" THEN [stored EXCEPT ![e.bin] = @ + 1] ELSE stored
          /\ alerts' = IF e.what = "alert" THEN [alerts EXCEPT ![e.bin] = @ + 1] ELSE alerts

LEMMA PostMade ==
    ASSUME ScanRunTypeOK, NEW e, NEW answered, Post(e, answered)
    PROVE  Made(e)
<1>1. callFaults \in Nat /\ callFaults \in 0 .. MaxCallFaults /\ MaxCallFaults \in Nat
  BY ScanAssumption DEF ScanRunTypeOK
<1>2. CASE answered /\ HandleCall(e, TRUE) /\ UNCHANGED <<late, callFaults>>
  BY <1>1, <1>2 DEF HandleCall, CreateAlert, Made
<1>3. CASE ~answered /\ CallFault /\ UNCHANGED <<mission, stored, alerts, raised>>
           /\ late' \in {late, late \cup {e}}
  BY <1>1, <1>3 DEF CallFault, Made
<1> QED  BY <1>2, <1>3 DEF Post

LEMMA MadeTypes ==
    ASSUME ScanRunTypeOK, NEW e \in Effect, Made(e), e.what \in {"observe", "alert"} => e.bin \in AllBins
    PROVE  /\ mission' \in {None, "SCHEDULED", "COMPLETED"} /\ stored' \in [AllBins -> Nat]
           /\ alerts' \in [AllBins -> Nat] /\ late' \subseteq Effect
           /\ callFaults' \in 0 .. MaxCallFaults /\ raised' \in [AllBins -> Nat]
<1>1. mission' \in {None, "SCHEDULED", "COMPLETED"} /\ callFaults' \in 0 .. MaxCallFaults
  BY DEF Made, ScanRunTypeOK
<1>2. late' \subseteq Effect
  BY DEF Made, ScanRunTypeOK
<1>3. stored' \in [AllBins -> Nat]
  <2>1. stored' = stored \/ (e.bin \in AllBins /\ stored' = [stored EXCEPT ![e.bin] = @ + 1])
    BY DEF Made
  <2>2. stored \in [AllBins -> Nat]
    BY DEF ScanRunTypeOK
  <2> QED  BY <2>1, <2>2
<1>4. alerts' \in [AllBins -> Nat]
  <2>1. alerts' = alerts \/ (e.bin \in AllBins /\ alerts' = [alerts EXCEPT ![e.bin] = @ + 1])
    BY DEF Made
  <2>2. alerts \in [AllBins -> Nat]
    BY DEF ScanRunTypeOK
  <2> QED  BY <2>1, <2>2
<1>5. raised' \in [AllBins -> Nat]
  <2>1. raised' = raised \/ (e.bin \in AllBins /\ raised' = [raised EXCEPT ![e.bin] = @ + 1])
    BY DEF Made, Mismatched
  <2>2. raised \in [AllBins -> Nat]
    BY DEF ScanRunTypeOK
  <2> QED  BY <2>1, <2>2
<1> QED  BY <1>1, <1>2, <1>3, <1>4, <1>5

\* A call about something else than the bin's observation or alert.
LEMMA OtherCall ==
    ASSUME ScanRunTypeOK, NEW e \in Effect, Made(e), NEW b \in AllBins
    PROVE  /\ ~(e.what = "observe" /\ e.bin = b) =>
                /\ stored'[b] = stored[b] /\ raised'[b] = raised[b]
                /\ Waits("observe", b)' <=> Waits("observe", b)
           /\ ~(e.what = "alert" /\ e.bin = b) =>
                /\ alerts'[b] = alerts[b]
                /\ Waits("alert", b)' <=> Waits("alert", b)
<1>1. ASSUME ~(e.what = "observe" /\ e.bin = b)
      PROVE  /\ stored'[b] = stored[b] /\ raised'[b] = raised[b]
             /\ Waits("observe", b)' <=> Waits("observe", b)
  <2>1. stored'[b] = stored[b]
    BY <1>1 DEF Made, ScanRunTypeOK
  <2>2. raised'[b] = raised[b]
    BY <1>1 DEF Made, Mismatched, ScanRunTypeOK
  <2>3. Waits("observe", b)' <=> Waits("observe", b)
    BY <1>1 DEF Made, Waits
  <2> QED  BY <2>1, <2>2, <2>3
<1>2. ASSUME ~(e.what = "alert" /\ e.bin = b)
      PROVE  alerts'[b] = alerts[b] /\ (Waits("alert", b)' <=> Waits("alert", b))
  <2>1. alerts'[b] = alerts[b]
    BY <1>2 DEF Made, ScanRunTypeOK
  <2>2. Waits("alert", b)' <=> Waits("alert", b)
    BY <1>2 DEF Made, Waits
  <2> QED  BY <2>1, <2>2
<1> QED  BY <1>1, <1>2

\* The call itself: answered, it counts; otherwise it is late or lost.
LEMMA ThisCall ==
    ASSUME ScanRunTypeOK, NEW b \in AllBins, NEW e \in Effect, e.bin = b, Made(e)
    PROVE  /\ e.what = "observe" =>
                \/ /\ stored'[b] = stored[b] + 1 /\ late' = late
                   /\ raised'[b] = IF e.seen # BinCode(b) THEN raised[b] + 1 ELSE raised[b]
                \/ stored'[b] = stored[b] /\ raised'[b] = raised[b] /\ callFaults' # 0
           /\ e.what = "alert" =>
                \/ alerts'[b] = alerts[b] + 1 /\ late' = late
                \/ alerts'[b] = alerts[b] /\ callFaults' # 0
BY DEF Made, Mismatched, ScanRunTypeOK

-----------------------------------------------------------------------------
(* The robot and the spin thread.                                          *)

\* What has been recorded of a bin is what it was.
SameTold(b) ==
    /\ Recorded(b)' <=> Recorded(b)
    /\ Differs(b)' <=> Differs(b)
    /\ OffTable(b)' <=> OffTable(b)
    /\ Pending(b)' <=> Pending(b)
    /\ \A x : Saw(b, x)' <=> Saw(b, x)

LEMMA BinCodeStays ==
    ASSUME NEW b PROVE BinCode(b)' = BinCode(b)
BY DEF BinCode

LEMMA RecordsStay ==
    ASSUME UNCHANGED results, NEW b, UNCHANGED <<pc, plan>> \/ (pc # "alert" /\ pc' # "alert")
    PROVE  SameTold(b)
<1>1. (Recorded(b)' <=> Recorded(b)) /\ (Differs(b)' <=> Differs(b)) /\ (Pending(b)' <=> Pending(b))
  BY DEF Recorded, Differs, Pending, Logs, Bin
<1>2. OffTable(b)' <=> OffTable(b)
  BY BinCodeStays DEF OffTable, Logs
<1>3. \A x : Saw(b, x)' <=> Saw(b, x)
  BY DEF Saw, Logs
<1> QED  BY <1>1, <1>2, <1>3 DEF SameTold

LEMMA CallsStay ==
    ASSUME CallsOnce, UNCHANGED api, \A b \in AllBins : SameTold(b),
           pc \in {"report", "done"} => pc' \in {"report", "done"} /\ plan' = plan
    PROVE  CallsOnce'
<1>1. /\ stored' = stored /\ alerts' = alerts /\ raised' = raised /\ late' = late
      /\ callFaults' = callFaults /\ mission' = mission
  BY DEF api
<1>2. ASSUME NEW b \in AllBins PROVE BinsCalls(b)'
  <2>1. BinsCalls(b)
    BY DEF CallsOnce
  <2>2. /\ Recorded(b)' <=> Recorded(b)
        /\ Differs(b)' <=> Differs(b)
        /\ OffTable(b)' <=> OffTable(b)
        /\ Pending(b)' <=> Pending(b)
    BY DEF SameTold
  <2>3. (Waits("observe", b)' <=> Waits("observe", b)) /\ (Waits("alert", b)' <=> Waits("alert", b))
    BY <1>1 DEF Waits
  <2> QED  BY <1>1, <2>1, <2>2, <2>3 DEF BinsCalls
<1>3. ASSUME NEW e \in late' PROVE LateFits(e)'
  <2>1. LateFits(e)
    BY <1>1, <1>3 DEF CallsOnce
  <2>2. e.bin \in AllBins /\ Saw(e.bin, e.seen) => Saw(e.bin, e.seen)'
    BY DEF SameTold
  <2> QED  BY <2>1, <2>2 DEF LateFits
<1>4. (mission = "COMPLETED" \/ (\E e \in late : e.what = "complete")
          => pc \in {"report", "done"} /\ plan = <<>>)'
  BY <1>1 DEF CallsOnce
<1> QED  BY <1>2, <1>3, <1>4 DEF CallsOnce

LEMMA ExitStays ==
    ASSUME ExitFits, UNCHANGED <<results, inventory, exit>>, pc = "done" => pc' = "done"
    PROVE  ExitFits'
<1>1. \A b : Expects(b)' = Expects(b)
  BY DEF Expects
<1>2. \A b : Differs(b)' <=> Differs(b)
  BY DEF Differs, Logs
<1> QED  BY <1>1, <1>2 DEF ExitFits

LEMMA Stays ==
    ASSUME RunInv, UNCHANGED <<pc, work, ros, earlier, exit>>
    PROVE  /\ PlanFits' /\ BinsOnce' /\ SeenAtRack' /\ ExitFits'
           /\ UNCHANGED api => CallsOnce'
<1>1. /\ pc' = pc /\ plan' = plan /\ results' = results /\ inventory' = inventory /\ detected' = detected
      /\ ros' = ros /\ earlier' = earlier /\ exit' = exit
  BY DEF work
<1>2. PlanFits'
  BY <1>1 DEF RunInv, PlanFits, Rack
<1>3. BinsOnce'
  BY <1>1 DEF RunInv, BinsOnce, Apart, Logs, Rack, Bin
<1>4. SeenAtRack'
  BY <1>1 DEF RunInv, SeenAtRack
<1>5. ExitFits'
  BY <1>1, ExitStays DEF RunInv
<1>6. UNCHANGED api => CallsOnce'
  BY <1>1, RecordsStay, CallsStay DEF RunInv
<1> QED  BY <1>2, <1>3, <1>4, <1>5, <1>6

LEMMA WithinSelf ==
    ASSUME ScanRunTypeOK, plan # <<>>
    PROVE  Rack \in Within[Rack]
BY Heads, ScanAssumption

\* One message more, at the end.
LEMMA AppendFacts ==
    ASSUME NEW S, NEW q \in Seq(S), NEW x \in S
    PROVE  /\ Append(q, x) \in Seq(S) /\ DOMAIN q = 1 .. Len(q) /\ Len(q) \in Nat
           /\ DOMAIN Append(q, x) = 1 .. Len(q) + 1
           /\ Append(q, x)[Len(q) + 1] = x /\ \A i \in 1 .. Len(q) : Append(q, x)[i] = q[i]
BY AppendProperties

\* One message less, at the front.
LEMMA TailFacts ==
    ASSUME NEW S, NEW q \in Seq(S), q # <<>>
    PROVE  /\ Tail(q) \in Seq(S) /\ Head(q) = q[1] /\ 1 \in DOMAIN q /\ q[1] \in S
           /\ \A i \in DOMAIN Tail(q) :
                  i \in Nat /\ i # 0 /\ i + 1 \in DOMAIN q /\ Tail(q)[i] = q[i + 1]
           /\ \A i \in DOMAIN q : i \in Nat /\ (i # 1 => i - 1 \in DOMAIN Tail(q) /\ Tail(q)[i - 1] = q[i])
<1>1. Len(q) \in Nat /\ Len(q) # 0 /\ DOMAIN q = 1 .. Len(q)
  OBVIOUS
<1>2. Tail(q) \in Seq(S) /\ Len(Tail(q)) = Len(q) - 1 /\ DOMAIN Tail(q) = 1 .. Len(q) - 1
  BY <1>1
<1>3. Head(q) = q[1] /\ 1 \in DOMAIN q /\ q[1] \in S
  BY <1>1
<1>4. \A i \in 1 .. Len(q) - 1 : Tail(q)[i] = q[i + 1]
  BY <1>1
<1> QED  BY <1>1, <1>2, <1>3, <1>4

LEMMA ArriveKeeps ==
    ASSUME RunInv, Arrive
    PROVE  RunInv'
<1>1. /\ drive.to # None /\ drive' = [at |-> drive.to, to |-> None] /\ topic' = Append(topic, drive.to)
      /\ UNCHANGED <<pc, work, target, event, hearing, ros, earlier, api, shown, beating, exit>>
  BY DEF Arrive
<1>2. /\ drive.to \in ScanRacks /\ topic \in Seq(ScanRacks) /\ target \in ScanRacks \cup {None}
      /\ drive'.at = drive.to /\ drive'.to = None
  BY <1>1 DEF RunInv, ScanRunTypeOK
<1>3. ScanRunTypeOK'
  <2>1. drive' \in [at : ScanRacks \cup {None}, to : ScanRacks \cup {None}] /\ topic' \in Seq(ScanRacks)
    BY <1>1, <1>2
  <2> QED  BY <1>1, <2>1 DEF RunInv, ScanRunTypeOK, work, api
<1>4. PlanFits' /\ BinsOnce' /\ SeenAtRack' /\ ExitFits' /\ CallsOnce'
  BY <1>1, Stays
<1>5. DriveTells'
  <2> SUFFICES ASSUME ros, ~Excused
               PROVE  /\ pc \in {"create", "topology", "next"} => Quiet'
                      /\ pc = "wait" /\ earlier \notin Within[Rack] => target = Rack /\ Awaited'
                      /\ pc \in AtRack /\ earlier \notin Within[Rack] =>
                             target = Rack /\ Stands' /\ Old(topic)' /\ ~hearing
    <3>1. Rack' = Rack /\ (Excused' <=> Excused) /\ pc' = pc /\ ros' = ros /\ earlier' = earlier
          /\ target' = target /\ hearing' = hearing
      BY <1>1 DEF Rack, Excused, work
    <3> QED  BY <3>1 DEF DriveTells, AtRack
  <2>1. DriveTells
    BY DEF RunInv
  <2>2. /\ DOMAIN topic = 1 .. Len(topic) /\ Len(topic) \in Nat
        /\ DOMAIN topic' = 1 .. Len(topic) + 1
        /\ topic'[Len(topic) + 1] = drive.to /\ \A i \in 1 .. Len(topic) : topic'[i] = topic[i]
    BY <1>1, <1>2, AppendFacts
  <2>3. ASSUME pc \in {"create", "topology", "next"} PROVE Quiet'
    BY <1>1, <1>2, <2>1, <2>2, <2>3 DEF DriveTells, Quiet, Old
  <2>4. ASSUME pc = "wait", earlier \notin Within[Rack] PROVE target = Rack /\ Awaited'
    <3>1. target = Rack /\ drive.to = Rack /\ Old(topic) /\ ~hearing /\ ~event
      BY <1>1, <2>1, <2>4 DEF DriveTells, Awaited, Stands
    <3>2. Rack' = Rack
      BY <1>1 DEF Rack, work
    <3>3. Stands' /\ ~hearing' /\ ~event'
      BY <1>1, <1>2, <3>1, <3>2 DEF Stands
    <3>4. \E i \in DOMAIN topic' : topic'[i] = Rack' /\ \A j \in DOMAIN topic' \ {i} : topic'[j] = earlier'
      <4>1. Len(topic) + 1 \in DOMAIN topic' /\ topic'[Len(topic) + 1] = Rack'
        BY <2>2, <3>1, <3>2
      <4>2. \A j \in DOMAIN topic' \ {Len(topic) + 1} : topic'[j] = earlier'
        BY <1>1, <2>2, <3>1 DEF Old
      <4> QED  BY <4>1, <4>2
    <3> QED  BY <3>1, <3>3, <3>4 DEF Awaited
  <2>5. ~(pc \in AtRack /\ earlier \notin Within[Rack])
    BY <1>1, <2>1 DEF DriveTells, Stands
  <2> QED  BY <2>3, <2>4, <2>5
<1> QED  BY <1>3, <1>4, <1>5 DEF RunInv

LEMMA HearKeeps ==
    ASSUME RunInv, Hear
    PROVE  RunInv'
<1>1. /\ topic # <<>> /\ ~hearing /\ topic' = Tail(topic)
      /\ hearing' = (target # None /\ Head(topic) \in Within[target])
      /\ UNCHANGED <<pc, work, target, event, drive, ros, earlier, api, shown, beating, exit>>
  BY DEF Hear
<1>2. topic \in Seq(ScanRacks) /\ target \in ScanRacks \cup {None} /\ event \in BOOLEAN
  BY <1>1 DEF RunInv, ScanRunTypeOK
<1>3. ScanRunTypeOK'
  <2>1. topic' \in Seq(ScanRacks)
    BY <1>1, <1>2
  <2>2. hearing' \in BOOLEAN
    BY <1>1
  <2> QED  BY <1>1, <2>1, <2>2 DEF RunInv, ScanRunTypeOK, work, api
<1>4. PlanFits' /\ BinsOnce' /\ SeenAtRack' /\ ExitFits' /\ CallsOnce'
  BY <1>1, Stays
<1>5. DriveTells'
  <2>0. Rack' = Rack /\ (Excused' <=> Excused) /\ pc' = pc /\ ros' = ros /\ earlier' = earlier
        /\ target' = target /\ event' = event /\ drive' = drive
    BY <1>1 DEF Rack, Excused, work
  <2> SUFFICES ASSUME ros, ~Excused
               PROVE  /\ pc \in {"create", "topology", "next"} => Quiet'
                      /\ pc = "wait" /\ earlier \notin Within[Rack] => target = Rack /\ Awaited'
                      /\ pc \in AtRack /\ earlier \notin Within[Rack] =>
                             target = Rack /\ Stands /\ Old(topic)' /\ ~hearing'
    BY <2>0 DEF DriveTells, AtRack, Stands
  <2>1. DriveTells
    BY DEF RunInv
  <2>2. /\ Head(topic) = topic[1] /\ 1 \in DOMAIN topic
        /\ \A i \in DOMAIN topic' : i \in Nat /\ i # 0 /\ i + 1 \in DOMAIN topic /\ topic'[i] = topic[i + 1]
        /\ \A i \in DOMAIN topic : i \in Nat /\ (i # 1 => i - 1 \in DOMAIN topic' /\ topic'[i - 1] = topic[i])
    BY <1>1, <1>2, TailFacts
  <2>3. ASSUME Old(topic) PROVE Old(topic)' /\ Head(topic) = earlier
    BY <2>0, <2>2, <2>3 DEF Old
  <2>4. ASSUME pc \in {"create", "topology", "next"} PROVE Quiet'
    <3>1. Quiet
      BY <2>1, <2>4 DEF DriveTells
    <3>2. Old(topic)' /\ ~hearing'
      BY <1>1, <2>3, <3>1 DEF Quiet
    <3> QED  BY <2>0, <3>1, <3>2 DEF Quiet
  <2>5. ASSUME pc = "wait", earlier \notin Within[Rack] PROVE target = Rack /\ Awaited'
    <3>1. target = Rack /\ Awaited /\ ~hearing
      BY <1>1, <2>1, <2>5 DEF DriveTells
    <3>2. CASE drive.to = Rack /\ Old(topic) /\ ~event
      <4>1. ~hearing'
        BY <1>1, <2>3, <2>5, <3>1, <3>2
      <4> QED  BY <2>0, <2>3, <3>1, <3>2, <4>1 DEF Awaited
    <3>3. ASSUME Stands, ~event, NEW i \in DOMAIN topic, topic[i] = Rack,
                 \A j \in DOMAIN topic \ {i} : topic[j] = earlier
          PROVE  Awaited'
      <4>0. Stands' /\ ~event'
        BY <2>0, <3>3 DEF Stands
      <4>1. CASE i = 1
        <5>1. hearing'
          <6>1. plan # <<>> /\ Rack \in ScanRacks
            BY <2>5, Heads DEF RunInv, PlanFits
          <6>2. Rack \in Within[Rack] /\ Rack # None
            BY <6>1, WithinSelf, ScanAssumption DEF RunInv
          <6> QED  BY <1>1, <2>2, <3>1, <3>3, <4>1, <6>2
        <5>2. ASSUME NEW j \in DOMAIN topic' PROVE topic'[j] = earlier'
          <6>1. j + 1 \in DOMAIN topic \ {i} /\ topic'[j] = topic[j + 1]
            BY <2>2, <4>1
          <6> QED  BY <2>0, <3>3, <6>1
        <5> QED  BY <4>0, <5>1, <5>2 DEF Awaited, Old
      <4>2. CASE i # 1
        <5>1. Head(topic) = earlier
          BY <2>2, <3>3, <4>2
        <5>2. ~hearing'
          BY <1>1, <2>5, <3>1, <5>1
        <5>3. i - 1 \in DOMAIN topic' /\ topic'[i - 1] = Rack'
          BY <2>0, <2>2, <3>3, <4>2
        <5>4. \A j \in DOMAIN topic' \ {i - 1} : topic'[j] = earlier'
          BY <2>0, <2>2, <3>3, <4>2
        <5> QED  BY <4>0, <5>2, <5>3, <5>4 DEF Awaited
      <4> QED  BY <4>1, <4>2
    <3>4. CASE Stands /\ Old(topic) /\ (hearing <=> ~event)
      <4>1. ~hearing' /\ event /\ Old(topic)'
        BY <1>1, <1>2, <2>3, <2>5, <3>1, <3>4
      <4>2. Stands'
        BY <2>0, <3>4 DEF Stands
      <4>3. (Stands /\ Old(topic) /\ (hearing <=> ~event))'
        BY <2>0, <4>1, <4>2, Zenon
      <4> QED  BY <3>1, <4>3 DEF Awaited
    <3> QED  BY <3>1, <3>2, <3>3, <3>4 DEF Awaited
  <2>6. ASSUME pc \in AtRack, earlier \notin Within[Rack]
        PROVE  target = Rack /\ Stands /\ Old(topic)' /\ ~hearing'
    BY <1>1, <2>1, <2>3, <2>6 DEF DriveTells
  <2> QED  BY <2>4, <2>5, <2>6
<1> QED  BY <1>3, <1>4, <1>5 DEF RunInv

LEMMA SetEventKeeps ==
    ASSUME RunInv, SetEvent
    PROVE  RunInv'
<1>1. /\ hearing /\ hearing' = FALSE /\ event' = TRUE
      /\ UNCHANGED <<pc, work, target, topic, drive, ros, earlier, api, shown, beating, exit>>
  BY DEF SetEvent
<1>2. hearing' \in BOOLEAN /\ event' \in BOOLEAN
  BY <1>1
<1>3. ScanRunTypeOK'
  BY <1>1, <1>2 DEF RunInv, ScanRunTypeOK, work, api
<1>4. PlanFits' /\ BinsOnce' /\ SeenAtRack' /\ ExitFits' /\ CallsOnce'
  BY <1>1, Stays
<1>5. DriveTells'
  <2>0. Rack' = Rack /\ (Excused' <=> Excused) /\ pc' = pc /\ ros' = ros /\ earlier' = earlier
        /\ target' = target /\ drive' = drive /\ topic' = topic
    BY <1>1 DEF Rack, Excused, work
  <2>1. DriveTells
    BY DEF RunInv
  <2>2. ASSUME ros, ~Excused, pc \in {"create", "topology", "next"} PROVE FALSE
    BY <1>1, <2>1, <2>2 DEF DriveTells, Quiet
  <2>3. ASSUME ros, ~Excused, pc = "wait", earlier \notin Within[Rack] PROVE target = Rack /\ Awaited'
    <3>1. target = Rack /\ Stands /\ Old(topic)
      BY <1>1, <2>1, <2>3 DEF DriveTells, Awaited
    <3> QED  BY <1>1, <2>0, <3>1 DEF Awaited, Stands, Old
  <2>4. ASSUME ros, ~Excused, pc \in AtRack, earlier \notin Within[Rack] PROVE FALSE
    BY <1>1, <2>1, <2>4 DEF DriveTells
  <2> QED  BY <2>0, <2>2, <2>3, <2>4 DEF DriveTells, AtRack
<1> QED  BY <1>3, <1>4, <1>5 DEF RunInv

-----------------------------------------------------------------------------
(* The backend's late calls, the mission and the plan.                     *)

LEMMA DriveStays ==
    ASSUME DriveTells, UNCHANGED nav, results' = results, plan' = plan,
           \/ pc \in {"create", "topology", "next"}
                /\ pc' \in {"create", "topology", "next", "report", "done"}
           \/ pc \in AtRack /\ pc' \in AtRack \cup {"done"}
           \/ pc' = pc
    PROVE  DriveTells'
<1>1. /\ Rack' = Rack /\ (Excused' <=> Excused) /\ ros' = ros /\ earlier' = earlier /\ target' = target
      /\ (Quiet' <=> Quiet) /\ (Awaited' <=> Awaited) /\ (Stands' <=> Stands)
      /\ (Old(topic)' <=> Old(topic)) /\ hearing' = hearing
  BY DEF nav, Rack, Excused, Quiet, Awaited, Stands, Old
<1> QED  BY <1>1 DEF DriveTells, AtRack

LEMMA SawOnce ==
    ASSUME RunInv, NEW b, NEW x, NEW y, Saw(b, x), Saw(b, y)
    PROVE  x = y
<1>1. PICK m \in DOMAIN results : Logs(m, b) /\ results[m].observed = x
  BY DEF Saw
<1>2. PICK n \in DOMAIN results : Logs(n, b) /\ results[n].observed = y
  BY DEF Saw
<1>3. m = n
  BY <1>1, <1>2 DEF RunInv, BinsOnce, Logs
<1> QED  BY <1>1, <1>2, <1>3

\* A bin has one late observation and one late alert at most.
LEMMA LateOnce ==
    ASSUME RunInv, NEW e \in late, NEW f \in late, e.what = f.what, e.bin = f.bin,
           e.what \in {"observe", "alert"}
    PROVE  e = f
<1>1. e \in Effect /\ f \in Effect /\ LateFits(e) /\ LateFits(f)
  BY DEF RunInv, ScanRunTypeOK, CallsOnce
<1>2. e.seen = f.seen
  BY <1>1, SawOnce DEF LateFits
<1> QED  BY <1>1, <1>2 DEF Effect

LEMMA HandleLateKeeps ==
    ASSUME RunInv, HandleLate
    PROVE  RunInv'
<1>1. PICK e \in late, whole \in BOOLEAN :
        /\ HandleCall(e, whole) /\ late' = late \ {e}
        /\ UNCHANGED <<pc, work, nav, shown, beating, exit, callFaults>>
  BY DEF HandleLate
<1>2. /\ e \in Effect /\ (e.what \in {"observe", "alert"} => e.bin \in AllBins) /\ LateFits(e)
      /\ late \subseteq Effect /\ stored \in [AllBins -> Nat] /\ alerts \in [AllBins -> Nat]
      /\ raised \in [AllBins -> Nat]
  BY DEF RunInv, ScanRunTypeOK, CallsOnce, LateFits
<1>3. ScanRunTypeOK'
  <2>1. mission' \in {None, "SCHEDULED", "COMPLETED"} /\ late' \subseteq Effect
    BY <1>1, <1>2 DEF RunInv, ScanRunTypeOK, HandleCall, CreateAlert
  <2>2. stored' \in [AllBins -> Nat]
    BY <1>1, <1>2 DEF HandleCall, CreateAlert
  <2>3. alerts' \in [AllBins -> Nat]
    BY <1>1, <1>2 DEF HandleCall, CreateAlert
  <2>4. raised' \in [AllBins -> Nat]
    BY <1>1, <1>2 DEF HandleCall, CreateAlert, Mismatched
  <2> QED  BY <1>1, <2>1, <2>2, <2>3, <2>4 DEF RunInv, ScanRunTypeOK, work, nav
<1>4. PlanFits' /\ BinsOnce' /\ SeenAtRack' /\ ExitFits'
  BY <1>1, Stays DEF nav
<1>5. CallsOnce'
  <2>0. ASSUME NEW b \in AllBins PROVE SameTold(b)
    BY <1>1, RecordsStay DEF work
  <2>1. ASSUME NEW b \in AllBins PROVE BinsCalls(b)'
    <3>1. BinsCalls(b)
      BY DEF RunInv, CallsOnce
    <3>2. /\ Recorded(b)' <=> Recorded(b)
          /\ Differs(b)' <=> Differs(b)
          /\ OffTable(b)' <=> OffTable(b)
          /\ Pending(b)' <=> Pending(b)
      BY <2>0 DEF SameTold
    <3>3. CASE e.what = "observe" /\ e.bin = b
      <4>1. Waits("observe", b) /\ stored[b] = 0 /\ raised[b] = 0 /\ Recorded(b) /\ callFaults # 0
        BY <3>1, <3>3 DEF BinsCalls, Waits
      <4>2. ~Waits("observe", b)'
        BY <1>1, <3>3, LateOnce DEF Waits
      <4>3. stored'[b] = 1 /\ alerts'[b] = alerts[b]
        BY <1>1, <1>2, <3>3, <4>1 DEF HandleCall, CreateAlert
      <4>4. raised'[b] = IF e.seen # BinCode(b) /\ whole THEN 1 ELSE 0
        BY <1>1, <1>2, <3>3, <4>1 DEF HandleCall, CreateAlert, Mismatched
      <4>5. e.seen # BinCode(b) => OffTable(b)
        BY <1>2, <3>3 DEF LateFits, Saw, OffTable
      <4>6. Waits("alert", b)' <=> Waits("alert", b)
        BY <1>1, <3>3 DEF Waits
      <4> QED  BY <1>1, <3>1, <3>2, <4>1, <4>2, <4>3, <4>4, <4>5, <4>6 DEF BinsCalls
    <3>4. CASE e.what = "alert" /\ e.bin = b
      <4>1. Waits("alert", b) /\ alerts[b] = 0 /\ Differs(b) /\ ~Pending(b)
        BY <3>1, <3>4 DEF BinsCalls, Waits
      <4>2. ~Waits("alert", b)'
        BY <1>1, <3>4, LateOnce DEF Waits
      <4>3. stored'[b] = stored[b] /\ alerts'[b] = 1 /\ raised'[b] = raised[b]
        BY <1>1, <1>2, <3>4, <4>1 DEF HandleCall, CreateAlert, Mismatched
      <4>4. Waits("observe", b)' <=> Waits("observe", b)
        BY <1>1, <3>4 DEF Waits
      <4> QED  BY <1>1, <3>1, <3>2, <4>1, <4>2, <4>3, <4>4 DEF BinsCalls
    <3>5. CASE ~(e.what \in {"observe", "alert"} /\ e.bin = b)
      <4>1. stored'[b] = stored[b] /\ alerts'[b] = alerts[b]
        BY <1>1, <1>2, <3>5 DEF HandleCall, CreateAlert
      <4>2. raised'[b] = raised[b]
        BY <1>1, <1>2, <3>5 DEF HandleCall, CreateAlert, Mismatched
      <4>3. (Waits("observe", b)' <=> Waits("observe", b)) /\ (Waits("alert", b)' <=> Waits("alert", b))
        BY <1>1, <3>5 DEF Waits
      <4> QED  BY <1>1, <3>1, <3>2, <4>1, <4>2, <4>3 DEF BinsCalls
    <3> QED  BY <3>3, <3>4, <3>5
  <2>2. ASSUME NEW f \in late' PROVE LateFits(f)'
    <3>1. LateFits(f)
      BY <1>1, <2>2 DEF RunInv, CallsOnce
    <3>2. f.bin \in AllBins /\ Saw(f.bin, f.seen) => Saw(f.bin, f.seen)'
      BY <2>0 DEF SameTold
    <3> QED  BY <3>1, <3>2 DEF LateFits
  <2>3. mission' = "COMPLETED" \/ (\E f \in late' : f.what = "complete") =>
            pc' \in {"report", "done"} /\ plan' = <<>>
    BY <1>1 DEF RunInv, CallsOnce, HandleCall, CreateAlert, work
  <2> QED  BY <2>1, <2>2, <2>3 DEF CallsOnce
<1>6. DriveTells'
  BY <1>1, DriveStays DEF RunInv, work
<1> QED  BY <1>3, <1>4, <1>5, <1>6 DEF RunInv

\* A call that is no observation and no alert.
LEMMA MadeKeeps ==
    ASSUME RunInv, NEW e \in Effect, Made(e), e.what \notin {"observe", "alert"},
           e.what = "complete" \/ pc \in {"report", "done"} => pc' \in {"report", "done"},
           e.what = "complete" => plan = <<>>,
           UNCHANGED <<plan, results>>, pc # "alert", pc' # "alert"
    PROVE  CallsOnce'
<1>0. ASSUME NEW b \in AllBins PROVE SameTold(b)
  BY RecordsStay
<1>1. ASSUME NEW b \in AllBins PROVE BinsCalls(b)'
  <2>1. BinsCalls(b)
    BY DEF RunInv, CallsOnce
  <2>2. /\ Recorded(b)' <=> Recorded(b)
        /\ Differs(b)' <=> Differs(b)
        /\ OffTable(b)' <=> OffTable(b)
        /\ Pending(b)' <=> Pending(b)
    BY <1>0 DEF SameTold
  <2>3. /\ stored'[b] = stored[b] /\ (Waits("observe", b)' <=> Waits("observe", b))
        /\ alerts'[b] = alerts[b] /\ (Waits("alert", b)' <=> Waits("alert", b))
        /\ raised'[b] = raised[b]
    BY OtherCall DEF RunInv
  <2>4. callFaults' = 0 => callFaults = 0
    BY DEF Made
  <2> QED  BY <2>1, <2>2, <2>3, <2>4 DEF BinsCalls
<1>2. ASSUME NEW f \in late' PROVE LateFits(f)'
  <2>1. CASE f = e
    BY <2>1 DEF LateFits
  <2>2. CASE f \in late
    <3>1. LateFits(f)
      BY <2>2 DEF RunInv, CallsOnce
    <3>2. f.bin \in AllBins /\ Saw(f.bin, f.seen) => Saw(f.bin, f.seen)'
      BY <1>0 DEF SameTold
    <3> QED  BY <3>1, <3>2 DEF LateFits
  <2> QED  BY <1>2, <2>1, <2>2 DEF Made
<1>3. mission' = "COMPLETED" \/ (\E f \in late' : f.what = "complete") =>
          pc' \in {"report", "done"} /\ plan' = <<>>
  BY DEF RunInv, CallsOnce, Made
<1> QED  BY <1>1, <1>2, <1>3 DEF CallsOnce

LEMMA CreateMissionKeeps ==
    ASSUME RunInv, NEW answered \in BOOLEAN, CreateMission(answered)
    PROVE  RunInv'
<1> DEFINE e == [what |-> "create", bin |-> None, seen |-> None]
<1>1. /\ pc = "create" /\ pc' = "topology" /\ Post(e, answered) /\ missionId' = answered
      /\ UNCHANGED <<request, inventory, plan, detected, results, nav, shown, beating, exit>>
  BY DEF CreateMission, Tell
<1>2. e \in Effect /\ e.what = "create"
  BY DEF Effect, Seen
<1>3. Made(e)
  BY <1>1, PostMade DEF RunInv
<1> HIDE DEF e
<1>4. ScanRunTypeOK'
  <2>1. /\ mission' \in {None, "SCHEDULED", "COMPLETED"} /\ stored' \in [AllBins -> Nat]
        /\ alerts' \in [AllBins -> Nat] /\ late' \subseteq Effect /\ callFaults' \in 0 .. MaxCallFaults
        /\ raised' \in [AllBins -> Nat]
    BY <1>2, <1>3, MadeTypes DEF RunInv
  <2>2. missionId' \in BOOLEAN
    BY <1>1
  <2> QED  BY <1>1, <2>1, <2>2 DEF RunInv, ScanRunTypeOK, nav
<1>5. PlanFits'
  BY <1>1 DEF RunInv, PlanFits, AtRack
<1>6. BinsOnce'
  BY <1>1 DEF RunInv, BinsOnce, PlanFits, Apart, Logs
<1>7. CallsOnce'
  BY <1>1, <1>2, <1>3, MadeKeeps DEF RunInv
<1>8. ExitFits'
  BY <1>1, ExitStays DEF RunInv
<1>9. DriveTells'
  BY <1>1, DriveStays DEF RunInv
<1>10. SeenAtRack'
  BY <1>1 DEF RunInv, SeenAtRack, nav
<1> QED  BY <1>4, <1>5, <1>6, <1>7, <1>8, <1>9, <1>10 DEF RunInv

LEMMA CompleteMissionKeeps ==
    ASSUME RunInv, NEW answered \in BOOLEAN, CompleteMission(answered)
    PROVE  RunInv'
<1> DEFINE e == [what |-> "complete", bin |-> None, seen |-> None]
<1>1. /\ pc = "next" /\ plan = <<>> /\ pc' = "report" /\ beating' = FALSE
      /\ Post(e, answered) \/ UNCHANGED api
      /\ UNCHANGED <<work, nav, shown, exit>>
  BY DEF CompleteMission, Tell
<1>2. e \in Effect /\ e.what = "complete"
  BY DEF Effect, Seen
<1>3. Made(e) \/ UNCHANGED api
  BY <1>1, PostMade DEF RunInv
<1> HIDE DEF e
<1>4. ScanRunTypeOK'
  <2>1. /\ mission' \in {None, "SCHEDULED", "COMPLETED"} /\ stored' \in [AllBins -> Nat]
        /\ alerts' \in [AllBins -> Nat] /\ late' \subseteq Effect /\ callFaults' \in 0 .. MaxCallFaults
        /\ raised' \in [AllBins -> Nat]
    <3>1. CASE Made(e)
      BY <1>2, <3>1, MadeTypes DEF RunInv
    <3>2. CASE UNCHANGED api
      BY <3>2 DEF RunInv, ScanRunTypeOK, api
    <3> QED  BY <1>3, <3>1, <3>2
  <2>2. beating' \in BOOLEAN /\ pc' = "report"
    BY <1>1
  <2>3. UNCHANGED <<request, inventory, plan, results, missionId, target, event, hearing, topic, drive,
                    ros, earlier, shown, exit>>
    BY <1>1 DEF nav, work
  <2>4. ScanRunTypeOK
    BY DEF RunInv
  <2> QED  BY <2>1, <2>2, <2>3, <2>4 DEF ScanRunTypeOK
<1>5. PlanFits'
  BY <1>1 DEF RunInv, PlanFits, AtRack, work
<1>6. BinsOnce'
  BY <1>1 DEF RunInv, BinsOnce, Apart, Logs, work
<1>7. CallsOnce'
  <2>1. CASE Made(e)
    BY <1>1, <1>2, <2>1, MadeKeeps DEF RunInv, work
  <2>2. CASE UNCHANGED api
    <3>1. \A b \in AllBins : SameTold(b)
      BY <1>1, RecordsStay DEF work
    <3> QED  BY <1>1, <2>2, <3>1, CallsStay DEF RunInv
  <2> QED  BY <1>3, <2>1, <2>2
<1>8. ExitFits'
  BY <1>1, ExitStays DEF RunInv, work
<1>9. DriveTells'
  BY <1>1, DriveStays DEF RunInv, work
<1>10. SeenAtRack'
  BY <1>1 DEF RunInv, SeenAtRack, nav, work
<1> QED  BY <1>4, <1>5, <1>6, <1>7, <1>8, <1>9, <1>10 DEF RunInv

\* The racks the run may set out with.
LEMMA FetchedFacts ==
    ASSUME FetchPlan, callFaults \in Nat
    PROVE  /\ plan' \in Seq(Planned) /\ Apart(plan') /\ \A i \in DOMAIN plan' : plan'[i].bins # <<>>
           /\ DOMAIN inventory' \subseteq AllBins /\ \A b \in DOMAIN inventory' : inventory'[b] \in Labels
           /\ callFaults' \in 0 .. MaxCallFaults /\ (callFaults' = 0 => callFaults = 0)
<1>1. PICK known \in BOOLEAN, listed \in BOOLEAN :
        /\ callFaults' = callFaults + GetFails(known) + GetFails(listed)
        /\ callFaults' <= MaxCallFaults
        /\ IF ~known /\ (~listed \/ DOMAIN Inventory = {})
           THEN /\ plan' \in Synthetic({Demo})
                /\ inventory' \in [{Demo} -> Labels]
           ELSE /\ plan' \in IF known THEN {ParseTopology(request)}
                                      ELSE Synthetic(DOMAIN Inventory)
                /\ inventory' = IF listed THEN Inventory ELSE <<>>
  BY DEF FetchPlan
<1>2. Demo \in AllBins /\ IsFiniteSet({Demo}) /\ {Demo} # {}
  BY FS_Singleton DEF AllBins
<1>3. DOMAIN Inventory \subseteq AllBins /\ IsFiniteSet(DOMAIN Inventory)
  BY ScanAssumption, FS_Subset DEF AllBins
<1>4. \/ plan' \in Synthetic({Demo})
      \/ plan' = ParseTopology(request)
      \/ plan' \in Synthetic(DOMAIN Inventory) /\ DOMAIN Inventory # {}
  BY <1>1
<1>5. plan' \in Seq(Planned) /\ Apart(plan') /\ \A i \in DOMAIN plan' : plan'[i].bins # <<>>
  <2>1. CASE plan' \in Synthetic({Demo})
    BY <1>2, <2>1, SyntheticFacts
  <2>2. CASE plan' = ParseTopology(request)
    BY <2>2, ParseFacts
  <2>3. CASE plan' \in Synthetic(DOMAIN Inventory) /\ DOMAIN Inventory # {}
    BY <1>3, <2>3, SyntheticFacts
  <2> QED  BY <1>4, <2>1, <2>2, <2>3
<1>6. inventory' \in [{Demo} -> Labels] \/ inventory' = Inventory \/ inventory' = <<>>
  BY <1>1
<1>7. DOMAIN inventory' \subseteq AllBins /\ \A b \in DOMAIN inventory' : inventory'[b] \in Labels
  BY <1>2, <1>3, <1>6, ScanAssumption
<1>8. callFaults' \in 0 .. MaxCallFaults /\ (callFaults' = 0 => callFaults = 0)
  <2>1. GetFails(known) \in Nat /\ GetFails(listed) \in Nat
    BY DEF GetFails
  <2>2. MaxCallFaults \in Nat
    BY ScanAssumption
  <2> QED  BY <1>1, <2>1, <2>2
<1> QED  BY <1>5, <1>7, <1>8

LEMMA FetchPlanKeeps ==
    ASSUME RunInv, FetchPlan
    PROVE  RunInv'
<1>1. /\ pc = "topology" /\ results = <<>>
      /\ \/ plan' = <<>> /\ pc' = "done" /\ exit' = 1
         \/ pc' = "next" /\ exit' = exit
      /\ beating' \in BOOLEAN
      /\ UNCHANGED <<request, detected, results, missionId, nav, mission, stored, alerts, raised,
                     late, shown>>
  BY DEF FetchPlan, RunInv, PlanFits
<1>2. callFaults \in Nat /\ exit = None
  BY <1>1, ScanAssumption DEF RunInv, ScanRunTypeOK, ExitFits
<1>3. /\ plan' \in Seq(Planned) /\ Apart(plan') /\ \A i \in DOMAIN plan' : plan'[i].bins # <<>>
      /\ DOMAIN inventory' \subseteq AllBins /\ \A b \in DOMAIN inventory' : inventory'[b] \in Labels
      /\ callFaults' \in 0 .. MaxCallFaults /\ (callFaults' = 0 => callFaults = 0)
  BY <1>2, FetchedFacts
<1>4. ScanRunTypeOK'
  BY <1>1, <1>3 DEF RunInv, ScanRunTypeOK, nav, Planned
<1>5. PlanFits'
  BY <1>1, <1>3 DEF RunInv, PlanFits, AtRack
<1>6. BinsOnce'
  <2>1. DOMAIN results' = {}
    BY <1>1
  <2>2. Apart(plan)'
    BY <1>3 DEF Apart
  <2> QED  BY <1>1, <2>1, <2>2 DEF BinsOnce
<1>7. CallsOnce'
  <2>1. ASSUME NEW b \in AllBins PROVE BinsCalls(b)'
    <3>1. BinsCalls(b)
      BY DEF RunInv, CallsOnce
    <3>2. /\ ~Recorded(b) /\ ~Differs(b) /\ ~OffTable(b)
          /\ ~Recorded(b)' /\ ~Differs(b)' /\ ~OffTable(b)'
      BY <1>1 DEF Recorded, Differs, OffTable
    <3>3. (Waits("observe", b)' <=> Waits("observe", b)) /\ (Waits("alert", b)' <=> Waits("alert", b))
      BY <1>1 DEF Waits
    <3> QED  BY <1>1, <1>3, <3>1, <3>2, <3>3 DEF BinsCalls
  <2>2. ASSUME NEW e \in late' PROVE LateFits(e)'
    <3>1. LateFits(e)
      BY <1>1, <2>2 DEF RunInv, CallsOnce
    <3>2. Saw(e.bin, e.seen)' <=> Saw(e.bin, e.seen)
      BY <1>1 DEF Saw, Logs
    <3> QED  BY <3>1, <3>2 DEF LateFits
  <2>3. mission # "COMPLETED" /\ ~\E e \in late : e.what = "complete"
    BY <1>1 DEF RunInv, CallsOnce
  <2> QED  BY <1>1, <2>1, <2>2, <2>3 DEF CallsOnce
<1>8. ExitFits'
  <2>1. (exit' = 1 /\ pc' = "done") \/ exit' = None
    BY <1>1, <1>2
  <2>2. None # 0 /\ None # 2
    BY ScanAssumption
  <2> QED  BY <1>1, <2>1, <2>2 DEF ExitFits
<1>9. DriveTells'
  <2>1. /\ (Excused' <=> Excused) /\ ros' = ros /\ (Quiet' <=> Quiet)
    BY <1>1 DEF nav, Excused, Quiet, Old
  <2> QED  BY <1>1, <2>1 DEF RunInv, DriveTells, AtRack
<1>10. SeenAtRack'
  BY <1>1 DEF RunInv, SeenAtRack
<1> QED  BY <1>4, <1>5, <1>6, <1>7, <1>8, <1>9, <1>10 DEF RunInv

-----------------------------------------------------------------------------
(* Driving.                                                                *)

\* A step that only takes the run on to the rack, or on its way there.
LEMMA OnwardKeeps ==
    ASSUME RunInv, UNCHANGED <<work, ros, earlier, api, exit>>, plan # <<>>,
           \/ pc = "next" /\ pc' \in {"wait", "camera"}
           \/ pc = "wait" /\ pc' = "camera"
    PROVE  PlanFits' /\ BinsOnce' /\ CallsOnce' /\ ExitFits' /\ SeenAtRack'
<1>1. /\ plan' = plan /\ results' = results /\ inventory' = inventory /\ detected' = detected
  BY DEF work
<1>2. PlanFits'
  BY <1>1 DEF RunInv, PlanFits, AtRack
<1>3. BinsOnce'
  BY <1>1 DEF RunInv, BinsOnce, Apart, Logs
<1>4. CallsOnce'
  <2>1. \A b \in AllBins : SameTold(b)
    BY <1>1, RecordsStay
  <2> QED  BY <2>1, CallsStay DEF RunInv
<1>5. ExitFits'
  BY <1>1, ExitStays DEF RunInv
<1>6. SeenAtRack'
  BY <1>1 DEF RunInv, SeenAtRack
<1> QED  BY <1>2, <1>3, <1>4, <1>5, <1>6

LEMMA GoToKeeps ==
    ASSUME RunInv, GoTo
    PROVE  RunInv'
<1>1. /\ pc = "next" /\ plan # <<>> /\ ros /\ target' = Rack /\ event' = FALSE
      /\ drive' = [at |-> IF drive.at = Rack THEN Rack ELSE None, to |-> Rack] /\ pc' = "wait"
      /\ UNCHANGED <<work, hearing, topic, ros, earlier, api, shown, beating, exit>>
  BY DEF GoTo, Rack, Sent
<1>2. Rack \in ScanRacks
  BY <1>1, Heads DEF RunInv
<1>3. ScanRunTypeOK'
  <2>1. drive' \in [at : ScanRacks \cup {None}, to : ScanRacks \cup {None}] /\ event' \in BOOLEAN
    BY <1>1, <1>2
  <2> QED  BY <1>1, <1>2, <2>1 DEF RunInv, ScanRunTypeOK, work, api
<1>4. PlanFits' /\ BinsOnce' /\ CallsOnce' /\ ExitFits' /\ SeenAtRack'
  BY <1>1, OnwardKeeps
<1>5. DriveTells'
  <2>1. /\ Rack' = Rack /\ (Excused' <=> Excused) /\ (Old(topic)' <=> Old(topic)) /\ hearing' = hearing
    BY <1>1 DEF Rack, Excused, Old, work
  <2>2. ros /\ ~Excused => Old(topic) /\ ~hearing
    BY <1>1 DEF RunInv, DriveTells, Quiet
  <2>3. drive'.to = Rack'
    BY <1>1, <2>1
  <2>4. ros /\ ~Excused => target' = Rack' /\ Awaited'
    BY <1>1, <2>1, <2>2, <2>3 DEF Awaited
  <2> QED  BY <1>1, <2>1, <2>4 DEF DriveTells, AtRack
<1> QED  BY <1>3, <1>4, <1>5 DEF RunInv

LEMMA StayPutKeeps ==
    ASSUME RunInv, StayPut
    PROVE  RunInv'
<1>1. /\ pc = "next" /\ plan # <<>> /\ ~ros /\ pc' = "camera" /\ shown' = Rack
      /\ UNCHANGED <<work, nav, api, beating, exit>>
  BY DEF StayPut, Shows, Rack
<1>2. Rack \in ScanRacks
  BY <1>1, Heads DEF RunInv
<1>3. ScanRunTypeOK'
  BY <1>1, <1>2 DEF RunInv, ScanRunTypeOK, work, nav, api
<1>4. PlanFits' /\ BinsOnce' /\ CallsOnce' /\ ExitFits' /\ SeenAtRack'
  BY <1>1, OnwardKeeps DEF nav
<1>5. DriveTells'
  BY <1>1 DEF DriveTells, nav
<1> QED  BY <1>3, <1>4, <1>5 DEF RunInv

LEMMA ReachedKeeps ==
    ASSUME RunInv, Reached
    PROVE  RunInv'
<1>1. /\ pc = "wait" /\ event /\ pc' = "camera" /\ shown' = Rack /\ plan # <<>>
      /\ UNCHANGED <<work, nav, api, beating, exit>>
  BY DEF Reached, Shows, Rack, RunInv, PlanFits
<1>2. Rack \in ScanRacks
  BY <1>1, Heads DEF RunInv
<1>3. ScanRunTypeOK'
  BY <1>1, <1>2 DEF RunInv, ScanRunTypeOK, work, nav, api
<1>4. PlanFits' /\ BinsOnce' /\ CallsOnce' /\ ExitFits' /\ SeenAtRack'
  BY <1>1, OnwardKeeps DEF nav
<1>5. DriveTells'
  <2>1. /\ Rack' = Rack /\ (Excused' <=> Excused) /\ (Old(topic)' <=> Old(topic)) /\ hearing' = hearing
        /\ (Stands' <=> Stands) /\ target' = target /\ ros' = ros /\ earlier' = earlier
    BY <1>1 DEF Rack, Excused, Old, Stands, work, nav
  <2>2. ros /\ ~Excused /\ earlier \notin Within[Rack] => target = Rack /\ Stands /\ Old(topic) /\ ~hearing
    BY <1>1 DEF RunInv, DriveTells, Awaited
  <2> QED  BY <1>1, <2>1, <2>2 DEF DriveTells, AtRack
<1> QED  BY <1>3, <1>4, <1>5 DEF RunInv

\* With the first rack done or skipped, the others are left.
LEMMA RackLeft ==
    ASSUME RunInv, plan # <<>>, plan' = Tail(plan)
    PROVE  /\ plan' \in Seq(Planned) /\ Apart(plan)' /\ \A i \in DOMAIN plan' : plan'[i].bins # <<>>
           /\ \A i \in DOMAIN plan' : i + 1 \in DOMAIN plan /\ i + 1 # 1 /\ plan'[i] = plan[i + 1]
<1>1. plan \in Seq(Planned)
  BY Heads DEF RunInv
<1>2. /\ plan' \in Seq(Planned)
      /\ \A i \in DOMAIN plan' : i \in Nat /\ i # 0 /\ i + 1 \in DOMAIN plan /\ plan'[i] = plan[i + 1]
  BY <1>1, TailFacts
<1>3. \A i \in DOMAIN plan' : i + 1 # 1
  BY <1>2
<1>4. \A i \in DOMAIN plan' : plan'[i].bins # <<>>
  BY <1>2, <1>3 DEF RunInv, PlanFits
<1>5. ASSUME NEW i \in DOMAIN plan', NEW j \in DOMAIN plan', NEW k \in DOMAIN plan'[i].bins,
             NEW l \in DOMAIN plan'[j].bins, plan'[i].bins[k] = plan'[j].bins[l]
      PROVE  i = j /\ k = l
  <2>1. i + 1 = j + 1 /\ k = l
    BY <1>2, <1>5 DEF RunInv, BinsOnce, Apart
  <2> QED  BY <1>2, <2>1
<1> QED  BY <1>2, <1>3, <1>4, <1>5 DEF Apart

LEMMA SkipFacts ==
    ASSUME RunInv, TimesOut
    PROVE  /\ plan # <<>> /\ results' \in Seq(Result)
           /\ \A i \in DOMAIN results : i \in DOMAIN results' /\ results'[i] = results[i]
           /\ \A i \in DOMAIN results' : i \in Nat /\ i # 0 /\ (i \notin DOMAIN results => results'[i].error)
           /\ \A i \in DOMAIN results' \ DOMAIN results :
                  results'[i].expected = Expects(results'[i].bin)
           /\ \E i \in DOMAIN results' : results'[i].error
<1> DEFINE s == Head(plan).bins
           x == [i \in DOMAIN s |-> Outcome(s[i], Rack, None, TRUE)]
<1>1. plan # <<>> /\ results' = results \o x /\ pc = "wait"
  BY DEF TimesOut, RunInv, PlanFits, Skip, Rack
<1>2. s \in Seq(AllBins) /\ s # <<>> /\ Rack \in ScanRacks /\ None \in Seen
  <2>1. 1 \in DOMAIN plan /\ Head(plan) = plan[1] /\ s \in Seq(AllBins) /\ Rack \in ScanRacks
    BY <1>1, Heads DEF RunInv
  <2>2. s # <<>>
    BY <1>1, <2>1 DEF RunInv, PlanFits
  <2> QED  BY <2>1, <2>2 DEF Seen
<1>3. ASSUME NEW i \in DOMAIN s
      PROVE  x[i] \in Result /\ x[i].error /\ x[i].expected = Expects(x[i].bin)
  <2>1. PICK b \in AllBins : b = s[i]
    BY <1>2
  <2>2. PICK o : o = Outcome(b, Rack, None, TRUE)
    OBVIOUS
  <2>3. o \in Result /\ o.bin = b /\ o.expected = Expects(b) /\ o.error = TRUE
    <3>1. Expects(b) \in Labels \cup {None} /\ drive.at \in ScanRacks \cup {None}
      BY DEF RunInv, PlanFits, ScanRunTypeOK, Expects
    <3> QED  BY <1>2, <2>2, <3>1 DEF Outcome, Result
  <2>4. x[i] = o
    BY <2>1, <2>2
  <2> HIDE DEF x
  <2> QED  BY <2>3, <2>4
<1> DEFINE n == Len(s)
<1>4. DOMAIN s = 1 .. n /\ n \in Nat /\ n # 0
  BY <1>2
<1> HIDE DEF n
<1>5. x \in Seq(Result) /\ Len(x) = n
      /\ \A i \in 1 .. n : x[i].error /\ x[i].expected = Expects(x[i].bin)
  <2>1. DOMAIN x = 1 .. n
    BY <1>4
  <2>2. \A i \in 1 .. n : x[i] \in Result /\ x[i].error /\ x[i].expected = Expects(x[i].bin)
    BY <1>3, <1>4
  <2>2a. x = [i \in 1 .. n |-> x[i]]
    BY <1>4
  <2> HIDE DEF x, s
  <2>3. x \in [1 .. n -> Result]
    BY <2>2, <2>2a
  <2>4. x \in Seq(Result) /\ Len(x) = n
    BY <1>4, <2>3, IsASeq
  <2> QED  BY <2>2, <2>4
<1>6. results \in Seq(Result) /\ Len(results) \in Nat /\ DOMAIN results = 1 .. Len(results)
  BY DEF RunInv, ScanRunTypeOK
<1> DEFINE m == Len(results)
<1> HIDE DEF x, s
<1>7. /\ results' \in Seq(Result) /\ Len(results') = m + n
      /\ \A i \in 1 .. m + n : results'[i] = IF i <= m THEN results[i] ELSE x[i - m]
  <2>1. /\ results \o x \in Seq(Result) /\ Len(results \o x) = m + Len(x)
        /\ \A i \in 1 .. m + Len(x) : (results \o x)[i] = IF i <= m THEN results[i] ELSE x[i - m]
    BY <1>5, <1>6, ConcatProperties
  <2> QED  BY <1>1, <1>5, <2>1
<1>8. m \in Nat /\ n \in Nat /\ n # 0 /\ DOMAIN results = 1 .. m /\ DOMAIN results' = 1 .. m + n
      /\ \A i \in 1 .. n : x[i].error /\ x[i].expected = Expects(x[i].bin)
  BY <1>4, <1>5, <1>6, <1>7
<1> HIDE DEF m, n
<1>9. \A i \in DOMAIN results' :
          /\ i \in Nat /\ i # 0
          /\ i \notin DOMAIN results =>
                 results'[i].error /\ results'[i].expected = Expects(results'[i].bin)
  <2> SUFFICES ASSUME NEW i \in 1 .. m + n, i \notin 1 .. m
               PROVE  results'[i].error /\ results'[i].expected = Expects(results'[i].bin)
    BY <1>8
  <2>1. i - m \in 1 .. n /\ results'[i] = x[i - m]
    BY <1>7, <1>8
  <2> QED  BY <1>8, <2>1
<1>10. \A i \in DOMAIN results : i \in DOMAIN results' /\ results'[i] = results[i]
  BY <1>7, <1>8
<1>11. m + n \in DOMAIN results' /\ m + n \notin DOMAIN results
  BY <1>8
<1> QED  BY <1>1, <1>7, <1>9, <1>10, <1>11

LEMMA TimesOutKeeps ==
    ASSUME RunInv, TimesOut
    PROVE  RunInv'
<1>1. /\ pc = "wait" /\ ~event /\ plan' = Tail(plan) /\ pc' = "next"
      /\ UNCHANGED <<request, inventory, detected, missionId, nav, api, shown, beating, exit>>
  BY DEF TimesOut
<1>2. /\ plan # <<>> /\ results' \in Seq(Result)
      /\ \A i \in DOMAIN results : i \in DOMAIN results' /\ results'[i] = results[i]
      /\ \A i \in DOMAIN results' : i \in Nat /\ i # 0 /\ (i \notin DOMAIN results => results'[i].error)
      /\ \E i \in DOMAIN results' : results'[i].error
  BY SkipFacts
<1>3. /\ plan' \in Seq(Planned) /\ Apart(plan)' /\ \A i \in DOMAIN plan' : plan'[i].bins # <<>>
      /\ \A i \in DOMAIN plan' : i + 1 \in DOMAIN plan /\ i + 1 # 1 /\ plan'[i] = plan[i + 1]
  BY <1>1, <1>2, RackLeft
<1>4. ScanRunTypeOK'
  BY <1>1, <1>2, <1>3 DEF RunInv, ScanRunTypeOK, nav, api, Planned
<1>5. PlanFits'
  BY <1>1, <1>3 DEF RunInv, PlanFits, AtRack
<1>6. ASSUME NEW b, NEW m \in DOMAIN results', Logs(m, b)' PROVE m \in DOMAIN results /\ Logs(m, b)
  BY <1>2, <1>6 DEF Logs
<1>7. ASSUME NEW b, NEW m \in DOMAIN results, Logs(m, b) PROVE m \in DOMAIN results' /\ Logs(m, b)'
  BY <1>2, <1>7 DEF Logs
<1>8. BinsOnce'
  <2>1. ASSUME NEW m \in DOMAIN results', NEW n \in DOMAIN results', ~results'[m].error,
               Logs(n, results[m].bin)'
        PROVE  m = n
    <3>1. m \in DOMAIN results /\ n \in DOMAIN results /\ results'[m] = results[m] /\ Logs(n, results[m].bin)
      BY <1>2, <2>1 DEF Logs
    <3> QED  BY <2>1, <3>1 DEF RunInv, BinsOnce
  <2>2. ASSUME NEW m \in DOMAIN results', NEW i \in DOMAIN plan', NEW k \in DOMAIN plan'[i].bins,
               Logs(m, plan[i].bins[k])'
        PROVE  FALSE
    <3>1. m \in DOMAIN results /\ Logs(m, plan[i + 1].bins[k]) /\ i + 1 \in DOMAIN plan
          /\ k \in DOMAIN plan[i + 1].bins
      BY <1>2, <1>3, <2>2 DEF Logs
    <3> QED  BY <1>1, <3>1 DEF RunInv, BinsOnce
  <2> QED  BY <1>1, <1>3, <2>1, <2>2 DEF BinsOnce
<1>9. CallsOnce'
  <2>1. ASSUME NEW b \in AllBins
        PROVE  SameTold(b)
    <3>1. Recorded(b)' <=> Recorded(b)
      BY <1>6, <1>7 DEF Recorded
    <3>2. Differs(b)' <=> Differs(b)
      BY <1>2, <1>6, <1>7 DEF Differs
    <3>3. ~Pending(b)' /\ ~Pending(b)
      BY <1>1 DEF Pending
    <3>4. OffTable(b)' <=> OffTable(b)
      BY <1>2, <1>6, <1>7, BinCodeStays DEF OffTable
    <3>5. \A x : Saw(b, x)' <=> Saw(b, x)
      BY <1>2, <1>6, <1>7 DEF Saw
    <3> QED  BY <3>1, <3>2, <3>3, <3>4, <3>5 DEF SameTold
  <2> QED  BY <1>1, <2>1, CallsStay DEF RunInv
<1>10. ExitFits'
  <2>1. ASSUME NEW m \in DOMAIN results'
        PROVE  (results[m].expected = Expects(results[m].bin))'
    <3>1. \A b : Expects(b)' = Expects(b)
      BY <1>1 DEF Expects
    <3>2. results'[m].expected = Expects(results'[m].bin)
      <4>1. CASE m \in DOMAIN results
        BY <1>2, <4>1 DEF RunInv, ExitFits
      <4>2. CASE m \notin DOMAIN results
        BY <2>1, <4>2, SkipFacts
      <4> QED  BY <4>1, <4>2
    <3> QED  BY <3>1, <3>2
  <2> QED  BY <1>1, <2>1, ScanAssumption DEF RunInv, ExitFits
<1>11. DriveTells'
  BY <1>2 DEF DriveTells, Excused
<1>12. SeenAtRack'
  <2> SUFFICES ASSUME ros, NEW i \in DOMAIN results'
               PROVE  \/ results'[i].at = results'[i].rack
                      \/ \E j \in 1 .. i : results'[j].error \/ earlier \in Within[results'[j].rack]
    BY <1>1 DEF SeenAtRack, nav
  <2>1. CASE i \notin DOMAIN results
    BY <1>2, <2>1
  <2>2. CASE i \in DOMAIN results
    <3>1. \/ results[i].at = results[i].rack
          \/ \E j \in 1 .. i : results[j].error \/ earlier \in Within[results[j].rack]
      BY <2>2 DEF RunInv, SeenAtRack
    <3>2. DOMAIN results = 1 .. Len(results) /\ Len(results) \in Nat
      BY DEF RunInv, ScanRunTypeOK
    <3>3. \A j \in 1 .. i : j \in DOMAIN results
      BY <2>2, <3>2
    <3> QED  BY <1>2, <2>2, <3>1, <3>3
  <2> QED  BY <2>1, <2>2
<1> QED  BY <1>4, <1>5, <1>8, <1>9, <1>10, <1>11, <1>12 DEF RunInv

-----------------------------------------------------------------------------
(* The rack.                                                               *)

LEMMA PhotographKeeps ==
    ASSUME RunInv, Photograph
    PROVE  RunInv'
<1>1. /\ pc = "camera" /\ pc' = "bin" /\ plan # <<>>
      /\ detected' \in [Range(Head(plan).bins) -> Seen]
      /\ UNCHANGED <<request, inventory, plan, results, missionId, nav, api, shown, beating, exit>>
  BY DEF Photograph, RunInv, PlanFits, AtRack
<1>2. ScanRunTypeOK'
  BY <1>1 DEF RunInv, ScanRunTypeOK, nav, api
<1>3. PlanFits'
  <2>1. \A k \in DOMAIN Head(plan).bins : detected'[Head(plan).bins[k]] \in Seen
    BY <1>1 DEF Range
  <2> QED  BY <1>1, <2>1 DEF RunInv, PlanFits, AtRack
<1>4. BinsOnce'
  BY <1>1 DEF RunInv, BinsOnce, Apart, Logs
<1>5. CallsOnce'
  <2>1. \A b \in AllBins : SameTold(b)
    BY <1>1, RecordsStay
  <2> QED  BY <1>1, <2>1, CallsStay DEF RunInv
<1>6. ExitFits'
  BY <1>1, ExitStays DEF RunInv
<1>7. DriveTells'
  BY <1>1, DriveStays DEF RunInv, AtRack
<1>8. SeenAtRack'
  BY <1>1 DEF RunInv, SeenAtRack, nav
<1> QED  BY <1>2, <1>3, <1>4, <1>5, <1>6, <1>7, <1>8 DEF RunInv

LEMMA DecodeFailsKeeps ==
    ASSUME RunInv, DecodeFails
    PROVE  RunInv'
<1>1. /\ pc = "camera" /\ pc' = "done" /\ exit' = 1 /\ beating' = FALSE
      /\ UNCHANGED <<work, nav, api, shown>>
  BY DEF DecodeFails
<1>2. ScanRunTypeOK'
  <2>1. beating' \in BOOLEAN
    BY <1>1
  <2> QED  BY <1>1, <2>1 DEF RunInv, ScanRunTypeOK, work, nav, api
<1>3. PlanFits'
  BY <1>1 DEF RunInv, PlanFits, AtRack, work
<1>4. BinsOnce'
  BY <1>1 DEF RunInv, BinsOnce, Apart, Logs, work
<1>5. CallsOnce'
  <2>1. \A b \in AllBins : SameTold(b)
    BY <1>1, RecordsStay DEF work
  <2> QED  BY <1>1, <2>1, CallsStay DEF RunInv
<1>6. ExitFits'
  <2>1. \A b : Expects(b)' = Expects(b)
    BY <1>1 DEF Expects, work
  <2> QED  BY <1>1, <2>1 DEF RunInv, ExitFits, work
<1>7. DriveTells'
  BY <1>1, DriveStays DEF RunInv, AtRack, work
<1>8. SeenAtRack'
  BY <1>1 DEF RunInv, SeenAtRack, nav, work
<1> QED  BY <1>2, <1>3, <1>4, <1>5, <1>6, <1>7, <1>8 DEF RunInv

\* The run leaves the rack the robot stands at.
LEMMA RackDoneKeeps ==
    ASSUME RunInv, RackDone
    PROVE  RunInv'
<1>1. /\ pc = "bin" /\ Head(plan).bins = <<>> /\ plan' = Tail(plan) /\ pc' = "next" /\ plan # <<>>
      /\ UNCHANGED <<request, inventory, detected, results, missionId, nav, api, shown, beating, exit>>
  BY DEF RackDone, RunInv, PlanFits, AtRack
<1>2. /\ plan' \in Seq(Planned) /\ Apart(plan)' /\ \A i \in DOMAIN plan' : plan'[i].bins # <<>>
      /\ \A i \in DOMAIN plan' : i + 1 \in DOMAIN plan /\ i + 1 # 1 /\ plan'[i] = plan[i + 1]
  BY <1>1, RackLeft
<1>3. ScanRunTypeOK'
  BY <1>1, <1>2 DEF RunInv, ScanRunTypeOK, nav, api, Planned
<1>4. PlanFits'
  BY <1>1, <1>2 DEF RunInv, PlanFits, AtRack
<1>5. BinsOnce'
  <2>1. ASSUME NEW m \in DOMAIN results', NEW i \in DOMAIN plan', NEW k \in DOMAIN plan'[i].bins,
               Logs(m, plan[i].bins[k])'
        PROVE  FALSE
    <3>1. m \in DOMAIN results /\ Logs(m, plan[i + 1].bins[k]) /\ i + 1 \in DOMAIN plan
          /\ k \in DOMAIN plan[i + 1].bins
      BY <1>1, <1>2, <2>1 DEF Logs
    <3> QED  BY <1>1, <3>1 DEF RunInv, BinsOnce
  <2>2. \A m, n \in DOMAIN results' : ~results'[m].error /\ Logs(n, results[m].bin)' => m = n
    BY <1>1 DEF RunInv, BinsOnce, Logs
  <2> QED  BY <1>1, <1>2, <2>1, <2>2 DEF BinsOnce
<1>6. CallsOnce'
  <2>1. \A b \in AllBins : SameTold(b)
    BY <1>1, RecordsStay
  <2> QED  BY <1>1, <2>1, CallsStay DEF RunInv
<1>7. ExitFits'
  BY <1>1, ExitStays DEF RunInv
<1>8. DriveTells'
  <2>1. /\ (Excused' <=> Excused) /\ ros' = ros /\ (Old(topic)' <=> Old(topic)) /\ hearing' = hearing
        /\ target' = target /\ earlier' = earlier /\ drive' = drive
    BY <1>1 DEF Excused, Old, nav
  <2>2. ASSUME ros, ~Excused PROVE Quiet'
    <3>1. \E j \in DOMAIN results : results[j].rack = Rack
      <4>1. 1 \in DOMAIN plan /\ Head(plan) = plan[1]
        BY <1>1, Heads DEF RunInv
      <4> QED  BY <1>1, <4>1 DEF RunInv, PlanFits
    <3>2. earlier \notin Within[Rack]
      BY <2>2, <3>1 DEF Excused
    <3>3. target = Rack /\ Stands /\ Old(topic) /\ ~hearing
      BY <1>1, <2>2, <3>2 DEF RunInv, DriveTells, AtRack
    <3> QED  BY <2>1, <3>2, <3>3 DEF Quiet, Stands
  <2> QED  BY <1>1, <2>1, <2>2 DEF DriveTells, AtRack
<1>9. SeenAtRack'
  BY <1>1 DEF RunInv, SeenAtRack, nav
<1> QED  BY <1>3, <1>4, <1>5, <1>6, <1>7, <1>8, <1>9 DEF RunInv

\* With its first bin done, the plan's bins are still apart, and none of them
\* is the one that was done.
LEMMA BinLeft ==
    ASSUME RunInv, plan # <<>>, Head(plan).bins # <<>>, BinDone
    PROVE  /\ Apart(plan)'
           /\ \A i \in DOMAIN plan' : \A k \in DOMAIN plan'[i].bins :
                  /\ i \in DOMAIN plan
                  /\ \E l \in DOMAIN plan[i].bins :
                         plan'[i].bins[k] = plan[i].bins[l] /\ ~(i = 1 /\ l = 1)
<1>1. /\ DOMAIN plan' = DOMAIN plan
      /\ \A i \in DOMAIN plan' : \A k \in DOMAIN plan'[i].bins :
             LET l == IF i = 1 THEN k + 1 ELSE k
             IN  k \in Nat /\ l \in DOMAIN plan[i].bins /\ plan'[i].bins[k] = plan[i].bins[l]
  BY BinDoneFacts DEF RunInv
<1>2. /\ plan' \in Seq(Planned) /\ 1 \in DOMAIN plan' /\ Head(plan').bins = Tail(Head(plan).bins)
      /\ Head(plan') = plan'[1] /\ Head(plan).bins \in Seq(AllBins)
  BY BinDoneFacts, Heads DEF RunInv
<1>3. \A k \in DOMAIN plan'[1].bins : k # 0
  <2> DEFINE s == Head(plan).bins
  <2>1. s \in Seq(AllBins) /\ s # <<>> /\ plan'[1].bins = Tail(s)
    BY <1>2
  <2> HIDE DEF s
  <2>2. \A k \in DOMAIN Tail(s) : k # 0
    BY <2>1, TailFacts
  <2> QED  BY <2>1, <2>2
<1>4. ASSUME NEW i \in DOMAIN plan', NEW j \in DOMAIN plan', NEW k \in DOMAIN plan'[i].bins,
             NEW l \in DOMAIN plan'[j].bins, plan'[i].bins[k] = plan'[j].bins[l]
      PROVE  i = j /\ k = l
  <2> DEFINE x == IF i = 1 THEN k + 1 ELSE k
             y == IF j = 1 THEN l + 1 ELSE l
  <2>1. k \in Nat /\ x \in DOMAIN plan[i].bins /\ plan'[i].bins[k] = plan[i].bins[x]
    BY <1>1
  <2>2. l \in Nat /\ y \in DOMAIN plan[j].bins /\ plan'[j].bins[l] = plan[j].bins[y]
    BY <1>1
  <2> HIDE DEF x, y
  <2>3. i = j /\ x = y
    <3>1. i \in DOMAIN plan /\ j \in DOMAIN plan /\ plan[i].bins[x] = plan[j].bins[y]
      BY <1>1, <1>4, <2>1, <2>2
    <3>2. Apart(plan)
      BY DEF RunInv, BinsOnce
    <3> QED  BY <2>1, <2>2, <3>1, <3>2 DEF Apart
  <2> QED  BY <2>1, <2>2, <2>3 DEF x, y
<1>5. ASSUME NEW i \in DOMAIN plan', NEW k \in DOMAIN plan'[i].bins
      PROVE  /\ i \in DOMAIN plan
             /\ \E l \in DOMAIN plan[i].bins :
                    plan'[i].bins[k] = plan[i].bins[l] /\ ~(i = 1 /\ l = 1)
  <2>1. CASE i = 1
    <3>1. k \in Nat /\ k # 0 /\ k + 1 \in DOMAIN plan[i].bins /\ plan'[i].bins[k] = plan[i].bins[k + 1]
      BY <1>1, <1>3, <2>1
    <3> QED  BY <1>1, <3>1
  <2>2. CASE i # 1
    BY <1>1, <2>2
  <2> QED  BY <2>1, <2>2
<1> QED  BY <1>4, <1>5 DEF Apart

LEMMA NextBin ==
    ASSUME ScanRunTypeOK, plan # <<>>, Head(plan).bins # <<>>
    PROVE  /\ Bin \in AllBins /\ 1 \in DOMAIN plan /\ Head(plan) = plan[1]
           /\ 1 \in DOMAIN plan[1].bins /\ Bin = plan[1].bins[1]
<1>1. 1 \in DOMAIN plan /\ Head(plan) = plan[1] /\ Head(plan).bins \in Seq(AllBins)
  BY Heads
<1> QED  BY <1>1 DEF Bin

LEMMA RecordFacts ==
    ASSUME RunInv, Record
    PROVE  /\ pc = "bin" /\ plan # <<>> /\ Head(plan).bins # <<>>
           /\ Len(results) \in Nat /\ DOMAIN results = 1 .. Len(results)
           /\ results' \in Seq(Result) /\ DOMAIN results' = 1 .. Len(results) + 1
           /\ \A i \in DOMAIN results : results'[i] = results[i]
           /\ LET o == results'[Len(results) + 1]
                  d == o.expected # None /\ o.observed # o.expected
              IN  /\ o.bin = Bin /\ o.rack = Rack /\ ~o.error /\ o.at = drive.at
                  /\ o.expected = Expects(Bin) /\ o.observed = detected[Bin] /\ detected[Bin] \in Seen
                  /\ \/ d /\ pc' = "alert" /\ plan' = plan
                     \/ ~d /\ pc' = "bin" /\ BinDone
<1> DEFINE o == Outcome(Bin, Rack, detected[Bin], FALSE)
<1>1. /\ pc = "bin" /\ plan # <<>> /\ Head(plan).bins # <<>>
      /\ results' = Append(results, o)
      /\ \/ Expects(Bin) # None /\ detected[Bin] # Expects(Bin) /\ pc' = "alert" /\ plan' = plan
         \/ ~(Expects(Bin) # None /\ detected[Bin] # Expects(Bin)) /\ BinDone /\ pc' = "bin"
  BY DEF Record, RunInv, PlanFits, AtRack, Rack
<1>2. Bin \in AllBins /\ Rack \in ScanRacks /\ detected[Bin] \in Seen
  <2>1. /\ Bin \in AllBins /\ 1 \in DOMAIN plan /\ Head(plan) = plan[1]
        /\ 1 \in DOMAIN plan[1].bins /\ Bin = plan[1].bins[1] /\ Rack \in ScanRacks
    BY <1>1, NextBin, Heads DEF RunInv
  <2>2. detected[Bin] \in Seen
    BY <1>1, <2>1 DEF RunInv, PlanFits
  <2> QED  BY <2>1, <2>2
<1>3. /\ o \in Result /\ o.bin = Bin /\ o.rack = Rack /\ o.expected = Expects(Bin)
      /\ o.observed = detected[Bin] /\ ~o.error /\ o.at = drive.at
  <2>1. Expects(Bin) \in Labels \cup {None} /\ drive.at \in ScanRacks \cup {None}
    BY DEF RunInv, PlanFits, ScanRunTypeOK, Expects
  <2> QED  BY <1>2, <2>1 DEF Outcome, Result
<1> HIDE DEF o
<1>4. results \in Seq(Result)
  BY DEF RunInv, ScanRunTypeOK
<1>5. /\ results' \in Seq(Result) /\ DOMAIN results = 1 .. Len(results) /\ Len(results) \in Nat
      /\ DOMAIN results' = 1 .. Len(results) + 1
      /\ results'[Len(results) + 1] = o /\ \A i \in 1 .. Len(results) : results'[i] = results[i]
  BY <1>1, <1>3, <1>4, AppendFacts
<1> QED  BY <1>1, <1>2, <1>3, <1>5

\* What a record adds to what has been recorded.
LEMMA RecordSees ==
    ASSUME RunInv, Record, NEW b
    PROVE  /\ \A m \in DOMAIN results' :
                  Logs(m, b)' <=> \/ m \in DOMAIN results /\ Logs(m, b)
                                  \/ m \notin DOMAIN results /\ b = Bin
           /\ Recorded(b)' <=> Recorded(b) \/ b = Bin
           /\ Differs(b)' <=> Differs(b) \/ (b = Bin /\ pc' = "alert")
           /\ ~Recorded(Bin)
           /\ Pending(b)' <=> (b = Bin /\ pc' = "alert")
           /\ OffTable(b)' <=> OffTable(b) \/ (b = Bin /\ detected[Bin] # BinCode(b))
           /\ \A x : Saw(b, x)' <=> Saw(b, x) \/ (b = Bin /\ x = detected[Bin])
<1>0. PICK n : n = Len(results) + 1
  OBVIOUS
<1>1. /\ pc = "bin" /\ plan # <<>> /\ Head(plan).bins # <<>>
      /\ n \in Nat /\ n \notin DOMAIN results /\ n \in DOMAIN results'
      /\ \A i \in DOMAIN results' : i # n => i \in DOMAIN results
      /\ \A i \in DOMAIN results : i \in DOMAIN results' /\ results'[i] = results[i]
      /\ results'[n].bin = Bin /\ ~results'[n].error /\ results'[n].observed = detected[Bin]
      /\ \/ /\ results'[n].expected # None /\ results'[n].observed # results'[n].expected
            /\ pc' = "alert" /\ plan' = plan
         \/ /\ ~(results'[n].expected # None /\ results'[n].observed # results'[n].expected)
            /\ pc' = "bin"
  <2>1. n \in Nat /\ n \notin DOMAIN results /\ n \in DOMAIN results'
        /\ (\A i \in DOMAIN results' : i # n => i \in DOMAIN results)
        /\ (\A i \in DOMAIN results : i \in DOMAIN results')
    BY <1>0, RecordFacts
  <2> QED  BY <1>0, <2>1, RecordFacts
<1>2. \A m \in DOMAIN results' :
          Logs(m, b)' <=> \/ m \in DOMAIN results /\ Logs(m, b)
                          \/ m \notin DOMAIN results /\ b = Bin
  BY <1>1 DEF Logs
<1>3. Recorded(b)' <=> Recorded(b) \/ b = Bin
  BY <1>1, <1>2 DEF Recorded
<1>4. Differs(b)' <=> Differs(b) \/ (b = Bin /\ pc' = "alert")
  <2>1. ASSUME NEW m \in DOMAIN results', m # n
        PROVE  (Logs(m, b) /\ results[m].expected # None /\ results[m].observed # results[m].expected)'
               <=> Logs(m, b) /\ results[m].expected # None /\ results[m].observed # results[m].expected
    BY <1>1, <1>2, <2>1
  <2>2. (Logs(n, b) /\ results[n].expected # None /\ results[n].observed # results[n].expected)'
        <=> b = Bin /\ pc' = "alert"
    BY <1>1, <1>2 DEF Logs
  <2> QED  BY <1>1, <2>1, <2>2 DEF Differs
<1>5. ~Recorded(Bin)
  <2>1. 1 \in DOMAIN plan /\ 1 \in DOMAIN plan[1].bins /\ Bin = plan[1].bins[1]
    BY <1>1, NextBin DEF RunInv
  <2> QED  BY <1>1, <2>1 DEF RunInv, BinsOnce, Recorded
<1>6. Pending(b)' <=> (b = Bin /\ pc' = "alert")
  BY <1>1 DEF Pending, Bin
<1>7. OffTable(b)' <=> OffTable(b) \/ (b = Bin /\ detected[Bin] # BinCode(b))
  <2>1. ASSUME NEW m \in DOMAIN results', m # n
        PROVE  /\ m \in DOMAIN results
               /\ (Logs(m, b) /\ results[m].observed # BinCode(b))'
                      <=> Logs(m, b) /\ results[m].observed # BinCode(b)
    BY <1>1, <1>2, <2>1, BinCodeStays
  <2>2. (Logs(n, b) /\ results[n].observed # BinCode(b))' <=> b = Bin /\ detected[Bin] # BinCode(b)
    BY <1>1, <1>2, BinCodeStays
  <2> QED  BY <1>1, <2>1, <2>2 DEF OffTable
<1>8. ASSUME NEW x PROVE Saw(b, x)' <=> Saw(b, x) \/ (b = Bin /\ x = detected[Bin])
  <2>1. ASSUME NEW m \in DOMAIN results', m # n
        PROVE  /\ m \in DOMAIN results
               /\ (Logs(m, b) /\ results[m].observed = x)' <=> Logs(m, b) /\ results[m].observed = x
    BY <1>1, <1>2, <2>1
  <2>2. (Logs(n, b) /\ results[n].observed = x)' <=> b = Bin /\ x = detected[Bin]
    BY <1>1, <1>2
  <2> QED  BY <1>1, <2>1, <2>2 DEF Saw
<1> QED  BY <1>2, <1>3, <1>4, <1>5, <1>6, <1>7, <1>8

\* Neither the observation of a bin nor what the backend makes of it is
\* there twice.
LEMMA SubmitObservationKeeps ==
    ASSUME RunInv, NEW answered \in BOOLEAN, SubmitObservation(answered)
    PROVE  RunInv'
<1>1. /\ Record
      /\ Post([what |-> "observe", bin |-> Bin, seen |-> detected[Bin]], answered)
      /\ UNCHANGED <<request, inventory, detected, missionId, nav, shown, beating, exit>>
  BY DEF SubmitObservation, Record, Tell
<1>2. PICK n : n = Len(results) + 1
  OBVIOUS
<1>3. /\ pc = "bin" /\ plan # <<>> /\ Head(plan).bins # <<>>
      /\ n \in Nat /\ n \notin DOMAIN results /\ n \in DOMAIN results'
      /\ \A i \in DOMAIN results' : i # n => i \in DOMAIN results
      /\ \A i \in DOMAIN results : i \in DOMAIN results' /\ results'[i] = results[i]
      /\ DOMAIN results = 1 .. n - 1 /\ DOMAIN results' = 1 .. n /\ Len(results') = n
      /\ results' \in Seq(Result)
  <2>1. /\ n \in Nat /\ n \notin DOMAIN results /\ n \in DOMAIN results'
        /\ \A i \in DOMAIN results' : i # n => i \in DOMAIN results
        /\ \A i \in DOMAIN results : i \in DOMAIN results'
        /\ DOMAIN results = 1 .. n - 1 /\ DOMAIN results' = 1 .. n
    BY <1>1, <1>2, RecordFacts
  <2>2. results' \in Seq(Result)
    BY <1>1, RecordFacts
  <2>3. Len(results') = n
    BY <2>1, <2>2
  <2> QED  BY <1>1, <2>1, <2>2, <2>3, RecordFacts
<1>4. /\ results'[n].bin = Bin /\ results'[n].rack = Rack /\ ~results'[n].error
      /\ results'[n].at = drive.at
      /\ results'[n].expected = Expects(Bin) /\ detected[Bin] \in Seen
      /\ \/ /\ results'[n].expected # None /\ results'[n].observed # results'[n].expected
            /\ pc' = "alert" /\ plan' = plan
         \/ /\ ~(results'[n].expected # None /\ results'[n].observed # results'[n].expected)
            /\ pc' = "bin" /\ BinDone
  BY <1>1, <1>2, RecordFacts
<1>5. /\ Bin \in AllBins /\ 1 \in DOMAIN plan /\ Head(plan) = plan[1]
      /\ 1 \in DOMAIN plan[1].bins /\ Bin = plan[1].bins[1] /\ Rack \in ScanRacks
      /\ plan \in Seq(Planned)
  BY <1>3, NextBin, Heads DEF RunInv
<1>6. /\ plan' \in Seq(Planned) /\ plan' # <<>> /\ Rack' = Rack /\ DOMAIN plan' = DOMAIN plan
      /\ \A i \in DOMAIN plan : i # 1 => plan'[i] = plan[i]
  <2>1. CASE plan' = plan
    BY <1>3, <1>5, <2>1 DEF Rack
  <2>2. CASE BinDone
    BY <1>3, <2>2, BinDoneFacts DEF RunInv
  <2> QED  BY <1>4, <2>1, <2>2
<1>7. PICK b0 \in AllBins : b0 = Bin
  BY <1>5
<1> DEFINE e == [what |-> "observe", bin |-> b0, seen |-> detected[Bin]]
<1>8. Made(e) /\ e \in Effect /\ e.what = "observe" /\ e.bin = b0 /\ e.seen = detected[Bin]
  <2>1. Made(e)
    BY <1>1, <1>7, PostMade DEF RunInv
  <2> QED  BY <1>4, <2>1 DEF Effect
<1> HIDE DEF e
<1>9. ScanRunTypeOK'
  <2>1. /\ mission' \in {None, "SCHEDULED", "COMPLETED"} /\ stored' \in [AllBins -> Nat]
        /\ alerts' \in [AllBins -> Nat] /\ late' \subseteq Effect /\ callFaults' \in 0 .. MaxCallFaults
        /\ raised' \in [AllBins -> Nat]
    BY <1>8, MadeTypes DEF RunInv
  <2>2. pc' \in {"alert", "bin"}
    BY <1>4
  <2>3. UNCHANGED <<request, inventory, missionId, target, event, hearing, topic, drive, ros, earlier,
                    shown, beating, exit>>
    BY <1>1 DEF nav
  <2>4. results' \in Seq(Result) /\ plan' \in Seq([rack : ScanRacks, bins : Seq(AllBins)])
    BY <1>3, <1>6 DEF Planned
  <2>5. ScanRunTypeOK
    BY DEF RunInv
  <2> QED  BY <2>1, <2>2, <2>3, <2>4, <2>5 DEF ScanRunTypeOK
<1>10. PlanFits'
  <2>1. \A k \in DOMAIN Head(plan').bins : detected'[Head(plan').bins[k]] \in Seen
    <3>1. CASE plan' = plan
      BY <1>1, <1>3, <3>1 DEF RunInv, PlanFits
    <3>2. CASE BinDone
      <4>1. Head(plan').bins = Tail(Head(plan).bins) /\ Head(plan).bins \in Seq(AllBins)
        BY <1>3, <3>2, BinDoneFacts, Heads DEF RunInv
      <4>2. ASSUME NEW k \in DOMAIN Head(plan').bins
            PROVE  \E l \in DOMAIN Head(plan).bins : Head(plan').bins[k] = Head(plan).bins[l]
        <5> DEFINE s == Head(plan).bins
        <5>1. s \in Seq(AllBins) /\ s # <<>> /\ Head(plan').bins = Tail(s) /\ k \in DOMAIN Tail(s)
          BY <1>3, <4>1
        <5> HIDE DEF s
        <5>2. k + 1 \in DOMAIN s /\ Tail(s)[k] = s[k + 1]
          BY <5>1, TailFacts
        <5>3. \E l \in DOMAIN s : Head(plan').bins[k] = s[l]
          BY <5>1, <5>2
        <5> QED  BY <5>3 DEF s
      <4> QED  BY <1>1, <1>3, <4>2 DEF RunInv, PlanFits
    <3> QED  BY <1>4, <3>1, <3>2
  <2>2. ASSUME NEW i \in DOMAIN plan'
        PROVE  \/ plan'[i].bins # <<>>
               \/ i = 1 /\ pc' = "bin" /\ \E j \in DOMAIN results' : results'[j].rack = Rack'
    <3>1. CASE i = 1
      <4>1. CASE pc' = "bin"
        BY <1>3, <1>4, <1>6, <3>1, <4>1
      <4>2. CASE plan' = plan
        BY <1>3, <1>5, <3>1, <4>2
      <4> QED  BY <1>4, <4>1, <4>2
    <3>2. CASE i # 1
      BY <1>3, <1>6, <3>2 DEF RunInv, PlanFits
    <3> QED  BY <3>1, <3>2
  <2>3. \A b \in DOMAIN inventory' : inventory'[b] \in Labels
    BY <1>1 DEF RunInv, PlanFits
  <2> QED  BY <1>4, <1>6, <2>1, <2>2, <2>3 DEF PlanFits
<1>11. /\ Apart(plan)'
       /\ \A i \in DOMAIN plan' : \A k \in DOMAIN plan'[i].bins :
              /\ i \in DOMAIN plan
              /\ \E l \in DOMAIN plan[i].bins :
                     /\ plan'[i].bins[k] = plan[i].bins[l]
                     /\ i = 1 /\ l = 1 => k = 1 /\ pc' = "alert"
  <2>1. CASE pc' = "alert" /\ plan' = plan
    BY <2>1 DEF RunInv, BinsOnce, Apart
  <2>2. CASE BinDone
    BY <1>3, <2>2, BinLeft
  <2> QED  BY <1>4, <2>1, <2>2
<1>12. BinsOnce'
  <2>1. \A b : \A m \in DOMAIN results' :
            Logs(m, b)' <=> \/ m \in DOMAIN results /\ Logs(m, b)
                            \/ m \notin DOMAIN results /\ b = Bin
    BY <1>1, RecordSees
  <2>2. \A m \in DOMAIN results : ~Logs(m, Bin)
    BY <1>1, RecordSees DEF Recorded
  <2>3. ASSUME NEW m \in DOMAIN results', NEW k \in DOMAIN results', ~results'[m].error,
               results'[k].bin = results'[m].bin, ~results'[k].error
        PROVE  m = k
    <3>1. CASE m # n /\ k # n
      <4>1. m \in DOMAIN results /\ k \in DOMAIN results /\ ~results[m].error /\ Logs(k, results[m].bin)
        BY <1>3, <2>3, <3>1 DEF Logs
      <4> QED  BY <4>1 DEF RunInv, BinsOnce
    <3>2. CASE m = n /\ k # n
      <4>1. k \in DOMAIN results /\ Logs(k, Bin)
        BY <1>3, <1>4, <2>3, <3>2 DEF Logs
      <4> QED  BY <2>2, <4>1
    <3>3. CASE m # n /\ k = n
      <4>1. m \in DOMAIN results /\ Logs(m, Bin)
        BY <1>3, <1>4, <2>3, <3>3 DEF Logs
      <4> QED  BY <2>2, <4>1
    <3> QED  BY <3>1, <3>2, <3>3
  <2>4. ASSUME NEW m \in DOMAIN results', NEW i \in DOMAIN plan', NEW k \in DOMAIN plan'[i].bins,
               ~results'[m].error, results'[m].bin = plan'[i].bins[k]
        PROVE  pc' = "alert" /\ i = 1 /\ k = 1
    <3>1. PICK l \in DOMAIN plan[i].bins :
            /\ i \in DOMAIN plan /\ plan'[i].bins[k] = plan[i].bins[l]
            /\ i = 1 /\ l = 1 => k = 1 /\ pc' = "alert"
      BY <1>11
    <3>2. CASE m # n
      <4>1. m \in DOMAIN results /\ Logs(m, plan[i].bins[l])
        BY <1>3, <2>4, <3>1, <3>2 DEF Logs
      <4> QED  BY <1>3, <3>1, <4>1 DEF RunInv, BinsOnce
    <3>3. CASE m = n
      <4>1. plan[1].bins[1] = plan[i].bins[l]
        BY <1>4, <1>5, <2>4, <3>1, <3>3
      <4>2. i = 1 /\ l = 1
        BY <1>5, <3>1, <4>1 DEF RunInv, BinsOnce, Apart
      <4> QED  BY <3>1, <4>2
    <3> QED  BY <3>2, <3>3
  <2>5. pc' = "alert" =>
          /\ Head(plan').bins # <<>> /\ results' # <<>>
          /\ LET r == results'[Len(results')]
             IN  ~r.error /\ r.bin = Bin' /\ r.rack = Rack' /\ r.expected # None /\ r.observed # r.expected
    <3> SUFFICES ASSUME pc' = "alert"
                 PROVE  /\ Head(plan').bins # <<>> /\ results' # <<>>
                        /\ results'[n].bin = Bin' /\ ~results'[n].error /\ results'[n].rack = Rack'
                        /\ results'[n].expected # None /\ results'[n].observed # results'[n].expected
      BY <1>3
    <3>1. plan' = plan /\ Bin' = Bin
      BY <1>4 DEF Bin
    <3>2. results' # <<>>
      BY <1>3
    <3> QED  BY <1>3, <1>4, <1>6, <3>1, <3>2
  <2> QED  BY <1>11, <2>3, <2>4, <2>5 DEF BinsOnce, Logs
<1>13. CallsOnce'
  <2>1. ASSUME NEW b \in AllBins PROVE BinsCalls(b)'
    <3>1. BinsCalls(b)
      BY DEF RunInv, CallsOnce
    <3>2. /\ Recorded(b)' <=> Recorded(b) \/ b = Bin
          /\ Differs(b)' <=> Differs(b) \/ (b = Bin /\ pc' = "alert")
          /\ ~Recorded(Bin)
          /\ Pending(b)' <=> (b = Bin /\ pc' = "alert")
          /\ ~Pending(b)
          /\ OffTable(b)' <=> OffTable(b) \/ (b = Bin /\ detected[Bin] # BinCode(b))
      BY <1>1, <1>3, RecordSees DEF Pending
    <3>4. callFaults' = 0 => callFaults = 0
      BY <1>8 DEF Made
    <3>5. alerts'[b] = alerts[b] /\ (Waits("alert", b)' <=> Waits("alert", b))
      BY <1>8, OtherCall DEF RunInv
    <3>6. CASE b = b0
      <4>0. b = Bin
        BY <1>7, <3>6
      <4>1. ~Recorded(b) /\ ~Differs(b) /\ ~OffTable(b)
        BY <3>2, <4>0 DEF Recorded, Differs, OffTable
      <4>2. /\ stored[b] = 0 /\ ~Waits("observe", b) /\ alerts[b] = 0 /\ ~Waits("alert", b)
            /\ raised[b] = 0
        BY <3>1, <4>1 DEF BinsCalls
      <4>3. \/ /\ stored'[b] = stored[b] + 1 /\ late' = late
               /\ raised'[b] = IF detected[Bin] # BinCode(b) THEN raised[b] + 1 ELSE raised[b]
            \/ stored'[b] = stored[b] /\ raised'[b] = raised[b] /\ callFaults' # 0
        BY <1>8, <3>6, ThisCall DEF RunInv
      <4>4. late' = late => ~Waits("observe", b)'
        BY <4>2 DEF Waits
      <4> QED  BY <3>2, <3>4, <3>5, <4>0, <4>1, <4>2, <4>3, <4>4 DEF BinsCalls
    <3>7. CASE b # b0
      <4>0. b # Bin
        BY <1>7, <3>7
      <4>1. /\ stored'[b] = stored[b] /\ raised'[b] = raised[b]
            /\ Waits("observe", b)' <=> Waits("observe", b)
        BY <1>8, <3>7, OtherCall DEF RunInv
      <4> QED  BY <3>1, <3>2, <3>4, <3>5, <4>0, <4>1 DEF BinsCalls
    <3> QED  BY <3>6, <3>7
  <2>2. ASSUME NEW f \in late' PROVE LateFits(f)'
    <3>1. CASE f = e
      <4>1. PICK x : x = f.seen
        OBVIOUS
      <4>2. Saw(b0, x)'
        BY <1>1, <1>7, <1>8, <3>1, <4>1, RecordSees
      <4> QED  BY <1>8, <3>1, <4>1, <4>2 DEF LateFits
    <3>2. CASE f \in late
      <4>1. LateFits(f)
        BY <3>2 DEF RunInv, CallsOnce
      <4>2. Saw(f.bin, f.seen) => Saw(f.bin, f.seen)'
        BY <1>1, RecordSees
      <4> QED  BY <4>1, <4>2 DEF LateFits
    <3> QED  BY <1>8, <2>2, <3>1, <3>2 DEF Made
  <2>3. mission' # "COMPLETED" /\ ~\E f \in late' : f.what = "complete"
    BY <1>3, <1>8, ScanAssumption DEF RunInv, CallsOnce, Made
  <2> QED  BY <2>1, <2>2, <2>3 DEF CallsOnce
<1>14. ExitFits'
  <2>1. \A b : Expects(b)' = Expects(b)
    BY <1>1 DEF Expects
  <2>2. ASSUME NEW m \in DOMAIN results'
        PROVE  (results[m].expected = Expects(results[m].bin))'
    <3>1. results'[m].expected = Expects(results'[m].bin)
      BY <1>3, <1>4 DEF RunInv, ExitFits
    <3> QED  BY <2>1, <3>1
  <2> QED  BY <1>1, <1>3, <2>2, ScanAssumption DEF RunInv, ExitFits
<1>15. Excused => Excused'
  BY <1>1, <1>3 DEF Excused, nav
<1>16. DriveTells'
  <2>1. /\ ros' = ros /\ (Old(topic)' <=> Old(topic)) /\ hearing' = hearing /\ (Stands' <=> Stands)
        /\ target' = target /\ earlier' = earlier
    BY <1>1, <1>6 DEF Old, nav, Stands
  <2>2. pc \in AtRack /\ pc' \in AtRack /\ pc' \notin {"create", "topology", "next", "wait"}
    BY <1>3, <1>4 DEF AtRack
  <2> QED  BY <1>6, <1>15, <2>1, <2>2 DEF RunInv, DriveTells, AtRack
<1>17. SeenAtRack'
  <2> SUFFICES ASSUME ros, NEW i \in DOMAIN results'
               PROVE  \/ results'[i].at = results'[i].rack
                      \/ \E j \in 1 .. i : results'[j].error \/ earlier \in Within[results'[j].rack]
    BY <1>1 DEF SeenAtRack, nav
  <2>1. CASE i \in DOMAIN results
    <3>1. \/ results[i].at = results[i].rack
          \/ \E j \in 1 .. i : results[j].error \/ earlier \in Within[results[j].rack]
      BY <2>1 DEF RunInv, SeenAtRack
    <3>2. \A j \in 1 .. i : j \in DOMAIN results
      BY <1>3, <2>1
    <3> QED  BY <1>3, <2>1, <3>1, <3>2
  <2>2. CASE i = n
    <3>1. CASE Excused
      <4>1. PICK j \in DOMAIN results : results[j].error \/ earlier \in Within[results[j].rack]
        BY <3>1 DEF Excused
      <4>2. j \in 1 .. i /\ results'[j] = results[j]
        BY <1>3, <2>2
      <4> QED  BY <4>1, <4>2
    <3>2. CASE earlier \in Within[Rack]
      <4>1. n \in 1 .. i
        BY <1>3, <2>2
      <4> QED  BY <1>4, <3>2, <4>1
    <3>3. CASE ~Excused /\ earlier \notin Within[Rack]
      <4>1. Stands
        BY <1>3, <3>3 DEF RunInv, DriveTells, AtRack
      <4> QED  BY <1>4, <2>2, <4>1 DEF Stands
    <3> QED  BY <3>1, <3>2, <3>3
  <2> QED  BY <1>3, <2>1, <2>2
<1> QED  BY <1>9, <1>10, <1>12, <1>13, <1>14, <1>16, <1>17 DEF RunInv

\* The alert is about the bin whose observation was recorded last.
LEMMA SubmitAlertKeeps ==
    ASSUME RunInv, NEW answered \in BOOLEAN, SubmitAlert(answered)
    PROVE  RunInv'
<1>1. /\ pc = "alert" /\ pc' = "bin" /\ BinDone /\ plan # <<>> /\ Head(plan).bins # <<>>
      /\ Post([what |-> "alert", bin |-> Bin, seen |-> None], answered)
      /\ UNCHANGED <<request, inventory, detected, results, missionId, nav, shown, beating, exit>>
  BY DEF SubmitAlert, Tell, RunInv, PlanFits, BinsOnce, AtRack
<1>2. /\ results # <<>> /\ Len(results) \in DOMAIN results
      /\ Logs(Len(results), Bin) /\ results[Len(results)].rack = Rack
      /\ results[Len(results)].expected # None
      /\ results[Len(results)].observed # results[Len(results)].expected
  <2>1. results \in Seq(Result)
    BY DEF RunInv, ScanRunTypeOK
  <2>2. /\ results # <<>>
        /\ LET r == results[Len(results)]
           IN  ~r.error /\ r.bin = Bin /\ r.rack = Rack /\ r.expected # None /\ r.observed # r.expected
    BY <1>1 DEF RunInv, BinsOnce
  <2>3. Len(results) \in DOMAIN results
    BY <2>1, <2>2
  <2> QED  BY <2>2, <2>3 DEF Logs
<1>3. Bin \in AllBins /\ plan \in Seq(Planned)
  BY <1>1, NextBin, Heads DEF RunInv
<1>4. /\ plan' \in Seq(Planned) /\ plan' # <<>> /\ Rack' = Rack /\ DOMAIN plan' = DOMAIN plan
      /\ \A i \in DOMAIN plan : i # 1 => plan'[i] = plan[i]
  BY <1>1, BinDoneFacts DEF RunInv
<1>5. /\ Apart(plan)'
      /\ \A i \in DOMAIN plan' : \A k \in DOMAIN plan'[i].bins :
             /\ i \in DOMAIN plan
             /\ \E l \in DOMAIN plan[i].bins :
                    plan'[i].bins[k] = plan[i].bins[l] /\ ~(i = 1 /\ l = 1)
  BY <1>1, BinLeft
<1>6. PICK b0 \in AllBins : b0 = Bin
  BY <1>3
<1> DEFINE e == [what |-> "alert", bin |-> b0, seen |-> None]
<1>7. Made(e) /\ e \in Effect /\ e.what = "alert" /\ e.bin = b0 /\ e.seen = None
  <2>1. Made(e)
    BY <1>1, <1>6, PostMade DEF RunInv
  <2> QED  BY <2>1 DEF Effect, Seen
<1> HIDE DEF e
<1>8. ScanRunTypeOK'
  <2>1. /\ mission' \in {None, "SCHEDULED", "COMPLETED"} /\ stored' \in [AllBins -> Nat]
        /\ alerts' \in [AllBins -> Nat] /\ late' \subseteq Effect /\ callFaults' \in 0 .. MaxCallFaults
        /\ raised' \in [AllBins -> Nat]
    BY <1>7, MadeTypes DEF RunInv
  <2>2. UNCHANGED <<request, inventory, results, missionId, target, event, hearing, topic, drive, ros, earlier,
                    shown, beating, exit>>
    BY <1>1 DEF nav
  <2>3. plan' \in Seq([rack : ScanRacks, bins : Seq(AllBins)])
    BY <1>4 DEF Planned
  <2>4. ScanRunTypeOK /\ pc' = "bin"
    BY <1>1 DEF RunInv
  <2> QED  BY <2>1, <2>2, <2>3, <2>4 DEF ScanRunTypeOK
<1>9. PlanFits'
  <2>1. \A k \in DOMAIN Head(plan').bins : detected'[Head(plan').bins[k]] \in Seen
    <3> DEFINE s == Head(plan).bins
    <3>1. Head(plan').bins = Tail(s) /\ s \in Seq(AllBins) /\ s # <<>>
          /\ \A l \in DOMAIN s : detected[s[l]] \in Seen
      BY <1>1, BinDoneFacts, Heads DEF RunInv, PlanFits
    <3> HIDE DEF s
    <3>2. \A k \in DOMAIN Tail(s) : k + 1 \in DOMAIN s /\ Tail(s)[k] = s[k + 1]
      BY <3>1, TailFacts
    <3>3. \A k \in DOMAIN Tail(s) : detected[Tail(s)[k]] \in Seen
      BY <3>1, <3>2
    <3> QED  BY <1>1, <3>1, <3>3
  <2>2. ASSUME NEW i \in DOMAIN plan'
        PROVE  \/ plan'[i].bins # <<>>
               \/ i = 1 /\ pc' = "bin" /\ \E j \in DOMAIN results' : results'[j].rack = Rack'
    <3>1. CASE i = 1
      BY <1>1, <1>2, <1>4, <3>1
    <3>2. CASE i # 1
      BY <1>4, <3>2 DEF RunInv, PlanFits
    <3> QED  BY <3>1, <3>2
  <2>3. \A b \in DOMAIN inventory' : inventory'[b] \in Labels
    BY <1>1 DEF RunInv, PlanFits
  <2> QED  BY <1>1, <1>4, <2>1, <2>2, <2>3 DEF PlanFits
<1>10. BinsOnce'
  <2>1. \A m, k \in DOMAIN results' : ~results'[m].error /\ Logs(k, results[m].bin)' => m = k
    BY <1>1 DEF RunInv, BinsOnce, Logs
  <2>2. ASSUME NEW m \in DOMAIN results', NEW i \in DOMAIN plan', NEW k \in DOMAIN plan'[i].bins,
               ~results'[m].error, results'[m].bin = plan'[i].bins[k]
        PROVE  FALSE
    <3>1. PICK l \in DOMAIN plan[i].bins :
            i \in DOMAIN plan /\ plan'[i].bins[k] = plan[i].bins[l] /\ ~(i = 1 /\ l = 1)
      BY <1>5
    <3>2. m \in DOMAIN results /\ Logs(m, plan[i].bins[l])
      BY <1>1, <2>2, <3>1 DEF Logs
    <3> QED  BY <3>1, <3>2 DEF RunInv, BinsOnce
  <2> QED  BY <1>1, <1>5, <2>1, <2>2 DEF BinsOnce, Logs
<1>11. CallsOnce'
  <2>1. ASSUME NEW b \in AllBins PROVE BinsCalls(b)'
    <3>1. BinsCalls(b)
      BY DEF RunInv, CallsOnce
    <3>2. /\ Recorded(b)' <=> Recorded(b)
          /\ Differs(b)' <=> Differs(b)
          /\ ~Pending(b)' /\ (Pending(b) <=> b = b0)
      BY <1>1, <1>6 DEF Pending, Recorded, Differs, Logs
    <3>3. OffTable(b)' <=> OffTable(b)
      BY <1>1, BinCodeStays DEF OffTable, Logs
    <3>4. callFaults' = 0 => callFaults = 0
      BY <1>7 DEF Made
    <3>5. /\ stored'[b] = stored[b] /\ raised'[b] = raised[b]
          /\ Waits("observe", b)' <=> Waits("observe", b)
      BY <1>7, OtherCall DEF RunInv
    <3>6. CASE b = b0
      <4>1. Differs(b)
        BY <1>2, <1>6, <3>6 DEF Differs
      <4>2. alerts[b] = 0 /\ ~Waits("alert", b)
        BY <3>1, <3>2, <3>6 DEF BinsCalls
      <4>3. \/ alerts'[b] = alerts[b] + 1 /\ late' = late
            \/ alerts'[b] = alerts[b] /\ callFaults' # 0
        BY <1>7, <3>6, ThisCall DEF RunInv
      <4>4. late' = late => ~Waits("alert", b)'
        BY <4>2 DEF Waits
      <4> QED  BY <3>1, <3>2, <3>3, <3>4, <3>5, <4>1, <4>2, <4>3, <4>4 DEF BinsCalls
    <3>7. CASE b # b0
      <4>1. alerts'[b] = alerts[b] /\ (Waits("alert", b)' <=> Waits("alert", b))
        BY <1>7, <3>7, OtherCall DEF RunInv
      <4> QED  BY <3>1, <3>2, <3>3, <3>4, <3>5, <3>7, <4>1 DEF BinsCalls
    <3> QED  BY <3>6, <3>7
  <2>2. ASSUME NEW f \in late' PROVE LateFits(f)'
    <3>1. CASE f = e
      BY <1>7, <3>1 DEF LateFits
    <3>2. CASE f \in late
      <4>1. LateFits(f)
        BY <3>2 DEF RunInv, CallsOnce
      <4>2. Saw(f.bin, f.seen)' <=> Saw(f.bin, f.seen)
        BY <1>1 DEF Saw, Logs
      <4> QED  BY <4>1, <4>2 DEF LateFits
    <3> QED  BY <1>7, <2>2, <3>1, <3>2 DEF Made
  <2>3. mission' # "COMPLETED" /\ ~\E f \in late' : f.what = "complete"
    BY <1>1, <1>7, ScanAssumption DEF RunInv, CallsOnce, Made
  <2> QED  BY <2>1, <2>2, <2>3 DEF CallsOnce
<1>12. ExitFits'
  BY <1>1, ExitStays, ScanAssumption DEF RunInv, ExitFits
<1>13. DriveTells'
  <2>1. /\ ros' = ros /\ (Old(topic)' <=> Old(topic)) /\ hearing' = hearing /\ (Stands' <=> Stands)
        /\ target' = target /\ earlier' = earlier /\ (Excused' <=> Excused)
    BY <1>1, <1>4 DEF Old, nav, Stands, Excused
  <2>2. pc \in AtRack /\ pc' \in AtRack /\ pc' \notin {"create", "topology", "next", "wait"}
    BY <1>1 DEF AtRack
  <2> QED  BY <1>4, <2>1, <2>2 DEF RunInv, DriveTells, AtRack
<1>14. SeenAtRack'
  BY <1>1 DEF RunInv, SeenAtRack, nav
<1> QED  BY <1>8, <1>9, <1>10, <1>11, <1>12, <1>13, <1>14 DEF RunInv

-----------------------------------------------------------------------------
(* The end.                                                                *)

LEMMA CountFacts ==
    ASSUME ScanRunTypeOK, NEW status
    PROVE  /\ Count(status) \in Nat
           /\ Count(status) = 0 <=> \A i \in DOMAIN results : Status(results[i]) # status
<1> DEFINE C == {i \in DOMAIN results : Status(results[i]) = status}
<1>1. IsFiniteSet(DOMAIN results)
  <2>1. DOMAIN results = 1 .. Len(results) /\ Len(results) \in Nat
    BY DEF ScanRunTypeOK
  <2> QED  BY <2>1, FS_Interval
<1>2. IsFiniteSet(C)
  BY <1>1, FS_Subset
<1>3. C = {} <=> \A i \in DOMAIN results : Status(results[i]) # status
  OBVIOUS
<1>4. Count(status) = Cardinality(C)
  BY DEF Count
<1> HIDE DEF C
<1> QED  BY <1>2, <1>3, <1>4, FS_CardinalityType, FS_EmptySet

LEMMA ReportKeeps ==
    ASSUME RunInv, Report
    PROVE  RunInv'
<1>1. /\ pc = "report" /\ pc' = "done" /\ plan = <<>>
      /\ \/ exit' = 2 /\ Count("MISMATCH") + Count("MISSING") > 0
         \/ exit' = 0 /\ ~(Count("MISMATCH") + Count("MISSING") > 0)
         \/ exit' = 1
      /\ UNCHANGED <<work, nav, api, shown, beating>>
  BY DEF Report, RunInv, PlanFits
<1>2. ScanRunTypeOK'
  BY <1>1 DEF RunInv, ScanRunTypeOK, work, nav, api
<1>3. PlanFits'
  BY <1>1 DEF RunInv, PlanFits, AtRack, work
<1>4. BinsOnce'
  BY <1>1 DEF RunInv, BinsOnce, Apart, Logs, work
<1>4a. results' = results
  BY <1>1 DEF work
<1>5. (\A b \in AllBins : SameTold(b)) /\ plan' = plan
  BY <1>1, <1>4a, RecordsStay DEF work
<1>6. CallsOnce'
  BY <1>1, <1>5, CallsStay DEF RunInv
<1>7. ExitFits'
  <2>1. Count("MISMATCH") \in Nat /\ Count("MISSING") \in Nat
    BY CountFacts DEF RunInv
  <2>2. ASSUME exit' = 0, NEW i \in DOMAIN results, ~results[i].error
        PROVE  results[i].observed = results[i].expected
    <3>1. Count("MISMATCH") = 0 /\ Count("MISSING") = 0
      BY <1>1, <2>1, <2>2
    <3>2. Status(results[i]) # "MISMATCH" /\ Status(results[i]) # "MISSING"
      BY <3>1, CountFacts DEF RunInv
    <3> QED  BY <2>2, <3>2 DEF Status
  <2>3. ASSUME exit' = 2, \A m \in DOMAIN results : results[m].expected # None
        PROVE  \E b \in AllBins : Differs(b)
    <3>1. Count("MISMATCH") # 0 \/ Count("MISSING") # 0
      BY <1>1, <2>1, <2>3
    <3>2. PICK i \in DOMAIN results : Status(results[i]) \in {"MISMATCH", "MISSING"}
      BY <3>1, CountFacts DEF RunInv
    <3>3. results[i] \in Result
      BY DEF RunInv, ScanRunTypeOK
    <3>4. ~results[i].error /\ results[i].observed # results[i].expected /\ results[i].bin \in AllBins
      BY <2>3, <3>2, <3>3 DEF Status, Result
    <3> QED  BY <2>3, <3>4 DEF Differs, Logs
  <2>4. exit' = 2 /\ (\A m \in DOMAIN results' : results'[m].expected # None)
            => \E b \in AllBins : Differs(b)'
    BY <1>4a, <1>5, <2>3 DEF SameTold
  <2>5. \A b : Expects(b)' = Expects(b)
    BY <1>1 DEF Expects, work
  <2> QED  BY <1>1, <1>4a, <2>2, <2>4, <2>5 DEF RunInv, ExitFits
<1>8. DriveTells'
  BY <1>1 DEF DriveTells, AtRack
<1>9. SeenAtRack'
  BY <1>1, <1>4a DEF RunInv, SeenAtRack, nav
<1> QED  BY <1>2, <1>3, <1>4, <1>6, <1>7, <1>8, <1>9 DEF RunInv

LEMMA RunStarts ==
    ASSUME ScanRunInit
    PROVE  RunInv
<1>1. /\ pc = "create" /\ inventory = <<>> /\ plan = <<>> /\ results = <<>> /\ target = None
      /\ event = FALSE /\ hearing = FALSE /\ topic = <<>> /\ earlier = drive.to /\ mission = None
      /\ stored = [b \in AllBins |-> 0] /\ alerts = [b \in AllBins |-> 0]
      /\ raised = [b \in AllBins |-> 0] /\ late = {} /\ exit = None
  BY DEF ScanRunInit
<1>2. ScanRunTypeOK
  <2>1. /\ drive \in [at : ScanRacks \cup {None}, to : ScanRacks \cup {None}]
        /\ earlier \in ScanRacks \cup {None}
    BY DEF ScanRunInit
  <2>2. /\ stored \in [AllBins -> Nat] /\ alerts \in [AllBins -> Nat] /\ raised \in [AllBins -> Nat]
        /\ late \subseteq Effect
    BY <1>1
  <2>3. callFaults \in 0 .. MaxCallFaults
    BY ScanAssumption DEF ScanRunInit
  <2>4. event \in BOOLEAN /\ hearing \in BOOLEAN /\ missionId \in BOOLEAN /\ beating \in BOOLEAN /\ ros \in BOOLEAN
    BY DEF ScanRunInit
  <2> QED  BY <2>1, <2>2, <2>3, <2>4 DEF ScanRunInit, ScanRunTypeOK
<1>3. PlanFits
  BY <1>1 DEF PlanFits, AtRack
<1>4. BinsOnce
  BY <1>1 DEF BinsOnce, Apart
<1>5. CallsOnce
  <2>1. None # "COMPLETED"
    BY ScanAssumption
  <2>2. \A b \in AllBins : BinsCalls(b)
    BY <1>1 DEF BinsCalls, Recorded, Differs, OffTable, Waits
  <2> QED  BY <1>1, <2>1, <2>2 DEF CallsOnce
<1>6. ExitFits
  BY <1>1, ScanAssumption DEF ExitFits
<1>7. DriveTells
  BY <1>1 DEF DriveTells, AtRack, Quiet, Old
<1>8. SeenAtRack
  BY <1>1 DEF SeenAtRack
<1> QED  BY <1>2, <1>3, <1>4, <1>5, <1>6, <1>7, <1>8 DEF RunInv

LEMMA RunSteps ==
    ASSUME RunInv, [ScanRunNext]_scan
    PROVE  RunInv'
<1>1. ASSUME NEW answered \in BOOLEAN, CreateMission(answered) PROVE RunInv'
  BY <1>1, CreateMissionKeeps
<1>2. ASSUME NEW answered \in BOOLEAN, SubmitObservation(answered) PROVE RunInv'
  BY <1>2, SubmitObservationKeeps
<1>3. ASSUME NEW answered \in BOOLEAN, SubmitAlert(answered) PROVE RunInv'
  BY <1>3, SubmitAlertKeeps
<1>4. ASSUME NEW answered \in BOOLEAN, CompleteMission(answered) PROVE RunInv'
  BY <1>4, CompleteMissionKeeps
<1>5. CASE FetchPlan
  BY <1>5, FetchPlanKeeps
<1>6. CASE GoTo
  BY <1>6, GoToKeeps
<1>7. CASE StayPut
  BY <1>7, StayPutKeeps
<1>8. CASE Reached
  BY <1>8, ReachedKeeps
<1>9. CASE TimesOut
  BY <1>9, TimesOutKeeps
<1>10. CASE Photograph
  BY <1>10, PhotographKeeps
<1>11. CASE RackDone
  BY <1>11, RackDoneKeeps
<1>12. CASE Report
  BY <1>12, ReportKeeps
<1>12a. CASE DecodeFails
  BY <1>12a, DecodeFailsKeeps
<1>13. CASE HandleLate
  BY <1>13, HandleLateKeeps
<1>14. CASE Arrive
  BY <1>14, ArriveKeeps
<1>15. CASE Hear
  BY <1>15, HearKeeps
<1>16. CASE SetEvent
  BY <1>16, SetEventKeeps
<1>17. CASE UNCHANGED scan
  <2>1. UNCHANGED <<pc, work, nav, api, shown, beating, exit>>
    BY <1>17 DEF scan
  <2>2. ScanRunTypeOK'
    BY <2>1 DEF RunInv, ScanRunTypeOK, work, nav, api
  <2>3. PlanFits' /\ BinsOnce' /\ SeenAtRack' /\ ExitFits' /\ CallsOnce'
    BY <2>1, Stays DEF nav
  <2>4. DriveTells'
    BY <2>1, DriveStays DEF RunInv, work
  <2> QED  BY <2>2, <2>3, <2>4 DEF RunInv
<1>18. ScanRunNext \/ UNCHANGED scan
  OBVIOUS
<1> QED  BY <1>1, <1>2, <1>3, <1>4, <1>5, <1>6, <1>7, <1>8, <1>9, <1>10, <1>11, <1>12, <1>12a, <1>13, <1>14, <1>15,
            <1>16, <1>17, <1>18 DEF ScanRunNext, Run

LEMMA ExitFollows ==
    ASSUME RunInv
    PROVE  ExitTells
<1>0. ASSUME exit = 0, NEW b \in AllBins, NEW m \in DOMAIN results, Logs(m, b)
      PROVE  results[m].observed = results[m].expected /\ results[m].expected = Expects(b)
  BY <1>0 DEF RunInv, ExitFits, Logs
<1>1. ASSUME exit = 0
      PROVE  /\ (\A b \in AllBins : alerts[b] = 0) /\ \A e \in late : e.what # "alert"
             /\ \A b \in AllBins : raised[b] > 0 => BinCode(b) # Expects(b)
  <2>1. \A b \in AllBins : ~Differs(b)
    BY <1>0, <1>1 DEF Differs
  <2>2. \A b \in AllBins : alerts[b] = 0 /\ ~Waits("alert", b)
    BY <2>1 DEF RunInv, CallsOnce, BinsCalls
  <2>3. ASSUME NEW e \in late, e.what = "alert" PROVE FALSE
    <3>1. e.bin \in AllBins
      BY <2>3 DEF RunInv, CallsOnce, LateFits
    <3> QED  BY <2>2, <2>3, <3>1 DEF Waits
  <2>4. ASSUME NEW b \in AllBins, raised[b] > 0 PROVE BinCode(b) # Expects(b)
    <3>1. OffTable(b)
      BY <2>4 DEF RunInv, CallsOnce, BinsCalls
    <3> QED  BY <1>0, <1>1, <3>1 DEF OffTable
  <2> QED  BY <2>2, <2>3, <2>4
<1>2. ASSUME exit = 2, callFaults = 0, \A i \in DOMAIN results : results[i].expected # None
      PROVE  \E b \in AllBins : alerts[b] > 0
  <2>1. PICK b \in AllBins : Differs(b)
    BY <1>2 DEF RunInv, ExitFits
  <2>2. ~Pending(b)
    BY <1>2, ScanAssumption DEF RunInv, ExitFits, Pending
  <2>3. alerts[b] = 1
    BY <1>2, <2>1, <2>2 DEF RunInv, CallsOnce, BinsCalls
  <2> QED  BY <2>3
<1> QED  BY <1>1, <1>2 DEF ExitTells

LEMMA StoredFollows ==
    ASSUME RunInv
    PROVE  StoredOnce
<1>1. ASSUME NEW b \in AllBins
      PROVE  LET seen    == {i \in DOMAIN results : results[i].bin = b /\ ~results[i].error}
                 differs == {i \in seen : results[i].observed # BinCode(b)}
             IN  /\ stored[b] + Cardinality({e \in late : e.what = "observe" /\ e.bin = b})
                        <= Cardinality(seen)
                 /\ Cardinality(seen) <= 1
                 /\ alerts[b] <= 1 /\ raised[b] <= stored[b]
                 /\ raised[b] > 0 => differs # {}
                 /\ pc = "done" /\ callFaults = 0 => /\ stored[b] = Cardinality(seen)
                                                     /\ raised[b] = Cardinality(differs)
  <2> DEFINE seen    == {i \in DOMAIN results : results[i].bin = b /\ ~results[i].error}
             differs == {i \in seen : results[i].observed # BinCode(b)}
             open    == {e \in late : e.what = "observe" /\ e.bin = b}
  <2>1. BinsCalls(b)
    BY DEF RunInv, CallsOnce
  <2>2. (seen = {} /\ ~Recorded(b)) \/ (Recorded(b) /\ \E m \in DOMAIN results : seen = {m})
    BY DEF RunInv, BinsOnce, Recorded, Logs
  <2>3. (open = {} /\ ~Waits("observe", b)) \/ (Waits("observe", b) /\ \E e \in late : open = {e})
    BY LateOnce DEF Waits
  <2>4. (differs = {} /\ ~OffTable(b)) \/ (OffTable(b) /\ \E m \in DOMAIN results : differs = {m})
    BY <2>2 DEF OffTable, Logs
  <2> HIDE DEF seen, differs, open
  <2>5. (Cardinality(seen) = 0 /\ ~Recorded(b)) \/ (Cardinality(seen) = 1 /\ Recorded(b))
    BY <2>2, FS_EmptySet, FS_Singleton
  <2>6. \/ Cardinality(open) = 0 /\ ~Waits("observe", b)
        \/ Cardinality(open) = 1 /\ Waits("observe", b)
    BY <2>3, FS_EmptySet, FS_Singleton
  <2>7. \/ Cardinality(differs) = 0 /\ ~OffTable(b)
        \/ Cardinality(differs) = 1 /\ OffTable(b) /\ differs # {}
    BY <2>4, FS_EmptySet, FS_Singleton
  <2>8. /\ stored[b] + Cardinality(open) <= Cardinality(seen) /\ Cardinality(seen) <= 1 /\ alerts[b] <= 1
        /\ raised[b] <= stored[b] /\ (raised[b] > 0 => differs # {})
        /\ pc = "done" /\ callFaults = 0 =>
               stored[b] = Cardinality(seen) /\ raised[b] = Cardinality(differs)
    BY <2>1, <2>5, <2>6, <2>7 DEF BinsCalls
  <2> QED  BY <2>8 DEF seen, differs, open
<1>2. mission = "COMPLETED" => plan = <<>>
  BY DEF RunInv, CallsOnce
<1> QED  BY <1>1, <1>2 DEF StoredOnce

\* With ROS a rack is only photographed with the robot in front of it, but
\* for what an earlier run had asked for or a drive that timed out; and a run
\* that exits with 0 has posted no alert, nor has its backend raised one but
\* for a bin whose code in the bins table is another than the one that the
\* run expected (navigate_to, run_scan).
THEOREM ScanRunCorrect == ScanRunSpec => []ScanRunInv
<1>1. RunInv => ScanRunInv
  BY ExitFollows DEF RunInv, ScanRunInv
<1> QED  BY <1>1, RunStarts, RunSteps, PTL DEF ScanRunSpec

\* Whatever is refused, slow or handled late, a bin of the run has at most
\* one observation and two alerts, one that the run posts and one that the
\* ingest raises, the second only where what was recorded is not what the
\* bins table has; and nothing is left to do once the mission is completed
\* (run_scan, _api_post, _process_post_commit_actions).
THEOREM StoredOnceCorrect == ScanRunSpec => []StoredOnce
<1>1. RunInv => StoredOnce
  BY StoredFollows
<1> QED  BY <1>1, RunStarts, RunSteps, PTL DEF ScanRunSpec
=============================================================================
