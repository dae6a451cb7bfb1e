--------------------------- MODULE ServoController ---------------------------
(***************************************************************************)
(* The servo firmware (esp32_servo_controller.ino) behind its bridge       *)
(* (esp32_serial_bridge.py).                                               *)
(*                                                                         *)
(* The bridge forwards every command in a thread of its own; a lock, which *)
(* keeps no order, lets one of them post at a time.  The firmware answers  *)
(* a MOVE and then steps both servos in a loop, and polls its HTTP server  *)
(* in that loop: a command taken there runs inside the loop, which goes on *)
(* afterwards with the directions it had computed at its start.  So the    *)
(* moves under way form a stack.                                           *)
(***************************************************************************)
EXTENDS Integers, SequencesExt

CONSTANTS
    MaxAngle, \* the servos turn in 0 .. MaxAngle
    Margin,   \* bound: how far a counter is followed beyond that
    Home,     \* HOME_YAW and HOME_PITCH
    MaxSent,  \* bound: commands in the bridge at a time
    MaxDepth  \* bound: moves inside moves

Axes   == {"yaw", "pitch"}
Angles == 0 .. MaxAngle
Pose   == [Axes -> Angles]
Counts == (0 - Margin) .. (MaxAngle + Margin)

ASSUME ServoAssumption ==
    /\ {MaxAngle, Margin, MaxSent, MaxDepth} \subseteq Nat
    /\ Home \in Pose

Move(pose) == [cmd |-> "MOVE", to |-> pose]
STOP == [cmd |-> "STOP", to |-> Home]

VARIABLES
    sent,   \* commands in the bridge's threads
    pos,    \* current_yaw and current_pitch
    active, \* system_active
    frames  \* the moves under way, the innermost first

servo == <<sent, pos, active, frames>>

ServoType ==
    /\ sent \in Seq([cmd : {"MOVE", "STOP"}, to : Pose])
    /\ pos \in [Axes -> Counts]
    /\ active \in BOOLEAN
    /\ frames \in Seq([to : Pose, dir : [Axes -> {-1, 0, 1}], poll : BOOLEAN])

\* setup()
ServoInit == sent = <<>> /\ pos = Home /\ active = TRUE /\ frames = <<>>

\* A command starts a thread of the bridge.
Send(commands) ==
    /\ Len(sent) + Len(commands) <= MaxSent
    /\ sent' = sent \o commands

\* The directions of a move that begins at pose p.
Toward(p, to) ==
    [a \in Axes |-> IF to[a] > p[a] THEN 1 ELSE IF to[a] < p[a] THEN -1 ELSE 0]

\* handleClient is called by loop(), and by a move after each of its steps.
Polls == frames # <<>> => frames[1].poll

\* One thread gets the lock and posts.  handleCommand answers a MOVE and
\* moves; STOP only clears the flag.  A caller has polled when it goes on.
Handle(i) ==
    LET c == sent[i]
        caller == IF frames = <<>> THEN <<>>
                  ELSE <<[frames[1] EXCEPT !.poll = FALSE]>> \o Tail(frames)
    IN  /\ Polls
        /\ sent' = RemoveAt(sent, i)
        /\ IF c.cmd = "STOP"
           THEN active' = FALSE /\ frames' = caller
           ELSE /\ Len(frames) < MaxDepth
                /\ frames' = <<[to |-> c.to, dir |-> Toward(pos, c.to), poll |-> FALSE]>>
                               \o caller
                /\ UNCHANGED active
        /\ UNCHANGED pos

\* No connection, or no answer in time: the bridge logs it and forgets it.
Drop(i) == sent' = RemoveAt(sent, i) /\ UNCHANGED <<pos, active, frames>>

\* Variant: the stop flag is looked at when a move begins and not later.
LoopUnchecked ==
    LET f == Head(frames)
        next(a) == IF pos[a] = f.to[a] \/ pos[a] + f.dir[a] \notin Counts
                   THEN pos[a] ELSE pos[a] + f.dir[a]
    IN  /\ frames # <<>>
        /\ IF pos = f.to
           THEN frames' = Tail(frames) /\ UNCHANGED pos
           ELSE /\ pos' = [a \in Axes |-> next(a)]
                /\ frames' = <<[f EXCEPT !.poll = TRUE]>> \o Tail(frames)
        /\ UNCHANGED <<sent, active>>

\* One turn of the loop of moveBothServosSmooth: an axis that is not at its
\* target takes a step in the move's direction.
Loop ==
    LET f == Head(frames)
        next(a) == IF pos[a] = f.to[a] \/ pos[a] + f.dir[a] \notin Counts
                   THEN pos[a] ELSE pos[a] + f.dir[a]
    IN  /\ frames # <<>>
        /\ IF pos = f.to \/ ~active
           THEN frames' = Tail(frames) /\ UNCHANGED pos
           ELSE /\ pos' = [a \in Axes |-> next(a)]
                /\ frames' = <<[f EXCEPT !.poll = TRUE]>> \o Tail(frames)
        /\ UNCHANGED <<sent, active>>

\* setup() again, after a loss of power, or when loop() has found no WiFi for
\* twenty seconds: the stop is forgotten, too.
Reboots == pos' = Home /\ active' = TRUE /\ frames' = <<>> /\ UNCHANGED sent

Firmware == Loop \/ \E i \in DOMAIN sent : Handle(i)

\* A STOP is the one thing that ends every move, the stuck ones included:
\* each of the loops on the stack sees the flag.
StopDrains == (~active) ~> (frames = <<>>)
=============================================================================
