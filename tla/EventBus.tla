------------------------------ MODULE EventBus ------------------------------
(***************************************************************************)
(* packages/event-bus over one Kafka partition: a producer that retries a  *)
(* send whose acknowledgement it missed, and one consumer of a group, which *)
(* fetches a message, runs its handler up to MaxRetries + 1 times, commits *)
(* its offset and goes on, whether the handler succeeded or was given up.  *)
(*                                                                         *)
(* What the handler does is left to the module that extends this one.      *)
(***************************************************************************)
EXTENDS Naturals, SequencesExt, FiniteSetsExt

CONSTANTS
    Messages,
    SendAttempts, \* publish's stop_after_attempt
    MaxRetries,   \* max_retries of the consumer
    MaxFaults     \* bound: failed calls, missed answers, crashes

ASSUME BusAssumption ==
    SendAttempts \in Nat \ {0} /\ MaxRetries \in Nat /\ MaxFaults \in Nat

VARIABLES
    sends,     \* per message, how often it has been sent; 0 when not yet
    sending,   \* messages whose publish has not returned
    log,       \* the partition
    committed, \* the group's offset
    position,  \* the consumer's own offset
    phase,     \* where run() is
    retries,   \* retry_count
    handled,   \* history: offsets whose handler has returned
    givenUp,   \* history: offsets passed over after MaxRetries + 1 failures
    faults

producer == <<sends, sending, log>>
consumer == <<committed, position, phase, retries, handled, givenUp>>

BusType ==
    /\ sends \in [Messages -> 0 .. SendAttempts] /\ sending \subseteq Messages
    /\ log \in Seq(Messages) /\ committed \in 0 .. Len(log) /\ position \in 0 .. Len(log)
    /\ phase \in {"fetch", "handle", "commit", "drop", "ended", "stopped"}
    /\ retries \in 0 .. MaxRetries + 1
    /\ handled \subseteq DOMAIN log /\ givenUp \subseteq DOMAIN log
    /\ faults \in 0 .. MaxFaults

BusInit ==
    /\ sends = [m \in Messages |-> 0] /\ sending = {} /\ log = <<>>
    /\ committed = 0 /\ position = 0 /\ phase = "fetch" /\ retries = 0
    /\ handled = {} /\ givenUp = {} /\ faults = 0

Fault == faults < MaxFaults /\ faults' = faults + 1

-----------------------------------------------------------------------------
(* The producer.                                                           *)

\* One attempt.  A send whose answer is missed may have arrived; each attempt
\* has an envelope and an event_id of its own, so that the broker cannot tell
\* a repetition.  After the last attempt the caller gets the error.
Publish(m) ==
    /\ m \in sending \/ sends[m] = 0
    /\ sends[m] < SendAttempts /\ sends' = [sends EXCEPT ![m] = @ + 1]
    /\ \/ /\ log' = Append(log, m) /\ sending' = sending \ {m} /\ UNCHANGED faults
       \/ /\ Fault /\ log' \in {log, Append(log, m)}
          /\ sending' = IF sends'[m] < SendAttempts THEN sending \cup {m} ELSE sending \ {m}
    /\ UNCHANGED consumer

-----------------------------------------------------------------------------
(* The consumer.                                                           *)

Current == log[position]

Fetch ==
    /\ phase = "fetch" /\ position < Len(log)
    /\ position' = position + 1 /\ phase' = "handle" /\ retries' = 0
    /\ UNCHANGED <<producer, committed, handled, givenUp, faults>>

\* The handler, or none for the event's type, has returned.
Returns ==
    /\ phase = "handle" /\ phase' = "commit" /\ handled' = handled \cup {position}
    /\ UNCHANGED <<committed, position, retries, givenUp>>

\* An exception that never counts.
FailsUncounted ==
    /\ phase \in {"handle", "commit"} /\ phase' = "handle"
    /\ UNCHANGED <<committed, position, retries, handled, givenUp>>

\* Any exception of the attempt, that of commit included: once more from the
\* start, or the message is passed over.  Where the comment has a dead letter
\* topic the code has nothing.
Fails ==
    /\ phase \in {"handle", "commit"}
    /\ retries' = retries + 1
    /\ IF retries' > MaxRetries
       THEN /\ phase' = "drop"
            /\ givenUp' = givenUp \cup {position}
       ELSE phase' = "handle" /\ UNCHANGED givenUp
    /\ UNCHANGED <<committed, position, handled>>

\* A loop that does not end with the commit.
CommitUnbroken ==
    /\ phase \in {"commit", "drop"} /\ committed' = position
    /\ IF phase = "commit" /\ retries < MaxRetries
       THEN phase' = "handle" /\ retries' = retries + 1
       ELSE phase' = "fetch" /\ UNCHANGED retries
    /\ UNCHANGED <<producer, position, handled, givenUp, faults>>

Commit ==
    /\ phase \in {"commit", "drop"} /\ committed' = position
    /\ phase' = "fetch"
    /\ UNCHANGED <<producer, position, retries, handled, givenUp, faults>>

\* A commit that fails counts as a failed attempt ...
CommitFails == phase = "commit" /\ Fault /\ Fails /\ UNCHANGED producer

\* ... but the one after the last attempt is outside the try: run() ends.
DropFails ==
    /\ phase = "drop" /\ Fault /\ phase' = "ended"
    /\ UNCHANGED <<producer, committed, position, retries, handled, givenUp>>

\* The process ends, at whatever line; stop() commits nothing either.
Crash ==
    /\ Fault /\ phase # "stopped" /\ phase' = "stopped"
    /\ UNCHANGED <<producer, committed, position, retries, handled, givenUp>>

\* A consumer that goes on where it was rather than where it has committed.
RestartAtPosition ==
    /\ phase = "stopped" /\ phase' = "fetch"
    /\ UNCHANGED <<producer, committed, position, retries, handled, givenUp, faults>>

\* A new consumer of the group begins at the committed offset.
Restart ==
    /\ phase = "stopped" /\ phase' = "fetch" /\ position' = committed
    /\ UNCHANGED <<producer, committed, retries, handled, givenUp, faults>>

-----------------------------------------------------------------------------
(* Properties.                                                             *)

\* Whatever fails or crashes, no message is passed over unhandled: the group's
\* offset only covers messages whose handler has returned or that have failed
\* MaxRetries + 1 times (BaseEventConsumer.run).
NothingSkipped == \A o \in 1 .. committed : o \in handled \cup givenUp

\* Why NothingSkipped holds: the offset is committed up to the consumer's own
\* position at most, behind which everything has been dealt with; and when a
\* commit is due or the loop ended, so has the message at the position.
Dealt == handled \cup givenUp
PositionBound ==
    /\ committed <= position
    /\ \A o \in 1 .. position : o \in Dealt \/ (o = position /\ phase \in {"handle", "stopped"})
    /\ phase = "handle" => position \in 1 .. Len(log)
    /\ phase \in {"commit", "drop"} => position \in Dealt

\* While a message may be tried again, its tries are not used up.
TriesLeft == phase \in {"handle", "commit"} => retries <= MaxRetries

\* The inductive invariant of the consumer.
BusInv == BusType /\ NothingSkipped /\ PositionBound /\ TriesLeft
=============================================================================
