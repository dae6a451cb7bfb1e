------------------------------ MODULE TwinSync ------------------------------
(***************************************************************************)
(* The digital twin of one warehouse, from the events to the screens.      *)
(*                                                                         *)
(* Heartbeats and observations are published on Redis channels, which keep *)
(* nothing for an absent subscriber.  One consumer (twin/consumer.py)      *)
(* takes them one at a time: it stores the value in a Redis hash           *)
(* (twin/twin_state.py) and then publishes a delta.  A scanner's heartbeat *)
(* (routers/twin_router.py) is stored by its HTTP handler as well, which   *)
(* publishes a delta and then the event.  One listener                     *)
(* (twin/socket_server.py) relays deltas to the clients in the warehouse's *)
(* room; a client that joins enters the room first and gets a snapshot,    *)
(* read in two awaits, afterwards.  The dashboard (useWebSocket.ts,        *)
(* useTwinStore.ts) applies what it receives in order.                     *)
(***************************************************************************)
EXTENDS Naturals, SequencesExt

CONSTANTS
    Robots,    \* robots that report by the mission service's heartbeat
    Scanners,  \* robots that report by the twin's own heartbeat route
    Bins,
    Clients,   \* dashboards
    MaxValue,  \* bound: how often a key's payload changes
    MaxChange, \* bound: how often payloads change altogether
    MaxQueue,  \* bound: messages in a channel, heartbeats under way
    MaxFaults  \* bound: failed Redis calls, cut connections

ASSUME KeysAssumption ==
    /\ Robots \cap Scanners = {}
    /\ (Robots \cup Scanners) \cap Bins = {}
ASSUME TwinBounds == {MaxValue, MaxChange, MaxQueue, MaxFaults} \subseteq Nat

Fleet == Robots \cup Scanners
Keys  == Fleet \cup Bins

\* The payloads of a key, in the order they are reported; 0 is no entry.
Absent == 0
Values == 1 .. MaxValue
Entry  == [key : Keys, value : Values]

\* What a client is sent: a delta is about one key, a snapshot about all.
Message == UNION {[K -> Values \cup {Absent}] : K \in SUBSET Keys}

VARIABLES
    reported,   \* the payload each source reports now
    silent,     \* robots that will not report again
    posts,      \* heartbeat routes between their store and their event
    events,     \* the consumer's subscription
    subscribed, \* the consumer listens
    hand,       \* the event the consumer has stored and not yet announced
    twin,       \* the hashes twin:{wh}:robots and twin:{wh}:bins
    ttl,        \* the time to live of the robots' hash
    deltas,     \* the listener's subscription
    listening,  \* the listener's loop runs
    session,    \* how far each client's connection is
    snap,       \* what a join has read so far
    wire,       \* messages on the way to each client
    view,       \* the dashboard's robotPositions and binStates
    unsure,     \* history: keys with an event or a delta lost since their store
    missed,     \* history: keys whose last delta a client's snapshot has hidden
    faults

sources == <<reported, silent, posts>>
server  == <<events, subscribed, hand, twin, ttl>>
fanout  == <<deltas, listening>>
screens == <<session, snap, wire, view>>
history == <<unsure, missed>>
vars    == <<sources, server, fanout, screens, history, faults>>

Session == {"offline", "entered", "robots", "bins", "joined"}
Room    == Session \ {"offline"}
Nothing == [k \in Keys |-> Absent]

TypeOK ==
    /\ reported \in [Keys -> Values \cup {Absent}]
    /\ silent \subseteq Fleet
    /\ posts \subseteq [key : Scanners, value : Values, stage : {"stored", "told"}]
    /\ events \in Seq(Entry) /\ deltas \in Seq(Entry)
    /\ hand \in {<<>>} \cup {<<e>> : e \in Entry}
    /\ subscribed \in BOOLEAN /\ listening \in BOOLEAN
    /\ twin \in [Keys -> Values \cup {Absent}]
    /\ ttl \in {"none", "fresh", "old"}
    /\ session \in [Clients -> Session]
    /\ snap \in [Clients -> [Keys -> Values \cup {Absent}]]
    /\ wire \in [Clients -> Seq(Message)]
    /\ view \in [Clients -> [Keys -> Values \cup {Absent}]]
    /\ unsure \subseteq Keys
    /\ missed \in [Clients -> SUBSET Keys]
    /\ faults \in 0 .. MaxFaults

Init ==
    /\ reported = Nothing /\ silent = {} /\ posts = {}
    /\ events = <<>> /\ subscribed = TRUE /\ hand = <<>>
    /\ twin = Nothing /\ ttl = "none"
    /\ deltas = <<>> /\ listening = TRUE
    /\ session = [c \in Clients |-> "offline"]
    /\ snap = [c \in Clients |-> Nothing]
    /\ wire = [c \in Clients |-> <<>>]
    /\ view = [c \in Clients |-> Nothing]
    /\ unsure = {} /\ missed = [c \in Clients |-> {}]
    /\ faults = 0

-----------------------------------------------------------------------------
(* Channels and hashes.                                                    *)

\* PUBLISH reaches who is subscribed at that moment and nobody else.
Publish(k, v) ==
    IF subscribed
    THEN /\ Len(events) < MaxQueue
         /\ events' = Append(events, [key |-> k, value |-> v])
         /\ UNCHANGED unsure
    ELSE /\ unsure' = unsure \cup ({k} \cap Scanners)
         /\ UNCHANGED events

\* Variant: only the latest delta is kept for a slow listener.
AnnounceLatest(k, v) ==
    /\ deltas' = IF listening THEN <<[key |-> k, value |-> v]>> ELSE <<>>
    /\ unsure' = IF listening THEN unsure ELSE unsure \cup {k}

Announce(k, v) ==
    IF listening
    THEN /\ Len(deltas) < MaxQueue
         /\ deltas' = Append(deltas, [key |-> k, value |-> v])
         /\ UNCHANGED unsure
    ELSE /\ unsure' = unsure \cup {k}
         /\ UNCHANGED deltas

\* Variant: EXPIRE only refreshes a clock that runs already.
SetPersistent(k, v) ==
    /\ twin' = [twin EXCEPT ![k] = v]
    /\ ttl' = IF k \in Fleet /\ ttl # "none" THEN "fresh" ELSE ttl

\* HSET, and for a robot EXPIRE on the hash of the whole warehouse.
Set(k, v) ==
    /\ twin' = [twin EXCEPT ![k] = v]
    /\ ttl' = IF k \in Fleet THEN "fresh" ELSE ttl

\* The whole robots' hash goes when its time is up.
Tick ==
    \/ /\ ttl = "fresh" /\ ttl' = "old"
       /\ UNCHANGED twin
    \/ /\ ttl = "old" /\ ttl' = "none"
       /\ twin' = [k \in Keys |-> IF k \in Fleet THEN Absent ELSE twin[k]]

Expire ==
    /\ Tick
    /\ UNCHANGED <<sources, events, subscribed, hand, fanout, screens, history, faults>>

-----------------------------------------------------------------------------
(* What is reported: the next payload, or from a robot that stands still   *)
(* the same one again.                                                     *)

Payloads(k) ==
    {v \in Values : v = reported[k] + 1 /\ FoldFunction(+, 0, reported) < MaxChange}
    \cup {v \in Values : v = reported[k] /\ k \in Robots}

Report(k, v) ==
    /\ k \notin silent
    /\ reported' = [reported EXCEPT ![k] = v]
    /\ UNCHANGED silent

\* The mission service's heartbeat, an observation, a mismatch, a match.
Notify(k) ==
    /\ k \notin Scanners
    /\ \E v \in Payloads(k) : Report(k, v) /\ Publish(k, v)
    /\ UNCHANGED <<posts, subscribed, hand, twin, ttl, fanout, screens, missed, faults>>

\* A robot is switched off.
Silence(r) ==
    /\ r \notin silent
    /\ silent' = silent \cup {r}
    /\ UNCHANGED <<reported, posts, server, fanout, screens, history, faults>>

\* The twin's heartbeat route stores the position and answers; a background
\* task of the same request publishes first the delta and then the event.
PostHeartbeat(r) ==
    \E v \in Payloads(r) :
        LET post == [key |-> r, value |-> v, stage |-> "stored"] IN
        /\ Cardinality(posts) < MaxQueue /\ post \notin posts
        /\ Report(r, v)
        /\ Set(r, v)
        /\ posts' = posts \cup {post}
        /\ UNCHANGED <<events, subscribed, hand, fanout, screens, history, faults>>

PostDelta(post) ==
    /\ post.stage = "stored"
    /\ Announce(post.key, post.value)
    /\ posts' = (posts \ {post}) \cup {[post EXCEPT !.stage = "told"]}
    /\ UNCHANGED <<reported, silent, server, listening, screens, missed, faults>>

PostEvent(post) ==
    /\ post.stage = "told"
    /\ Publish(post.key, post.value)
    /\ posts' = posts \ {post}
    /\ UNCHANGED <<reported, silent, subscribed, hand, twin, ttl, fanout, screens,
                   missed, faults>>

\* The task ends at the first call that fails.
PostFails(post) ==
    /\ faults < MaxFaults /\ faults' = faults + 1
    /\ posts' = posts \ {post}
    /\ unsure' = unsure \cup {post.key}
    /\ UNCHANGED <<reported, silent, server, fanout, screens, missed>>

-----------------------------------------------------------------------------
(* The consumer.                                                           *)

\* A handler's first half.  What other writers left in the key is settled
\* here: this value is the one the delta will carry.
Store ==
    LET e == Head(events) IN
    /\ subscribed /\ hand = <<>> /\ events # <<>>
    /\ Set(e.key, e.value)
    /\ hand' = <<e>>
    /\ events' = Tail(events)
    /\ unsure' = unsure \ {e.key}
    /\ missed' = [c \in Clients |-> missed[c] \ {e.key}]
    /\ UNCHANGED <<sources, subscribed, fanout, screens, faults>>

\* Its second half.
PublishDelta ==
    /\ hand # <<>>
    /\ Announce(hand[1].key, hand[1].value)
    /\ hand' = <<>>
    /\ UNCHANGED <<sources, events, subscribed, twin, ttl, listening, screens, missed,
                   faults>>

\* A failing call is logged and the handler goes no further.
HandlerFails ==
    /\ faults < MaxFaults /\ faults' = faults + 1
    /\ \/ /\ hand = <<>> /\ subscribed /\ events # <<>>
          /\ events' = Tail(events)
          /\ unsure' = unsure \cup ({Head(events).key} \cap Scanners)
          /\ UNCHANGED hand
       \/ /\ hand # <<>> /\ hand' = <<>>
          /\ unsure' = unsure \cup {hand[1].key}
          /\ UNCHANGED events
    /\ UNCHANGED <<sources, subscribed, twin, ttl, fanout, screens, missed>>

\* listen() raises: what is in the subscription is gone, and so is what is
\* published until the loop subscribes again after its back-off.
SubscriptionLost ==
    /\ faults < MaxFaults /\ faults' = faults + 1
    /\ subscribed /\ hand = <<>>
    /\ subscribed' = FALSE /\ events' = <<>>
    /\ unsure' = unsure \cup ({e.key : e \in Range(events)} \cap Scanners)
    /\ UNCHANGED <<sources, hand, twin, ttl, fanout, screens, missed>>

Resubscribe ==
    /\ ~subscribed /\ subscribed' = TRUE
    /\ UNCHANGED <<sources, events, hand, twin, ttl, fanout, screens, history, faults>>

-----------------------------------------------------------------------------
(* The fan-out.                                                            *)

InRoom(c) == session[c] \in Room

\* A snapshot that has read its copy of k but is not sent yet.
HasRead(c, k) ==
    \/ session[c] = "bins"
    \/ session[c] = "robots" /\ k \in Fleet

\* One delta to everybody in the room.  A snapshot under way that has read
\* another value will hide it.
Emit ==
    LET e == Head(deltas) IN
    /\ listening /\ deltas # <<>>
    /\ \A c \in Clients : InRoom(c) => Len(wire[c]) < MaxQueue
    /\ deltas' = Tail(deltas)
    /\ wire' = [c \in Clients |-> IF InRoom(c)
                                  THEN Append(wire[c], [k \in {e.key} |-> e.value])
                                  ELSE wire[c]]
    /\ missed' = [c \in Clients |->
                     IF HasRead(c, e.key) /\ snap[c][e.key] # e.value
                     THEN missed[c] \cup {e.key} ELSE missed[c]]
    /\ UNCHANGED <<sources, server, listening, session, snap, view, unsure, faults>>

\* The listener's loop ends at its first error, and nothing restarts it.
ListenerEnds ==
    /\ faults < MaxFaults /\ faults' = faults + 1
    /\ listening /\ listening' = FALSE
    /\ deltas' = <<>>
    /\ unsure' = unsure \cup {e.key : e \in Range(deltas)}
    /\ UNCHANGED <<sources, server, screens, missed>>

\* join_warehouse: enter the room, read the robots, read the bins, send.
Join(c) ==
    /\ session[c] = "offline"
    /\ session' = [session EXCEPT ![c] = "entered"]
    /\ missed' = [missed EXCEPT ![c] = {}]
    /\ UNCHANGED <<sources, server, fanout, snap, wire, view, unsure, faults>>

Read(c, from, part, to) ==
    /\ session[c] = from
    /\ session' = [session EXCEPT ![c] = to]
    /\ snap' = [snap EXCEPT ![c] = [k \in Keys |-> IF k \in part THEN twin[k] ELSE @[k]]]
    /\ UNCHANGED <<sources, server, fanout, wire, view, history, faults>>

ReadRobots(c) == Read(c, "entered", Fleet, "robots")
ReadBins(c)   == Read(c, "robots", Bins, "bins")

SendSnapshot(c) ==
    /\ session[c] = "bins" /\ Len(wire[c]) < MaxQueue
    /\ session' = [session EXCEPT ![c] = "joined"]
    /\ wire' = [wire EXCEPT ![c] = Append(@, snap[c])]
    /\ snap' = [snap EXCEPT ![c] = Nothing]
    /\ UNCHANGED <<sources, server, fanout, view, history, faults>>

\* The client gets an `error` in its place, and stays in the room.
SnapshotFails(c) ==
    /\ faults < MaxFaults /\ faults' = faults + 1
    /\ session[c] \in {"entered", "robots"}
    /\ session' = [session EXCEPT ![c] = "joined"]
    /\ snap' = [snap EXCEPT ![c] = Nothing]
    /\ missed' = [missed EXCEPT ![c] = Keys]
    /\ UNCHANGED <<sources, server, fanout, wire, view, unsure>>

-----------------------------------------------------------------------------
(* The dashboard.                                                          *)

\* Variant: a snapshot or a delta fills gaps and replaces nothing.
ReceiveKeeping(c) ==
    /\ wire[c] # <<>>
    /\ view' = [view EXCEPT ![c] = [k \in Keys |->
                   IF k \in DOMAIN Head(wire[c]) /\ @[k] = Absent
                   THEN Head(wire[c])[k] ELSE @[k]]]
    /\ wire' = [wire EXCEPT ![c] = Tail(@)]
    /\ UNCHANGED <<sources, server, fanout, session, snap, history, faults>>

\* setSnapshot replaces both maps, updateRobotPosition and updateBinState
\* set one entry.
Receive(c) ==
    /\ wire[c] # <<>>
    /\ view' = [view EXCEPT ![c] = [k \in Keys |->
                   IF k \in DOMAIN Head(wire[c]) THEN Head(wire[c])[k] ELSE @[k]]]
    /\ wire' = [wire EXCEPT ![c] = Tail(@)]
    /\ UNCHANGED <<sources, server, fanout, session, snap, history, faults>>

\* The connection is cut; scheduleReconnect joins again later.
Disconnect(c) ==
    /\ faults < MaxFaults /\ faults' = faults + 1
    /\ InRoom(c)
    /\ session' = [session EXCEPT ![c] = "offline"]
    /\ wire' = [wire EXCEPT ![c] = <<>>]
    /\ snap' = [snap EXCEPT ![c] = Nothing]
    /\ UNCHANGED <<sources, server, fanout, view, history>>

-----------------------------------------------------------------------------
Fails == HandlerFails \/ SubscriptionLost \/ ListenerEnds

Client(c) ==
    Join(c) \/ ReadRobots(c) \/ ReadBins(c) \/ SendSnapshot(c) \/ Receive(c)

Next ==
    \/ \E k \in Keys : Notify(k)
    \/ \E r \in Fleet : Silence(r)
    \/ \E r \in Scanners : PostHeartbeat(r)
    \/ \E post \in posts : PostDelta(post) \/ PostEvent(post) \/ PostFails(post)
    \/ Store \/ PublishDelta \/ Resubscribe \/ Emit \/ Expire
    \/ Fails
    \/ \E c \in Clients : Client(c) \/ SnapshotFails(c) \/ Disconnect(c)

\* The tasks of one event loop all run on, and time passes.  Strong fairness
\* where the bound of a queue stops what Redis would accept.  Nothing makes a
\* source report.
Fairness ==
    /\ WF_vars(Store) /\ WF_vars(Resubscribe) /\ WF_vars(Emit) /\ WF_vars(Expire)
    /\ SF_vars(PublishDelta)
    /\ SF_vars(\E post \in posts : PostDelta(post) \/ PostEvent(post))
    /\ \A c \in Clients : WF_vars(Client(c))

Spec == Init /\ [][Next]_vars /\ Fairness

-----------------------------------------------------------------------------
(* Properties.                                                             *)

\* What c will show of k once everything under way for it has arrived: the
\* last message about k, and without one what it shows.
LastDelta(k) == {i \in DOMAIN deltas :
                    /\ deltas[i].key = k
                    /\ \A j \in DOMAIN deltas : j > i => deltas[j].key # k}
LastSent(c, k) == {i \in DOMAIN wire[c] :
                      /\ k \in DOMAIN wire[c][i]
                      /\ \A j \in DOMAIN wire[c] : j > i => k \notin DOMAIN wire[c][j]}

InHand(k)   == hand # <<>> /\ hand[1].key = k
InDeltas(k) == \E i \in DOMAIN deltas : deltas[i].key = k
IsSent(c, k) == \E i \in DOMAIN wire[c] : k \in DOMAIN wire[c][i]

Announced(k, v) ==
    IF InHand(k) THEN hand[1].value = v ELSE \A i \in LastDelta(k) : deltas[i].value = v
Shown(c, k, v) ==
    IF IsSent(c, k) THEN \A i \in LastSent(c, k) : wire[c][i][k] = v ELSE view[c][k] = v
Coming(c, k, v) ==
    IF InHand(k) \/ InDeltas(k) THEN Announced(k, v) ELSE Shown(c, k, v)

\* A heartbeat that the route has stored and the consumer has yet to confirm.
Unconfirmed(k) ==
    \/ \E post \in posts : post.key = k
    \/ k \in Scanners /\ \E i \in DOMAIN events : events[i].key = k

\* The steps of a join interleave with the stores and deltas of the other
\* tasks: a client that has joined shows, or is about to be sent, the stored
\* payload of every key, but for the keys of which a call has failed since
\* the consumer stored them, and those its snapshot hid the last delta of.
Settled(k) == twin[k] # Absent /\ ~Unconfirmed(k) /\ k \notin unsure
NothingMissed ==
    \A c \in Clients, k \in Keys :
        session[c] = "joined" /\ Settled(k) /\ k \notin missed[c] => Coming(c, k, twin[k])

\* Why it holds: the last announcement of a settled key is of what is stored;
\* and where none is under way, a snapshot that has read the key has that, too.
Told == \A k \in Keys : Settled(k) => Announced(k, twin[k])
SnapshotTells ==
    \A c \in Clients, k \in Keys :
        HasRead(c, k) /\ Settled(k) /\ k \notin missed[c] /\ ~InHand(k) /\ ~InDeltas(k)
            => snap[c][k] = twin[k]

\* The inductive invariant.
Inv == TypeOK /\ NothingMissed /\ Told /\ SnapshotTells

\* The consumer's loop, the listener's and the client's bring a client that
\* stays to the stored payloads.
ShowsTwin ==
    \A c \in Clients, k \in Keys :
        <>[](session[c] = "joined" /\ k \notin unsure \cup missed[c])
            => <>[](twin[k] # Absent => view[c][k] = twin[k])

\* When every robot has been switched off, the hash of positions empties.
FleetGone == (silent = Fleet) ~> (\A r \in Fleet : twin[r] = Absent)
=============================================================================
