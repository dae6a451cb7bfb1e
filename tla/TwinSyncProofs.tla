--------------------------- MODULE TwinSyncProofs ---------------------------
(***************************************************************************)
(* What a dashboard that stays connected has been told, for every set of   *)
(* robots, bins and dashboards, and for every bound on payloads, queues    *)
(* and faults.                                                             *)
(***************************************************************************)
EXTENDS TwinSync, TLAPS

Payload == Values \cup {Absent}

\* 0 is no payload.
LEMMA NoPayload == Absent \notin Values /\ Absent \in Payload /\ Values \subseteq Payload
BY TwinBounds DEF Absent, Values, Payload

-----------------------------------------------------------------------------
(* Types.                                                                  *)

\* The channels.
LEMMA PublishType ==
    ASSUME TypeOK, NEW k \in Keys, NEW v \in Values, Publish(k, v)
    PROVE  events' \in Seq(Entry) /\ unsure' \subseteq Keys
<1>1. [key |-> k, value |-> v] \in Entry
  BY DEF Entry
<1> DEFINE e == [key |-> k, value |-> v]
<1>2. events \in Seq(Entry) /\ unsure \subseteq Keys
  BY DEF TypeOK
<1>3. Append(events, e) \in Seq(Entry)
  BY <1>1, <1>2
<1>4. events' = Append(events, e) \/ events' = events
  BY DEF Publish
<1>5. unsure' = unsure \/ unsure' = unsure \cup ({k} \cap Scanners)
  BY DEF Publish
<1> QED  BY <1>2, <1>3, <1>4, <1>5

LEMMA AnnounceType ==
    ASSUME TypeOK, NEW k \in Keys, NEW v \in Values, Announce(k, v)
    PROVE  deltas' \in Seq(Entry) /\ unsure' \subseteq Keys
<1>1. [key |-> k, value |-> v] \in Entry
  BY DEF Entry
<1> DEFINE e == [key |-> k, value |-> v]
<1>2. deltas \in Seq(Entry) /\ unsure \subseteq Keys
  BY DEF TypeOK
<1>3. Append(deltas, e) \in Seq(Entry)
  BY <1>1, <1>2
<1>4. deltas' = Append(deltas, e) \/ deltas' = deltas
  BY DEF Announce
<1>5. unsure' = unsure \/ unsure' = unsure \cup {k}
  BY DEF Announce
<1> QED  BY <1>2, <1>3, <1>4, <1>5

LEMMA SetType ==
    ASSUME TypeOK, NEW k \in Keys, NEW v \in Values, Set(k, v)
    PROVE  /\ twin' \in [Keys -> Payload] /\ ttl' \in {"none", "fresh", "old"}
           /\ twin'[k] = v /\ \A j \in Keys : j # k => twin'[j] = twin[j]
<1>1. twin' \in [Keys -> Payload]
  BY NoPayload DEF TypeOK, Set, Payload
<1>2. ttl' \in {"none", "fresh", "old"}
  BY DEF TypeOK, Set
<1> QED  BY <1>1, <1>2 DEF TypeOK, Set

\* The sources.
LEMMA SourceType ==
    ASSUME TypeOK,
           \/ \E k \in Keys : Notify(k)
           \/ \E r \in Fleet : Silence(r)
           \/ \E r \in Scanners : PostHeartbeat(r)
           \/ \E post \in posts : PostDelta(post) \/ PostEvent(post) \/ PostFails(post)
    PROVE  TypeOK'
<1>1. ASSUME NEW k \in Keys, Notify(k) PROVE TypeOK'
  <2>1. PICK v \in Payloads(k) : Report(k, v) /\ Publish(k, v)
    BY <1>1 DEF Notify
  <2>2. v \in Values
    BY DEF Payloads
  <2>3. events' \in Seq(Entry) /\ unsure' \subseteq Keys
    BY <2>1, <2>2, PublishType
  <2>4. reported' \in [Keys -> Values \cup {Absent}] /\ silent' \subseteq Fleet
    BY <2>1, <2>2 DEF Report, TypeOK
  <2> QED  BY <1>1, <2>3, <2>4 DEF Notify, TypeOK, fanout, screens
<1>2. ASSUME NEW r \in Fleet, Silence(r) PROVE TypeOK'
  BY <1>2 DEF Silence, TypeOK, server, fanout, screens, history
<1>3. ASSUME NEW r \in Scanners, PostHeartbeat(r) PROVE TypeOK'
  <2>1. PICK v \in Payloads(r) :
            /\ Report(r, v) /\ Set(r, v)
            /\ posts' = posts \cup {[key |-> r, value |-> v, stage |-> "stored"]}
            /\ UNCHANGED <<events, subscribed, hand, fanout, screens, history, faults>>
    BY <1>3 DEF PostHeartbeat
  <2>2. v \in Values /\ r \in Keys
    BY DEF Payloads, Keys, Fleet
  <2>3. twin' \in [Keys -> Payload] /\ ttl' \in {"none", "fresh", "old"}
    BY <2>1, <2>2, SetType
  <2>4. reported' \in [Keys -> Values \cup {Absent}] /\ silent' \subseteq Fleet
    BY <2>1, <2>2 DEF Report, TypeOK
  <2>5. posts' \subseteq [key : Scanners, value : Values, stage : {"stored", "told"}]
    BY <2>1, <2>2 DEF TypeOK
  <2> QED  BY <2>1, <2>3, <2>4, <2>5 DEF TypeOK, Payload, fanout, screens, history
<1>4. ASSUME NEW post \in posts PROVE post.key \in Scanners /\ post.key \in Keys /\ post.value \in Values
  BY DEF TypeOK, Keys, Fleet
<1>5. ASSUME NEW post \in posts, PostDelta(post) PROVE TypeOK'
  <2>1. deltas' \in Seq(Entry) /\ unsure' \subseteq Keys
    BY <1>4, <1>5, AnnounceType DEF PostDelta
  <2>2. posts' \subseteq [key : Scanners, value : Values, stage : {"stored", "told"}]
    BY <1>5 DEF TypeOK, PostDelta
  <2> QED  BY <1>5, <2>1, <2>2 DEF PostDelta, TypeOK, server, screens
<1>6. ASSUME NEW post \in posts, PostEvent(post) PROVE TypeOK'
  <2>1. events' \in Seq(Entry) /\ unsure' \subseteq Keys
    BY <1>4, <1>6, PublishType DEF PostEvent
  <2> QED  BY <1>6, <2>1 DEF PostEvent, TypeOK, fanout, screens
<1>7. ASSUME NEW post \in posts, PostFails(post) PROVE TypeOK'
  <2>1. unsure' \subseteq Keys /\ faults' \in 0 .. MaxFaults
    BY <1>4, <1>7, TwinBounds DEF PostFails, TypeOK
  <2> QED  BY <1>7, <2>1 DEF PostFails, TypeOK, server, fanout, screens
<1> QED  BY <1>1, <1>2, <1>3, <1>5, <1>6, <1>7

\* The consumer and the clock of the hash.
LEMMA ConsumerType ==
    ASSUME TypeOK,
           Store \/ PublishDelta \/ Resubscribe \/ Expire \/ HandlerFails \/ SubscriptionLost
    PROVE  TypeOK'
<1>1. CASE Store
  <2>1. events \in Seq(Entry) /\ events # <<>>
    BY <1>1 DEF Store, TypeOK
  <2>2. Head(events) \in Entry /\ Tail(events) \in Seq(Entry)
    BY <2>1
  <2>3. Head(events).key \in Keys /\ Head(events).value \in Values
    BY <2>2 DEF Entry
  <2>4. twin' \in [Keys -> Payload] /\ ttl' \in {"none", "fresh", "old"}
    BY <1>1, <2>3, SetType DEF Store
  <2>5. hand' \in {<<>>} \cup {<<e>> : e \in Entry} /\ events' \in Seq(Entry)
    BY <1>1, <2>2 DEF Store
  <2>6. missed' \in [Clients -> SUBSET Keys] /\ unsure' \subseteq Keys
    BY <1>1 DEF Store, TypeOK
  <2> QED  BY <1>1, <2>4, <2>5, <2>6 DEF Store, TypeOK, Payload, sources, fanout, screens
<1>2. CASE PublishDelta
  <2>1. hand[1].key \in Keys /\ hand[1].value \in Values
    BY <1>2 DEF PublishDelta, TypeOK, Entry
  <2>2. deltas' \in Seq(Entry) /\ unsure' \subseteq Keys
    BY <1>2, <2>1, AnnounceType DEF PublishDelta
  <2> QED  BY <1>2, <2>2 DEF PublishDelta, TypeOK, sources, screens
<1>3. CASE Resubscribe
  BY <1>3 DEF Resubscribe, TypeOK, sources, fanout, screens, history
<1>4. CASE Expire
  <2>1. twin' \in [Keys -> Payload] /\ ttl' \in {"none", "fresh", "old"}
    BY <1>4, NoPayload DEF Expire, Tick, TypeOK, Payload
  <2> QED  BY <1>4, <2>1 DEF Expire, TypeOK, Payload, sources, fanout, screens, history
<1>5. CASE HandlerFails
  <2>1. events' \in Seq(Entry) /\ hand' \in {<<>>} \cup {<<e>> : e \in Entry}
    <3>1. events \in Seq(Entry) /\ hand \in {<<>>} \cup {<<e>> : e \in Entry}
      BY DEF TypeOK
    <3>2. events # <<>> => Tail(events) \in Seq(Entry)
      BY <3>1
    <3> QED  BY <1>5, <3>1, <3>2 DEF HandlerFails
  <2>2. unsure' \subseteq Keys
    BY <1>5 DEF HandlerFails, TypeOK, Entry, Keys, Fleet
  <2>3. faults' \in 0 .. MaxFaults
    BY <1>5, TwinBounds DEF HandlerFails, TypeOK
  <2> QED  BY <1>5, <2>1, <2>2, <2>3 DEF HandlerFails, TypeOK, sources, fanout, screens
<1>6. CASE SubscriptionLost
  <2>1. events' \in Seq(Entry) /\ unsure' \subseteq Keys /\ faults' \in 0 .. MaxFaults
    BY <1>6, TwinBounds DEF SubscriptionLost, TypeOK, Keys, Fleet
  <2> QED  BY <1>6, <2>1 DEF SubscriptionLost, TypeOK, sources, fanout, screens
<1> QED  BY <1>1, <1>2, <1>3, <1>4, <1>5, <1>6

\* A delta is a message about one key.
LEMMA DeltaType ==
    ASSUME NEW e \in Entry
    PROVE  [k \in {e.key} |-> e.value] \in Message
<1>1. {e.key} \in SUBSET Keys /\ e.value \in Values \cup {Absent}
  BY DEF Entry
<1>2. [k \in {e.key} |-> e.value] \in [{e.key} -> Values \cup {Absent}]
  BY <1>1
<1> QED  BY <1>1, <1>2 DEF Message

\* A snapshot is one about all.
LEMMA SnapshotType ==
    ASSUME NEW s \in [Keys -> Payload]
    PROVE  s \in Message
BY DEF Message, Payload

\* The fan-out and the dashboards.
LEMMA ScreenType ==
    ASSUME TypeOK,
           \/ Emit \/ ListenerEnds
           \/ \E c \in Clients : Client(c) \/ SnapshotFails(c) \/ Disconnect(c)
    PROVE  TypeOK'
<1>1. CASE Emit
  <2> DEFINE e == Head(deltas)
             d == [k \in {e.key} |-> e.value]
  <2>1. deltas \in Seq(Entry) /\ deltas # <<>>
    BY <1>1 DEF Emit, TypeOK
  <2>2. e \in Entry /\ Tail(deltas) \in Seq(Entry)
    BY <2>1
  <2>3. d \in Message /\ e.key \in Keys
    BY <2>2, DeltaType DEF Entry
  <2> HIDE DEF d
  <2>4. wire' = [c \in Clients |-> IF InRoom(c) THEN Append(wire[c], d) ELSE wire[c]]
    BY <1>1 DEF Emit, d
  <2>5. \A c \in Clients : wire[c] \in Seq(Message) /\ Append(wire[c], d) \in Seq(Message)
    BY <2>3 DEF TypeOK
  <2>6. wire' \in [Clients -> Seq(Message)]
    BY <2>4, <2>5
  <2>7. missed' \in [Clients -> SUBSET Keys]
    BY <1>1, <2>3 DEF Emit, TypeOK
  <2> QED  BY <1>1, <2>2, <2>6, <2>7 DEF Emit, TypeOK, sources, server
<1>2. CASE ListenerEnds
  <2>1. deltas' \in Seq(Entry) /\ faults' \in 0 .. MaxFaults
    BY <1>2, TwinBounds DEF ListenerEnds, TypeOK
  <2>2. unsure' \subseteq Keys
    <3>1. \A e \in Range(deltas) : e \in Entry
      BY DEF TypeOK, Range
    <3> QED  BY <1>2, <3>1 DEF ListenerEnds, TypeOK, Entry
  <2> QED  BY <1>2, <2>1, <2>2 DEF ListenerEnds, TypeOK, sources, server, screens
<1>3. ASSUME NEW c \in Clients, Join(c) PROVE TypeOK'
  BY <1>3 DEF Join, TypeOK, Session, sources, server, fanout
<1>4. ASSUME NEW c \in Clients, NEW from, NEW part, NEW to \in Session, Read(c, from, part, to)
      PROVE  TypeOK'
  <2>1. snap' \in [Clients -> [Keys -> Values \cup {Absent}]]
    BY <1>4 DEF Read, TypeOK
  <2>2. session' \in [Clients -> Session]
    BY <1>4 DEF Read, TypeOK
  <2> QED  BY <1>4, <2>1, <2>2 DEF Read, TypeOK, sources, server, fanout, history
<1>5. ASSUME NEW c \in Clients, SendSnapshot(c) PROVE TypeOK'
  <2>1. snap[c] \in Message /\ wire[c] \in Seq(Message)
    BY SnapshotType DEF TypeOK, Payload
  <2>2. wire' = [wire EXCEPT ![c] = Append(wire[c], snap[c])]
    BY <1>5 DEF SendSnapshot, TypeOK
  <2>3. wire' \in [Clients -> Seq(Message)]
    <3>1. Append(wire[c], snap[c]) \in Seq(Message)
      BY <2>1
    <3> QED  BY <2>2, <3>1 DEF TypeOK
  <2>4. snap' \in [Clients -> [Keys -> Values \cup {Absent}]] /\ session' \in [Clients -> Session]
    BY <1>5 DEF SendSnapshot, TypeOK, Nothing, Session
  <2> QED  BY <1>5, <2>3, <2>4 DEF SendSnapshot, TypeOK, sources, server, fanout, history
<1>6. ASSUME NEW c \in Clients, Receive(c) PROVE TypeOK'
  <2>1. wire[c] \in Seq(Message) /\ wire[c] # <<>>
    BY <1>6 DEF Receive, TypeOK
  <2>2. Head(wire[c]) \in Message /\ Tail(wire[c]) \in Seq(Message)
    BY <2>1
  <2>3. wire' \in [Clients -> Seq(Message)]
    BY <1>6, <2>2 DEF Receive, TypeOK
  <2>4. \A k \in Keys : k \in DOMAIN Head(wire[c]) => Head(wire[c])[k] \in Values \cup {Absent}
    BY <2>2 DEF Message
  <2>5. view' \in [Clients -> [Keys -> Values \cup {Absent}]]
    BY <1>6, <2>4 DEF Receive, TypeOK
  <2> QED  BY <1>6, <2>3, <2>5 DEF Receive, TypeOK, sources, server, fanout, history
<1>7. ASSUME NEW c \in Clients, SnapshotFails(c) PROVE TypeOK'
  <2>1. /\ snap' \in [Clients -> [Keys -> Values \cup {Absent}]] /\ session' \in [Clients -> Session]
        /\ missed' \in [Clients -> SUBSET Keys] /\ faults' \in 0 .. MaxFaults
    BY <1>7, TwinBounds DEF SnapshotFails, TypeOK, Nothing, Session
  <2> QED  BY <1>7, <2>1 DEF SnapshotFails, TypeOK, sources, server, fanout
<1>8. ASSUME NEW c \in Clients, Disconnect(c) PROVE TypeOK'
  <2>1. /\ snap' \in [Clients -> [Keys -> Values \cup {Absent}]] /\ session' \in [Clients -> Session]
        /\ wire' \in [Clients -> Seq(Message)] /\ faults' \in 0 .. MaxFaults
    BY <1>8, TwinBounds DEF Disconnect, TypeOK, Nothing, Session
  <2> QED  BY <1>8, <2>1 DEF Disconnect, TypeOK, sources, server, fanout, history
<1> QED
  BY <1>1, <1>2, <1>3, <1>4, <1>5, <1>6, <1>7, <1>8 DEF Client, ReadRobots, ReadBins, Session

LEMMA TypeStep == ASSUME TypeOK, [Next]_vars PROVE TypeOK'
<1>1. CASE UNCHANGED vars
  BY <1>1 DEF vars, sources, server, fanout, screens, history, TypeOK
<1> QED  BY <1>1, SourceType, ConsumerType, ScreenType DEF Next, Fails

-----------------------------------------------------------------------------
(* A key that is settled after a step was so before it, with the same      *)
(* payload, unless the consumer has just stored it.                        *)

StoreOf(k) == Store /\ Head(events).key = k

\* What the consumer has stored it is about to announce.
LEMMA StoreTells ==
    ASSUME TypeOK, NEW k \in Keys, StoreOf(k)
    PROVE  InHand(k)' /\ Announced(k, twin[k])'
<1>1. events \in Seq(Entry) /\ events # <<>>
  BY DEF StoreOf, Store, TypeOK
<1>2. Head(events) \in Entry
  BY <1>1
<1>3. twin'[k] = Head(events).value
  BY <1>2, SetType DEF StoreOf, Store, Entry
<1>4. hand' = <<Head(events)>>
  BY DEF StoreOf, Store
<1> QED  BY <1>3, <1>4 DEF InHand, Announced, StoreOf

LEMMA StillSettled ==
    ASSUME TypeOK, Next, NEW k \in Keys, Settled(k)', ~StoreOf(k)
    PROVE  Settled(k) /\ twin'[k] = twin[k]
<1>1. ASSUME twin'[k] = twin[k], Unconfirmed(k) => Unconfirmed(k)', k \in unsure => k \in unsure'
      PROVE  Settled(k) /\ twin'[k] = twin[k]
  BY <1>1 DEF Settled
<1>2. events \in Seq(Entry)
  BY DEF TypeOK
<1>3. ASSUME NEW j \in Keys, NEW v \in Values, Publish(j, v)
      PROVE  /\ k \in unsure => k \in unsure'
             /\ (\E i \in DOMAIN events : events[i].key = k) => \E i \in DOMAIN events' : events'[i].key = k
             /\ k = j /\ k \in Scanners => (\E i \in DOMAIN events' : events'[i].key = k) \/ k \in unsure'
  <2>1. CASE subscribed
    <3> DEFINE e == [key |-> j, value |-> v]
    <3>1. events' = Append(events, e) /\ unsure' = unsure
      BY <1>3, <2>1 DEF Publish
    <3>2. e \in Entry /\ e.key = j
      BY DEF Entry
    <3> HIDE DEF e
    <3>3. /\ \A i \in DOMAIN events : i \in DOMAIN events' /\ events'[i] = events[i]
          /\ Len(events) + 1 \in DOMAIN events' /\ events'[Len(events) + 1] = e
      BY <1>2, <3>1, <3>2
    <3> QED  BY <3>1, <3>2, <3>3
  <2>2. CASE ~subscribed
    BY <1>3, <2>2 DEF Publish
  <2> QED  BY <2>1, <2>2
<1>4. ASSUME NEW j \in Keys, Notify(j) PROVE Settled(k) /\ twin'[k] = twin[k]
  <2>1. PICK v \in Payloads(j) : Publish(j, v)
    BY <1>4 DEF Notify
  <2>2. v \in Values /\ UNCHANGED <<posts, twin>>
    BY <1>4 DEF Payloads, Notify
  <2>3. Unconfirmed(k) => Unconfirmed(k)'
    BY <1>3, <2>1, <2>2 DEF Unconfirmed
  <2> QED  BY <1>1, <1>3, <2>1, <2>2, <2>3
<1>5. ASSUME NEW r \in Fleet, Silence(r) PROVE Settled(k) /\ twin'[k] = twin[k]
  BY <1>1, <1>5 DEF Silence, server, history, Unconfirmed
<1>6. ASSUME NEW r \in Scanners, PostHeartbeat(r) PROVE Settled(k) /\ twin'[k] = twin[k]
  <2>1. PICK v \in Payloads(r) :
            /\ Set(r, v)
            /\ posts' = posts \cup {[key |-> r, value |-> v, stage |-> "stored"]}
            /\ UNCHANGED <<events, history>>
    BY <1>6 DEF PostHeartbeat
  <2>2. k # r
    <3>1. /\ [key |-> r, value |-> v, stage |-> "stored"] \in posts'
          /\ [key |-> r, value |-> v, stage |-> "stored"].key = r
      BY <2>1
    <3> QED  BY <3>1 DEF Settled, Unconfirmed
  <2>3. twin'[k] = twin[k]
    BY <2>1, <2>2 DEF Set, TypeOK
  <2> QED  BY <1>1, <2>1, <2>3 DEF Unconfirmed, history
<1>7. ASSUME NEW post \in posts PROVE post.key \in Scanners /\ post.key \in Keys /\ post.value \in Values
  BY DEF TypeOK, Keys, Fleet
<1>8. ASSUME NEW post \in posts, PostDelta(post) PROVE Settled(k) /\ twin'[k] = twin[k]
  <2>1. /\ posts' = (posts \ {post}) \cup {[post EXCEPT !.stage = "told"]}
        /\ UNCHANGED <<events, twin>> /\ unsure \subseteq unsure'
    BY <1>8 DEF PostDelta, Announce, server
  <2>2. [post EXCEPT !.stage = "told"].key = post.key
    BY DEF TypeOK
  <2>3. Unconfirmed(k) => Unconfirmed(k)'
    BY <2>1, <2>2 DEF Unconfirmed
  <2> QED  BY <1>1, <2>1, <2>3
<1>9. ASSUME NEW post \in posts, PostEvent(post) PROVE Settled(k) /\ twin'[k] = twin[k]
  <2>1. /\ Publish(post.key, post.value) /\ posts' = posts \ {post} /\ UNCHANGED twin
    BY <1>9 DEF PostEvent
  <2>2. k # post.key
    BY <1>3, <1>7, <2>1 DEF Settled, Unconfirmed
  <2>3. Unconfirmed(k) => Unconfirmed(k)'
    BY <1>3, <1>7, <2>1, <2>2 DEF Unconfirmed
  <2> QED  BY <1>1, <1>3, <1>7, <2>1, <2>3
<1>10. ASSUME NEW post \in posts, PostFails(post) PROVE Settled(k) /\ twin'[k] = twin[k]
  <2>1. posts' = posts \ {post} /\ unsure' = unsure \cup {post.key} /\ UNCHANGED <<events, twin>>
    BY <1>10 DEF PostFails, server
  <2>2. k # post.key
    BY <2>1 DEF Settled
  <2> QED  BY <1>1, <2>1, <2>2 DEF Unconfirmed
<1>11. ASSUME events # <<>>, events' = Tail(events), Head(events).key # k
       PROVE  (\E i \in DOMAIN events : events[i].key = k) => \E i \in DOMAIN events' : events'[i].key = k
  <2> SUFFICES ASSUME NEW i \in DOMAIN events, events[i].key = k
               PROVE  \E j \in DOMAIN events' : events'[j].key = k
    OBVIOUS
  <2>1. i # 1
    BY <1>2, <1>11
  <2>2. i - 1 \in DOMAIN events' /\ events'[i - 1] = events[i]
    BY <1>2, <1>11, <2>1
  <2> QED  BY <2>2
<1>12. CASE Store
  <2>1. events # <<>> /\ events' = Tail(events) /\ Head(events).key # k
    BY <1>12 DEF Store, StoreOf
  <2>2. twin'[k] = twin[k] /\ UNCHANGED posts
    BY <1>12, <2>1 DEF Store, Set, sources, TypeOK
  <2>3. k \in unsure => k \in unsure'
    BY <1>12, <2>1 DEF Store
  <2> QED  BY <1>1, <1>11, <2>1, <2>2, <2>3 DEF Unconfirmed
<1>13. CASE PublishDelta \/ Resubscribe
  <2>1. UNCHANGED <<posts, events, twin>> /\ unsure \subseteq unsure'
    BY <1>13 DEF PublishDelta, Announce, Resubscribe, sources, history
  <2> QED  BY <1>1, <2>1 DEF Unconfirmed
<1>14. CASE HandlerFails
  <2>1. UNCHANGED <<posts, twin>> /\ unsure \subseteq unsure'
    BY <1>14 DEF HandlerFails, sources
  <2>2. CASE events' = events
    BY <1>1, <2>1, <2>2 DEF Unconfirmed
  <2>3. CASE events # <<>> /\ events' = Tail(events) /\ unsure' = unsure \cup ({Head(events).key} \cap Scanners)
    <3>1. k \in Scanners => Head(events).key # k
      BY <2>3 DEF Settled
    <3> QED  BY <1>1, <1>11, <2>1, <2>3, <3>1 DEF Unconfirmed
  <2> QED  BY <1>14, <2>2, <2>3 DEF HandlerFails
<1>15. CASE SubscriptionLost
  <2>1. UNCHANGED <<posts, twin>> /\ unsure' = unsure \cup ({e.key : e \in Range(events)} \cap Scanners)
    BY <1>15 DEF SubscriptionLost, sources
  <2>2. k \in Scanners => ~\E i \in DOMAIN events : events[i].key = k
    BY <2>1 DEF Settled, Range
  <2> QED  BY <1>1, <2>1, <2>2 DEF Unconfirmed
<1>16. CASE Expire
  <2>1. UNCHANGED <<posts, events, unsure>>
    BY <1>16 DEF Expire, sources, history
  <2>2. twin'[k] = twin[k] \/ twin'[k] = Absent
    BY <1>16 DEF Expire, Tick
  <2> QED  BY <1>1, <2>1, <2>2 DEF Unconfirmed, Settled
<1>17. CASE Emit \/ ListenerEnds \/ \E c \in Clients : Client(c) \/ SnapshotFails(c) \/ Disconnect(c)
  <2>1. UNCHANGED <<posts, events, twin>> /\ unsure \subseteq unsure'
    BY <1>17 DEF Emit, ListenerEnds, Client, Join, ReadRobots, ReadBins, Read, SendSnapshot, Receive,
                 SnapshotFails, Disconnect, sources, server, history
  <2> QED  BY <1>1, <2>1 DEF Unconfirmed
<1> QED  BY <1>4, <1>5, <1>6, <1>8, <1>9, <1>10, <1>12, <1>13, <1>14, <1>15, <1>16, <1>17 DEF Next, Fails

-----------------------------------------------------------------------------
(* The channel of deltas, but for the listener's step.                     *)

\* A delta about another key changes nothing for k; one about k is the last.
LEMMA AnnounceTells ==
    ASSUME TypeOK, NEW k \in Keys, NEW j \in Keys, NEW v \in Values, Announce(j, v), listening
    PROVE  /\ InDeltas(k)' <=> InDeltas(k) \/ k = j
           /\ k # j => \A w : (\A i \in LastDelta(k) : deltas[i].value = w)
                                => \A i \in LastDelta(k)' : deltas'[i].value = w
           /\ k = j => \A i \in LastDelta(k)' : deltas'[i].value = v
<1> DEFINE e == [key |-> j, value |-> v]
<1>1. deltas \in Seq(Entry) /\ e \in Entry /\ e.key = j /\ e.value = v
  BY DEF TypeOK, Entry
<1>2. deltas' = Append(deltas, e)
  BY DEF Announce
<1> HIDE DEF e
<1>3. /\ DOMAIN deltas' = DOMAIN deltas \cup {Len(deltas) + 1}
      /\ Len(deltas) + 1 \notin DOMAIN deltas /\ deltas'[Len(deltas) + 1] = e
      /\ \A i \in DOMAIN deltas : deltas'[i] = deltas[i] /\ i < Len(deltas) + 1
      /\ \A i \in DOMAIN deltas : i \in Nat
  BY <1>1, <1>2
<1>4. InDeltas(k)' <=> InDeltas(k) \/ k = j
  BY <1>1, <1>3 DEF InDeltas
<1>5. ASSUME k # j, NEW i \in LastDelta(k)' PROVE i \in LastDelta(k) /\ deltas'[i] = deltas[i]
  <2>1. i \in DOMAIN deltas
    BY <1>1, <1>3, <1>5 DEF LastDelta
  <2> QED  BY <1>3, <1>5, <2>1 DEF LastDelta
<1>6. ASSUME k = j, NEW i \in LastDelta(k)' PROVE deltas'[i].value = v
  <2>1. i \notin DOMAIN deltas
    BY <1>1, <1>3, <1>6 DEF LastDelta
  <2> QED  BY <1>1, <1>3, <1>6, <2>1 DEF LastDelta
<1> QED  BY <1>4, <1>5, <1>6

LEMMA ChannelStep ==
    ASSUME TypeOK, Next, ~Emit, NEW k \in Keys, Settled(k)', ~StoreOf(k)
    PROVE  /\ InHand(k)' \/ InDeltas(k)' <=> InHand(k) \/ InDeltas(k)
           /\ \A v : Announced(k, v) => Announced(k, v)'
<1>1. ASSUME InHand(k)' <=> InHand(k), InHand(k) => hand' = hand, deltas' = deltas
      PROVE  /\ InHand(k)' \/ InDeltas(k)' <=> InHand(k) \/ InDeltas(k)
             /\ \A v : Announced(k, v) => Announced(k, v)'
  BY <1>1 DEF Announced, InDeltas, LastDelta
<1>2. CASE UNCHANGED <<hand, deltas>>
  BY <1>1, <1>2 DEF InHand
<1>3. CASE Store
  <2>1. hand = <<>> /\ hand' = <<Head(events)>> /\ deltas' = deltas /\ Head(events).key # k
    BY <1>3 DEF Store, StoreOf, fanout
  <2> QED  BY <1>1, <2>1 DEF InHand
<1>4. ASSUME NEW post \in posts, PostDelta(post)
      PROVE  /\ InHand(k)' \/ InDeltas(k)' <=> InHand(k) \/ InDeltas(k)
             /\ \A v : Announced(k, v) => Announced(k, v)'
  <2>1. /\ Announce(post.key, post.value) /\ hand' = hand
        /\ posts' = (posts \ {post}) \cup {[post EXCEPT !.stage = "told"]}
    BY <1>4 DEF PostDelta, server
  <2>2. post.key \in Keys /\ post.value \in Values /\ [post EXCEPT !.stage = "told"].key = post.key
    BY DEF TypeOK, Keys, Fleet
  <2>3. k # post.key
    BY <2>1, <2>2 DEF Settled, Unconfirmed
  <2>4. CASE ~listening
    BY <1>2, <2>1, <2>4 DEF Announce
  <2>5. CASE listening
    <3>1. InDeltas(k)' <=> InDeltas(k)
      BY <2>1, <2>2, <2>3, <2>5, AnnounceTells
    <3>2. \A w : (\A i \in LastDelta(k) : deltas[i].value = w)
                    => \A i \in LastDelta(k)' : deltas'[i].value = w
      BY <2>1, <2>2, <2>3, <2>5, AnnounceTells
    <3> QED  BY <2>1, <3>1, <3>2 DEF Announced, InHand
  <2> QED  BY <2>4, <2>5
<1>5. CASE PublishDelta
  <2>1. hand # <<>> /\ hand' = <<>> /\ Announce(hand[1].key, hand[1].value)
    BY <1>5 DEF PublishDelta
  <2>2. hand[1].key \in Keys /\ hand[1].value \in Values
    BY <2>1 DEF TypeOK, Entry
  <2>3. ~InHand(k)'
    BY <2>1 DEF InHand
  <2>4. CASE ~listening
    <3>1. k # hand[1].key /\ deltas' = deltas
      BY <2>1, <2>4 DEF Announce, Settled
    <3> QED  BY <1>1, <2>3, <3>1 DEF InHand
  <2>5. CASE listening /\ k = hand[1].key
    <3>1. InHand(k)
      BY <2>1, <2>5 DEF InHand
    <3>2. InDeltas(k)' /\ \A i \in LastDelta(k)' : deltas'[i].value = hand[1].value
      BY <2>1, <2>2, <2>5, AnnounceTells
    <3> QED  BY <2>3, <3>1, <3>2 DEF Announced
  <2>6. CASE listening /\ k # hand[1].key
    <3>1. ~InHand(k)
      BY <2>6 DEF InHand
    <3>2. InDeltas(k)' <=> InDeltas(k)
      BY <2>1, <2>2, <2>6, AnnounceTells
    <3>3. \A w : (\A i \in LastDelta(k) : deltas[i].value = w)
                    => \A i \in LastDelta(k)' : deltas'[i].value = w
      BY <2>1, <2>2, <2>6, AnnounceTells
    <3> QED  BY <2>3, <3>1, <3>2, <3>3 DEF Announced
  <2> QED  BY <2>4, <2>5, <2>6
<1>6. CASE HandlerFails
  <2>1. deltas' = deltas
    BY <1>6 DEF HandlerFails, fanout
  <2>2. CASE hand' = hand
    BY <1>2, <2>1, <2>2
  <2>3. CASE hand # <<>> /\ hand' = <<>> /\ unsure' = unsure \cup {hand[1].key}
    BY <1>1, <2>1, <2>3 DEF InHand, Settled
  <2> QED  BY <1>6, <2>2, <2>3 DEF HandlerFails
<1>7. CASE ListenerEnds
  <2>1. hand' = hand /\ deltas' = <<>> /\ unsure' = unsure \cup {e.key : e \in Range(deltas)}
    BY <1>7 DEF ListenerEnds, server
  <2>2. ~InDeltas(k) /\ LastDelta(k)' = {} /\ ~InDeltas(k)'
    <3>1. ~InDeltas(k)
      BY <2>1 DEF Settled, InDeltas, Range
    <3> QED  BY <2>1, <3>1 DEF InDeltas, LastDelta
  <2> QED  BY <2>1, <2>2 DEF Announced, InHand
<1> QED
  <2>1. CASE \/ \E j \in Keys : Notify(j)
             \/ \E r \in Fleet : Silence(r)
             \/ \E r \in Scanners : PostHeartbeat(r)
             \/ \E post \in posts : PostEvent(post) \/ PostFails(post)
             \/ Resubscribe \/ Expire \/ SubscriptionLost
             \/ \E c \in Clients : Client(c) \/ SnapshotFails(c) \/ Disconnect(c)
    <3>1. UNCHANGED <<hand, deltas>>
      BY <2>1 DEF Notify, Silence, PostHeartbeat, PostEvent, PostFails, Resubscribe, Expire, SubscriptionLost,
                  Client, Join, ReadRobots, ReadBins, Read, SendSnapshot, Receive, SnapshotFails, Disconnect,
                  server, fanout
    <3> QED  BY <1>2, <3>1
  <2> QED  BY <1>3, <1>4, <1>5, <1>6, <1>7, <2>1 DEF Next, Fails

-----------------------------------------------------------------------------
(* What a client is sent.                                                  *)

\* A message that is about k is the last one about it; another one changes
\* nothing for k.
LEMMA SentTells ==
    ASSUME TypeOK, NEW c \in Clients, NEW k \in Keys, NEW m \in Message,
           wire'[c] = Append(wire[c], m), view'[c] = view[c]
    PROVE  /\ k \notin DOMAIN m => \A v : Shown(c, k, v) => Shown(c, k, v)'
           /\ k \in DOMAIN m => \A v : v = m[k] => Shown(c, k, v)'
<1>1. wire[c] \in Seq(Message)
  BY DEF TypeOK
<1>2. /\ DOMAIN wire'[c] = DOMAIN wire[c] \cup {Len(wire[c]) + 1}
      /\ Len(wire[c]) + 1 \notin DOMAIN wire[c] /\ wire'[c][Len(wire[c]) + 1] = m
      /\ \A i \in DOMAIN wire[c] : wire'[c][i] = wire[c][i] /\ i < Len(wire[c]) + 1
      /\ \A i \in DOMAIN wire[c] : i \in Nat
  BY <1>1
<1>3. ASSUME k \notin DOMAIN m, NEW v, Shown(c, k, v) PROVE Shown(c, k, v)'
  <2>1. IsSent(c, k)' <=> IsSent(c, k)
    BY <1>2, <1>3 DEF IsSent
  <2>2. ASSUME NEW i \in LastSent(c, k)' PROVE i \in LastSent(c, k) /\ wire'[c][i] = wire[c][i]
    <3>1. i \in DOMAIN wire[c]
      BY <1>2, <1>3, <2>2 DEF LastSent
    <3> QED  BY <1>2, <2>2, <3>1 DEF LastSent
  <2> QED  BY <1>3, <2>1, <2>2 DEF Shown
<1>4. ASSUME k \in DOMAIN m, NEW v, v = m[k] PROVE Shown(c, k, v)'
  <2>1. IsSent(c, k)'
    BY <1>2, <1>4 DEF IsSent
  <2>2. ASSUME NEW i \in LastSent(c, k)' PROVE wire'[c][i] = m
    <3>1. i \notin DOMAIN wire[c]
      BY <1>1, <1>2, <1>4, <2>2 DEF LastSent
    <3> QED  BY <1>2, <2>2, <3>1 DEF LastSent
  <2> QED  BY <1>4, <2>1, <2>2 DEF Shown
<1> QED  BY <1>3, <1>4

\* A dashboard that takes a message shows what it was about to.
LEMMA ReceiveTells ==
    ASSUME TypeOK, NEW c \in Clients, Receive(c), NEW d \in Clients, NEW k \in Keys,
           NEW v, Shown(d, k, v)
    PROVE  Shown(d, k, v)'
<1>1. wire[c] \in Seq(Message) /\ wire[c] # <<>>
  BY DEF Receive, TypeOK
<1>2. CASE d # c
  <2>1. wire'[d] = wire[d] /\ view'[d] = view[d]
    BY <1>2 DEF Receive, TypeOK
  <2> QED  BY <2>1 DEF Shown, IsSent, LastSent
<1>3. CASE d = c
  <2>1. /\ wire'[c] = Tail(wire[c])
        /\ view'[c][k] = IF k \in DOMAIN wire[c][1] THEN wire[c][1][k] ELSE view[c][k]
    BY <1>1 DEF Receive, TypeOK
  <2>2. /\ \A i \in DOMAIN wire'[c] : i \in Nat /\ i + 1 \in DOMAIN wire[c] /\ wire'[c][i] = wire[c][i + 1]
        /\ \A i \in DOMAIN wire[c] : i \in Nat /\ (i # 1 => i - 1 \in DOMAIN wire'[c] /\ (i - 1) + 1 = i)
        /\ 1 \in DOMAIN wire[c] /\ \A i \in DOMAIN wire[c] : i # 1 => i > 1
    BY <1>1, <2>1
  <2>3. CASE IsSent(c, k)'
    <3>1. IsSent(c, k)
      BY <2>2, <2>3 DEF IsSent
    <3>2. ASSUME NEW i \in LastSent(c, k)' PROVE wire'[c][i][k] = v
      <4>1. i \in DOMAIN wire'[c] /\ k \in DOMAIN wire'[c][i]
        BY <3>2 DEF LastSent
      <4>2. i + 1 \in DOMAIN wire[c] /\ wire'[c][i] = wire[c][i + 1]
        BY <2>2, <4>1
      <4>3. ASSUME NEW j \in DOMAIN wire[c], j > i + 1 PROVE k \notin DOMAIN wire[c][j]
        <5>1. j # 1 /\ j \in Nat /\ i \in Nat
          BY <2>2, <4>1, <4>3
        <5>2. j - 1 \in DOMAIN wire'[c] /\ (j - 1) + 1 = j /\ j - 1 > i
          BY <2>2, <4>3, <5>1
        <5>3. wire'[c][j - 1] = wire[c][j]
          BY <2>2, <5>2
        <5> QED  BY <3>2, <5>2, <5>3 DEF LastSent
      <4>4. i + 1 \in LastSent(c, k)
        BY <4>1, <4>2, <4>3 DEF LastSent
      <4> QED  BY <1>3, <3>1, <4>2, <4>4 DEF Shown
    <3> QED  BY <1>3, <2>3, <3>2 DEF Shown
  <2>4. CASE ~IsSent(c, k)'
    <3>1. \A i \in DOMAIN wire[c] : i # 1 => k \notin DOMAIN wire[c][i]
      <4> SUFFICES ASSUME NEW i \in DOMAIN wire[c], i # 1 PROVE k \notin DOMAIN wire[c][i]
        OBVIOUS
      <4>1. i - 1 \in DOMAIN wire'[c] /\ (i - 1) + 1 = i
        BY <2>2
      <4>2. wire'[c][i - 1] = wire[c][i]
        BY <2>2, <4>1
      <4> QED  BY <2>4, <4>1, <4>2 DEF IsSent
    <3>2. CASE k \in DOMAIN wire[c][1]
      <4>1. 1 \in LastSent(c, k) /\ IsSent(c, k)
        BY <2>2, <3>1, <3>2 DEF LastSent, IsSent
      <4> QED  BY <1>3, <2>1, <2>4, <3>2, <4>1 DEF Shown
    <3>3. CASE k \notin DOMAIN wire[c][1]
      <4>1. ~IsSent(c, k)
        BY <3>1, <3>3 DEF IsSent
      <4> QED  BY <1>3, <2>1, <2>4, <3>3, <4>1 DEF Shown
    <3> QED  BY <3>2, <3>3
  <2> QED  BY <2>3, <2>4
<1> QED  BY <1>2, <1>3

\* Every other step but the listener's leaves a connected client what it is
\* about to show; a client connects with the snapshot it has read, or without
\* one, and then its keys are not accounted for.
LEMMA JoinedStep ==
    ASSUME TypeOK, Next, ~Emit, NEW k \in Keys, ~StoreOf(k), NEW c \in Clients,
           session'[c] = "joined", k \notin missed'[c]
    PROVE  /\ k \notin missed[c]
           /\ \/ session[c] = "joined" /\ \A v : Shown(c, k, v) => Shown(c, k, v)'
              \/ HasRead(c, k) /\ (\A v : v = snap[c][k] => Shown(c, k, v)') /\ UNCHANGED <<server, fanout>>
<1> DEFINE Goal == /\ k \notin missed[c]
                   /\ \/ session[c] = "joined" /\ \A v : Shown(c, k, v) => Shown(c, k, v)'
                      \/ HasRead(c, k) /\ (\A v : v = snap[c][k] => Shown(c, k, v)') /\ UNCHANGED <<server, fanout>>
<1>1. ASSUME session'[c] = session[c], wire'[c] = wire[c], view'[c] = view[c], missed'[c] = missed[c]
      PROVE  Goal
  BY <1>1 DEF Shown, IsSent, LastSent
<1>2. CASE \/ \E j \in Keys : Notify(j)
           \/ \E r \in Fleet : Silence(r)
           \/ \E r \in Scanners : PostHeartbeat(r)
           \/ \E post \in posts : PostDelta(post) \/ PostEvent(post) \/ PostFails(post)
           \/ PublishDelta \/ Resubscribe \/ Expire \/ Fails
  <2>1. UNCHANGED <<screens, missed>>
    BY <1>2 DEF Notify, Silence, PostHeartbeat, PostDelta, PostEvent, PostFails, PublishDelta, Resubscribe,
                Expire, Fails, HandlerFails, SubscriptionLost, ListenerEnds, history
  <2> QED  BY <1>1, <2>1 DEF screens
<1>3. CASE Store
  <2>1. events \in Seq(Entry) /\ events # <<>>
    BY <1>3 DEF Store, TypeOK
  <2>2. Head(events).key # k
    BY <1>3 DEF StoreOf
  <2>3. UNCHANGED screens /\ missed' = [d \in Clients |-> missed[d] \ {Head(events).key}]
    BY <1>3 DEF Store
  <2>4. k \notin missed[c]
    BY <2>2, <2>3
  <2>5. \A v : Shown(c, k, v) => Shown(c, k, v)'
    BY <2>3 DEF screens, Shown, IsSent, LastSent
  <2> QED  BY <2>3, <2>4, <2>5 DEF screens
<1>4. ASSUME NEW d \in Clients, d # c, Client(d) \/ SnapshotFails(d) \/ Disconnect(d) PROVE Goal
  <2>1. session'[c] = session[c] /\ wire'[c] = wire[c] /\ view'[c] = view[c] /\ missed'[c] = missed[c]
    BY <1>4 DEF Client, Join, ReadRobots, ReadBins, Read, SendSnapshot, Receive, SnapshotFails, Disconnect,
                TypeOK, history
  <2> QED  BY <1>1, <2>1
<1>5. CASE Join(c) \/ ReadRobots(c) \/ ReadBins(c) \/ SnapshotFails(c) \/ Disconnect(c)
  BY <1>5 DEF Join, ReadRobots, ReadBins, Read, SnapshotFails, Disconnect, TypeOK
<1>6. CASE SendSnapshot(c)
  <2>1. /\ wire'[c] = Append(wire[c], snap[c]) /\ view'[c] = view[c]
        /\ missed'[c] = missed[c] /\ session[c] = "bins" /\ UNCHANGED <<server, fanout>>
    BY <1>6 DEF SendSnapshot, TypeOK, history
  <2>2. snap[c] \in Message /\ k \in DOMAIN snap[c]
    <3>1. snap[c] \in [Keys -> Payload]
      BY DEF TypeOK, Payload
    <3> QED  BY <3>1, SnapshotType
  <2>3. \A v : v = snap[c][k] => Shown(c, k, v)'
    BY <2>1, <2>2, SentTells
  <2> QED  BY <2>1, <2>3 DEF HasRead
<1>7. CASE Receive(c)
  <2>1. session'[c] = session[c] /\ missed'[c] = missed[c]
    BY <1>7 DEF Receive, history
  <2> QED  BY <1>7, <2>1, ReceiveTells
<1> QED  BY <1>2, <1>3, <1>4, <1>5, <1>6, <1>7 DEF Next, Client

\* A join has read a key before the step, or reads it in this step.
LEMMA ReadStep ==
    ASSUME TypeOK, Next, ~Emit, NEW k \in Keys, ~StoreOf(k), NEW c \in Clients,
           HasRead(c, k)', k \notin missed'[c]
    PROVE  \/ HasRead(c, k) /\ snap'[c][k] = snap[c][k] /\ k \notin missed[c]
           \/ snap'[c][k] = twin[k] /\ twin' = twin
<1> DEFINE Goal == \/ HasRead(c, k) /\ snap'[c][k] = snap[c][k] /\ k \notin missed[c]
                   \/ snap'[c][k] = twin[k] /\ twin' = twin
<1>1. ASSUME session'[c] = session[c], snap'[c] = snap[c], missed'[c] = missed[c] PROVE Goal
  BY <1>1 DEF HasRead
<1>2. CASE \/ \E j \in Keys : Notify(j)
           \/ \E r \in Fleet : Silence(r)
           \/ \E r \in Scanners : PostHeartbeat(r)
           \/ \E post \in posts : PostDelta(post) \/ PostEvent(post) \/ PostFails(post)
           \/ PublishDelta \/ Resubscribe \/ Expire \/ Fails
  <2>1. UNCHANGED <<screens, missed>>
    BY <1>2 DEF Notify, Silence, PostHeartbeat, PostDelta, PostEvent, PostFails, PublishDelta, Resubscribe,
                Expire, Fails, HandlerFails, SubscriptionLost, ListenerEnds, history
  <2> QED  BY <1>1, <2>1 DEF screens
<1>3. CASE Store
  <2>1. Head(events).key # k
    BY <1>3 DEF StoreOf
  <2>2. UNCHANGED screens /\ missed' = [d \in Clients |-> missed[d] \ {Head(events).key}]
    BY <1>3 DEF Store
  <2> QED  BY <2>1, <2>2 DEF screens, HasRead
<1>4. ASSUME NEW d \in Clients, d # c, Client(d) \/ SnapshotFails(d) \/ Disconnect(d) PROVE Goal
  <2>1. session'[c] = session[c] /\ snap'[c] = snap[c] /\ missed'[c] = missed[c]
    BY <1>4 DEF Client, Join, ReadRobots, ReadBins, Read, SendSnapshot, Receive, SnapshotFails, Disconnect,
                TypeOK, history
  <2> QED  BY <1>1, <2>1
<1>5. CASE Join(c) \/ SendSnapshot(c) \/ SnapshotFails(c) \/ Disconnect(c)
  BY <1>5 DEF Join, SendSnapshot, SnapshotFails, Disconnect, TypeOK, HasRead
<1>6. CASE Receive(c)
  BY <1>1, <1>6 DEF Receive, history
<1>7. CASE ReadRobots(c)
  <2>1. /\ session'[c] = "robots" /\ twin' = twin
        /\ snap'[c] = [j \in Keys |-> IF j \in Fleet THEN twin[j] ELSE snap[c][j]]
    BY <1>7 DEF ReadRobots, Read, server, TypeOK
  <2>2. k \in Fleet
    BY <2>1 DEF HasRead
  <2> QED  BY <2>1, <2>2
<1>8. CASE ReadBins(c)
  <2>1. /\ session[c] = "robots" /\ twin' = twin /\ missed' = missed
        /\ snap'[c] = [j \in Keys |-> IF j \in Bins THEN twin[j] ELSE snap[c][j]]
    BY <1>8 DEF ReadBins, Read, server, history, TypeOK
  <2>2. CASE k \in Bins
    BY <2>1, <2>2
  <2>3. CASE k \in Fleet /\ k \notin Bins
    BY <2>1, <2>3 DEF HasRead
  <2> QED  BY <2>2, <2>3 DEF Keys
<1> QED  BY <1>2, <1>3, <1>4, <1>5, <1>6, <1>7, <1>8 DEF Next, Client

-----------------------------------------------------------------------------
(* The invariant.                                                          *)

\* The listener's step: the first delta leaves the channel for the room.
LEMMA EmitStep == ASSUME Inv, Emit PROVE NothingMissed' /\ Told' /\ SnapshotTells'
<1> DEFINE e == Head(deltas)
           d == [j \in {e.key} |-> e.value]
<1>1. TypeOK /\ NothingMissed /\ Told /\ SnapshotTells
  BY DEF Inv
<1>2. deltas \in Seq(Entry) /\ deltas # <<>> /\ deltas' = Tail(deltas)
  BY <1>1 DEF Emit, TypeOK
<1>3. e \in Entry /\ e = deltas[1] /\ d \in Message /\ DOMAIN d = {e.key} /\ d[e.key] = e.value
  <2>1. e \in Entry /\ e = deltas[1]
    BY <1>2
  <2>2. d \in Message
    BY <2>1, DeltaType
  <2> QED  BY <2>1, <2>2
<1>4. /\ \A i \in DOMAIN deltas' : i \in Nat /\ i + 1 \in DOMAIN deltas /\ deltas'[i] = deltas[i + 1]
      /\ \A i \in DOMAIN deltas : i \in Nat /\ (i # 1 => i > 1 /\ i - 1 \in DOMAIN deltas' /\ (i - 1) + 1 = i)
      /\ 1 \in DOMAIN deltas
  BY <1>2
<1> HIDE DEF d
<1>5. /\ UNCHANGED <<posts, events, twin, hand, unsure, session, snap, view>>
      /\ wire' = [c \in Clients |-> IF InRoom(c) THEN Append(wire[c], d) ELSE wire[c]]
      /\ missed' = [c \in Clients |->
                       IF HasRead(c, e.key) /\ snap[c][e.key] # e.value
                       THEN missed[c] \cup {e.key} ELSE missed[c]]
  BY DEF Emit, sources, server, d
<1>6. \A k \in Keys : (Settled(k)' <=> Settled(k)) /\ (InHand(k)' <=> InHand(k))
  BY <1>5 DEF Settled, Unconfirmed, InHand
<1>7. ASSUME NEW k \in Keys, NEW i \in LastDelta(k)' PROVE i + 1 \in LastDelta(k) /\ deltas'[i] = deltas[i + 1]
  <2>1. i \in DOMAIN deltas' /\ deltas'[i].key = k
    BY <1>7 DEF LastDelta
  <2>2. ASSUME NEW j \in DOMAIN deltas, j > i + 1 PROVE deltas[j].key # k
    <3>1. j - 1 \in DOMAIN deltas' /\ (j - 1) + 1 = j /\ j - 1 > i
      BY <1>4, <2>1, <2>2
    <3>2. deltas'[j - 1] = deltas[j]
      BY <1>4, <3>1
    <3> QED  BY <1>7, <3>1, <3>2 DEF LastDelta
  <2> QED  BY <1>4, <2>1, <2>2 DEF LastDelta
<1>8. Told'
  <2> SUFFICES ASSUME NEW k \in Keys, Settled(k)' PROVE Announced(k, twin[k])'
    BY DEF Told
  <2>1. Announced(k, twin[k])
    BY <1>1, <1>6 DEF Told
  <2>2. CASE InHand(k)
    BY <1>5, <1>6, <2>1, <2>2 DEF Announced
  <2>3. CASE ~InHand(k)
    BY <1>5, <1>6, <1>7, <2>1, <2>3 DEF Announced
  <2> QED  BY <2>2, <2>3
<1>9. ASSUME NEW k \in Keys, Settled(k), ~InHand(k), ~InDeltas(k)'
      PROVE  IF k = e.key THEN e.value = twin[k] ELSE ~InDeltas(k)
  <2>1. \A j \in DOMAIN deltas : j # 1 => deltas[j].key # k
    BY <1>4, <1>9 DEF InDeltas
  <2>2. CASE k = e.key
    <3>1. 1 \in LastDelta(k)
      BY <1>3, <1>4, <2>1, <2>2 DEF LastDelta
    <3>2. Announced(k, twin[k])
      BY <1>1, <1>9 DEF Told
    <3> QED  BY <1>3, <1>9, <2>2, <3>1, <3>2 DEF Announced
  <2>3. CASE k # e.key
    BY <1>3, <2>1, <2>3 DEF InDeltas
  <2> QED  BY <2>2, <2>3
<1>10. NothingMissed'
  <2> SUFFICES ASSUME NEW c \in Clients, NEW k \in Keys, session'[c] = "joined", Settled(k)',
                      k \notin missed'[c]
               PROVE  Coming(c, k, twin[k])'
    BY DEF NothingMissed
  <2>1. CASE InHand(k)' \/ InDeltas(k)'
    BY <1>8, <2>1 DEF Told, Coming
  <2>2. CASE ~InHand(k)' /\ ~InDeltas(k)'
    <3>1. Settled(k) /\ ~InHand(k) /\ session[c] = "joined" /\ InRoom(c)
      BY <1>5, <1>6, <2>2 DEF InRoom, Room, Session
    <3>2. wire'[c] = Append(wire[c], d) /\ view'[c] = view[c]
      BY <1>5, <3>1
    <3>3. Shown(c, k, twin[k])'
      <4>1. CASE k = e.key
        <5>1. \A v : v = d[k] => Shown(c, k, v)'
          BY <1>1, <1>3, <3>2, <4>1, SentTells
        <5>2. d[k] = twin[k] /\ twin' = twin
          BY <1>3, <1>5, <1>9, <2>2, <3>1, <4>1
        <5> QED  BY <5>1, <5>2 DEF Shown
      <4>2. CASE k # e.key
        <5>1. k \notin missed[c]
          BY <1>5
        <5>2. Shown(c, k, twin[k])
          BY <1>1, <1>9, <2>2, <3>1, <4>2, <5>1 DEF NothingMissed, Coming
        <5>3. Shown(c, k, twin[k]) => \A v : v = twin[k] => Shown(c, k, v)'
          BY <1>1, <1>3, <3>2, <4>2, SentTells
        <5> QED  BY <1>5, <5>2, <5>3
      <4> QED  BY <4>1, <4>2
    <3> QED  BY <2>2, <3>3 DEF Coming
  <2> QED  BY <2>1, <2>2
<1>11. SnapshotTells'
  <2> SUFFICES ASSUME NEW c \in Clients, NEW k \in Keys, HasRead(c, k)', Settled(k)',
                      k \notin missed'[c], ~InHand(k)', ~InDeltas(k)'
               PROVE  snap'[c][k] = twin'[k]
    BY DEF SnapshotTells
  <2>1. Settled(k) /\ ~InHand(k) /\ HasRead(c, k) /\ k \notin missed[c]
    BY <1>5, <1>6 DEF HasRead
  <2>2. CASE k = e.key
    BY <1>5, <1>9, <2>1, <2>2
  <2>3. CASE k # e.key
    BY <1>1, <1>5, <1>9, <2>1, <2>3 DEF SnapshotTells
  <2> QED  BY <2>2, <2>3
<1> QED  BY <1>8, <1>10, <1>11

LEMMA InitInv == Init => Inv
<1> SUFFICES ASSUME Init PROVE Inv
  OBVIOUS
<1>1. TypeOK
  <2>1. reported \in [Keys -> Values \cup {Absent}] /\ twin \in [Keys -> Values \cup {Absent}]
    BY DEF Init, Nothing
  <2>2. snap \in [Clients -> [Keys -> Values \cup {Absent}]] /\ view \in [Clients -> [Keys -> Values \cup {Absent}]]
    BY DEF Init, Nothing
  <2>3. events \in Seq(Entry) /\ deltas \in Seq(Entry) /\ wire \in [Clients -> Seq(Message)]
    BY DEF Init
  <2>4. session \in [Clients -> Session] /\ missed \in [Clients -> SUBSET Keys] /\ faults \in 0 .. MaxFaults
    BY TwinBounds DEF Init, Session
  <2> QED  BY <2>1, <2>2, <2>3, <2>4 DEF Init, TypeOK
<1>2. \A k \in Keys : ~Settled(k)
  BY DEF Init, Settled, Nothing
<1> QED  BY <1>1, <1>2 DEF Inv, NothingMissed, Told, SnapshotTells

LEMMA InvStep == ASSUME Inv, [Next]_vars PROVE Inv'
<1>1. TypeOK /\ TypeOK' /\ NothingMissed /\ Told /\ SnapshotTells
  BY TypeStep DEF Inv
<1>2. CASE UNCHANGED vars
  BY <1>1, <1>2 DEF Inv, vars, sources, server, fanout, screens, history, NothingMissed, Told, SnapshotTells,
                    Settled, Unconfirmed, Coming, Announced, Shown, InHand, InDeltas, IsSent, LastDelta,
                    LastSent, HasRead
<1>3. CASE Emit
  BY <1>1, <1>3, EmitStep DEF Inv
<1>4. CASE Next /\ ~Emit
  <2>1. ASSUME NEW k \in Keys, Settled(k)', StoreOf(k) PROVE InHand(k)' /\ Announced(k, twin[k])'
    BY <1>1, <2>1, StoreTells
  <2>2. ASSUME NEW k \in Keys, Settled(k)', ~StoreOf(k)
        PROVE  /\ Settled(k) /\ twin'[k] = twin[k]
               /\ InHand(k)' \/ InDeltas(k)' <=> InHand(k) \/ InDeltas(k)
    BY <1>1, <1>4, <2>2, StillSettled, ChannelStep
  <2>3. Told'
    <3> SUFFICES ASSUME NEW k \in Keys, Settled(k)' PROVE Announced(k, twin[k])'
      BY DEF Told
    <3>1. CASE ~StoreOf(k)
      <4>1. Announced(k, twin[k])
        BY <1>1, <2>2, <3>1 DEF Told
      <4>2. \A v : Announced(k, v) => Announced(k, v)'
        BY <1>1, <1>4, <3>1, ChannelStep
      <4> QED  BY <2>2, <3>1, <4>1, <4>2 DEF Announced
    <3> QED  BY <2>1, <3>1
  <2>4. NothingMissed'
    <3> SUFFICES ASSUME NEW c \in Clients, NEW k \in Keys, session'[c] = "joined", Settled(k)',
                        k \notin missed'[c]
                 PROVE  Coming(c, k, twin[k])'
      BY DEF NothingMissed
    <3>1. CASE InHand(k)' \/ InDeltas(k)'
      BY <2>3, <3>1 DEF Told, Coming
    <3>2. CASE ~InHand(k)' /\ ~InDeltas(k)'
      <4>1. ~StoreOf(k)
        BY <2>1, <3>2
      <4>2. Settled(k) /\ twin'[k] = twin[k] /\ ~InHand(k) /\ ~InDeltas(k)
        BY <2>2, <3>2, <4>1
      <4>3. k \notin missed[c]
        BY <1>1, <1>4, <4>1, JoinedStep
      <4>4. CASE session[c] = "joined" /\ \A v : Shown(c, k, v) => Shown(c, k, v)'
        <5>1. Shown(c, k, twin[k])
          BY <1>1, <4>2, <4>3, <4>4 DEF NothingMissed, Coming
        <5> QED  BY <3>2, <4>2, <4>4, <5>1 DEF Coming, Shown
      <4>5. CASE HasRead(c, k) /\ (\A v : v = snap[c][k] => Shown(c, k, v)')
        <5>1. snap[c][k] = twin'[k]
          BY <1>1, <4>2, <4>3, <4>5 DEF SnapshotTells
        <5> QED  BY <3>2, <4>5, <5>1 DEF Coming, Shown
      <4> QED  BY <1>1, <1>4, <4>1, <4>4, <4>5, JoinedStep
    <3> QED  BY <3>1, <3>2
  <2>5. SnapshotTells'
    <3> SUFFICES ASSUME NEW c \in Clients, NEW k \in Keys, HasRead(c, k)', Settled(k)',
                        k \notin missed'[c], ~InHand(k)', ~InDeltas(k)'
                 PROVE  snap'[c][k] = twin'[k]
      BY DEF SnapshotTells
    <3>1. ~StoreOf(k)
      BY <2>1
    <3>2. Settled(k) /\ twin'[k] = twin[k] /\ ~InHand(k) /\ ~InDeltas(k)
      BY <2>2, <3>1
    <3> QED  BY <1>1, <1>4, <3>1, <3>2, ReadStep DEF SnapshotTells
  <2> QED  BY <1>1, <2>3, <2>4, <2>5 DEF Inv
<1> QED  BY <1>2, <1>3, <1>4

\* The joins of any number of dashboards interleave with any number of
\* stores, announcements, heartbeats and failures: a dashboard that has
\* joined shows what is stored, or it is on its way to it.
THEOREM InvCorrect == Spec => []Inv
<1>1. Init => Inv
  BY InitInv
<1>2. Inv /\ [Next]_vars => Inv'
  BY InvStep
<1> QED  BY <1>1, <1>2, PTL DEF Spec
=============================================================================
