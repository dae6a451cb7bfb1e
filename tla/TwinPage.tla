------------------------------ MODULE TwinPage ------------------------------
(***************************************************************************)
(* The page that shows the floor plan (DigitalTwin.tsx).  It has two       *)
(* sources that know nothing of each other: a fetch over HTTP when it is   *)
(* opened, and useTwinStore, which follows the socket (TwinSync says how)  *)
(* and outlives the page.  Robots are replaced by the store's, bins only   *)
(* updated from it, and both replaced by the fetch whenever it arrives.  A *)
(* hash that expires is left out.                                          *)
(***************************************************************************)
EXTENDS Naturals, Sequences, Functions

CONSTANTS
    Movers, Places, \* robots and bins of the warehouse
    Nothing,
    MaxPayload,     \* bound: changes of a key's payload
    MaxWire,        \* bound: messages on the way
    MaxVisits       \* bound: times the page is opened

ASSUME PageBounds ==
    MaxPayload \in Nat \ {0} /\ {MaxWire, MaxVisits} \subseteq Nat /\ Movers \cap Places = {}

VARIABLES
    stored, \* the twin's payloads, numbered; 0 is none
    room,   \* the socket: out of the room, entered, or told the snapshot
    wire,   \* messages on the way
    copy,   \* useTwinStore
    fetch,  \* what the page's fetch has, or Nothing
    floor,  \* the page's robots and bins, as key -> payload
    rescan, \* the bin a rescan is asked for
    setBack, \* history: keys a fetch or a rescan has set back
    visits

floorPlan == <<stored, room, wire, copy, fetch, floor, rescan, setBack, visits>>

Items   == Movers \cup Places
Payload == 0 .. MaxPayload
Filled(f, S) == Restrict(f, {k \in S : f[k] # 0})

TwinPageTypeOK ==
    /\ stored \in [Items -> Payload] /\ copy \in [Items -> Payload]
    /\ room \in {"out", "entered", "joined"} /\ Len(wire) <= MaxWire
    /\ DOMAIN floor.robots \subseteq Movers /\ DOMAIN floor.bins \subseteq Places
    /\ Range(floor.robots) \cup Range(floor.bins) \subseteq Payload
    /\ rescan \in Places \cup {Nothing} /\ setBack \subseteq Items /\ visits \in 0 .. MaxVisits

\* The page is not open; the store may hold what an earlier visit left.
TwinPageInit ==
    /\ stored \in [Items -> 0 .. 1] /\ copy \in {stored, [k \in Items |-> 0]}
    /\ room = "out" /\ wire = <<>> /\ fetch = Nothing /\ rescan = Nothing
    /\ floor = [robots |-> <<>>, bins |-> <<>>] /\ setBack = {} /\ visits = 0

-----------------------------------------------------------------------------
(* The twin, as TwinSync has it for a client that misses nothing.          *)

TwinChanges(k) ==
    /\ stored[k] < MaxPayload /\ stored' = [stored EXCEPT ![k] = @ + 1]
    /\ IF room = "out" THEN UNCHANGED wire
       ELSE Len(wire) < MaxWire /\ wire' = Append(wire, [x \in {k} |-> stored'[k]])
    /\ UNCHANGED <<room, copy, fetch, floor, rescan, setBack, visits>>

Enter ==
    /\ visits > 0 /\ room = "out" /\ room' = "entered"
    /\ UNCHANGED <<stored, wire, copy, fetch, floor, rescan, setBack, visits>>

SendSnapshot ==
    /\ room = "entered" /\ room' = "joined"
    /\ Len(wire) < MaxWire /\ wire' = Append(wire, stored)
    /\ UNCHANGED <<stored, copy, fetch, floor, rescan, setBack, visits>>

Cut ==
    /\ room # "out" /\ room' = "out" /\ wire' = <<>>
    /\ UNCHANGED <<stored, copy, fetch, floor, rescan, setBack, visits>>

-----------------------------------------------------------------------------
(* The store's messages and the effects they run.                          *)

\* The whole list is the store's, once that has a robot ...
RobotsShown(c) == IF Filled(c, Movers) = <<>> THEN floor.robots ELSE Filled(c, Movers)

\* ... of the bins, those that are there already.
Bins(c) == [b \in DOMAIN floor.bins |-> IF c[b] = 0 THEN floor.bins[b] ELSE c[b]]

\* Variant: the store fills in what is unscanned.
FillIn(c) == [b \in DOMAIN floor.bins |-> IF floor.bins[b] = 0 THEN c[b] ELSE floor.bins[b]]

\* A snapshot replaces both maps, a delta sets one entry of one.
Receive ==
    /\ wire # <<>> /\ wire' = Tail(wire)
    /\ LET told == DOMAIN Head(wire) IN
       /\ copy' = [k \in Items |-> IF k \in told THEN Head(wire)[k] ELSE copy[k]]
       /\ floor' = [robots |-> IF told \cap Movers = {} THEN floor.robots ELSE RobotsShown(copy'),
                    bins   |-> IF told \cap Places = {} THEN floor.bins ELSE Bins(copy')]
       /\ setBack' = setBack \ UNION {S \in {Movers, Places} : told \cap S # {}}
    /\ UNCHANGED <<stored, room, fetch, rescan, visits>>

-----------------------------------------------------------------------------
(* The page.                                                               *)

\* Opened anew: what the store has of an earlier visit is shown at once, and
\* the socket is another.
Open ==
    /\ visits < MaxVisits /\ visits' = visits + 1
    /\ fetch' = [bins |-> "asked", robots |-> "asked", has |-> [k \in Items |-> 0]]
    /\ floor' = [robots |-> Filled(copy, Movers), bins |-> <<>>]
    /\ room' = "out" /\ wire' = <<>> /\ rescan' = Nothing /\ setBack' = {}
    /\ UNCHANGED <<stored, copy>>

\* Each half is read by a route of its own, and either may fail.
RouteReads(half, keys) ==
    /\ fetch # Nothing /\ fetch[half] = "asked"
    /\ \/ fetch' = [fetch EXCEPT ![half] = "answered",
                            !.has = [k \in Items |-> IF k \in keys THEN stored[k] ELSE @[k]]]
       \/ fetch' = [fetch EXCEPT ![half] = "failed"]
    /\ UNCHANGED <<stored, room, wire, copy, floor, rescan, setBack, visits>>

Older(keys) == {k \in keys : fetch.has[k] < copy[k]}

\* When both have settled: a failed one leaves no bins, and has the robots
\* asked of the mission routes.
FetchArrives ==
    /\ fetch # Nothing /\ "asked" \notin {fetch.bins, fetch.robots}
    /\ fetch.robots # "elsewhere"
    /\ floor' = [robots |-> IF fetch.robots = "failed" THEN floor.robots
                            ELSE Filled(fetch.has, Movers),
                 bins   |-> Filled(fetch.has, Places)]
    /\ setBack' = (setBack \ Places) \cup Older(Places)
                 \cup (IF fetch.robots = "failed" THEN {} ELSE Older(Movers))
    /\ fetch' = IF fetch.robots = "failed" THEN [fetch EXCEPT !.robots = "elsewhere"] ELSE Nothing
    /\ UNCHANGED <<stored, room, wire, copy, rescan, visits>>

\* Rows of another table, or none, in place of whatever robots were shown.
RobotsElsewhere ==
    /\ fetch # Nothing /\ fetch.robots = "elsewhere" /\ fetch' = Nothing
    /\ \E shown \in {{}, Movers} : floor' = [floor EXCEPT !.robots = [r \in shown |-> 0]]
    /\ setBack' = setBack \cup Movers
    /\ UNCHANGED <<stored, room, wire, copy, rescan, visits>>

HandleRescan(b) ==
    /\ b \in DOMAIN floor.bins /\ rescan = Nothing /\ rescan' = b
    /\ UNCHANGED <<stored, room, wire, copy, fetch, floor, setBack, visits>>

\* UNSCANNED until the store's bins change, whichever of them it is.
RescanAnswered ==
    /\ rescan # Nothing /\ rescan' = Nothing
    /\ \/ /\ rescan \in DOMAIN floor.bins
          /\ floor' = [floor EXCEPT !.bins[rescan] = 0] /\ setBack' = setBack \cup {rescan}
       \/ UNCHANGED <<floor, setBack>>
    /\ UNCHANGED <<stored, room, wire, copy, fetch, visits>>

TwinPageNext ==
    \/ \E k \in Items : TwinChanges(k)
    \/ Enter \/ SendSnapshot \/ Cut \/ Receive
    \/ Open \/ RouteReads("bins", Places) \/ RouteReads("robots", Movers)
    \/ FetchArrives \/ RobotsElsewhere \/ RescanAnswered
    \/ \E b \in Places : HandleRescan(b)

-----------------------------------------------------------------------------
(* Properties.                                                             *)

\* When nothing is under way between the twin and an open page, every robot
\* and every bin on its plan is shown as the twin has it, however snapshot,
\* deltas, both fetches and rescans were interleaved, but for what an answer
\* older than the store's entry, the mission routes or a rescan put there
\* since the last message of its kind (DigitalTwin.tsx's three effects).
PlanShows ==
    room = "joined" /\ wire = <<>> /\ fetch = Nothing =>
        /\ \A r \in Movers \ setBack : stored[r] # 0 =>
               r \in DOMAIN floor.robots /\ floor.robots[r] = stored[r]
        /\ \A b \in DOMAIN floor.bins \ setBack : floor.bins[b] = stored[b]

TwinPageInv == TwinPageTypeOK /\ PlanShows
=============================================================================
