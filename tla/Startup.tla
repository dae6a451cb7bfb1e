------------------------------- MODULE Startup -------------------------------
(***************************************************************************)
(* One process of the unified service from boot to its robots' first poll: *)
(* the lifespan makes the tables and then serves; a background task waits  *)
(* for Redis, seeds, starts the twin and at last the simulator's robots,   *)
(* which fetch the topology once, through the route that clients use all   *)
(* along.  The process may die at any time; database and Redis stay.       *)
(***************************************************************************)
EXTENDS Topology

CONSTANTS
    Robots,     \* of the readers, the simulator's
    MaxTables,  \* create_all's tries, 10 in the code
    MaxPings,   \* Redis' tries, 15 in the code
    MaxRestarts \* bound: processes after the first

ASSUME StartupAssumption ==
    Robots \subseteq Readers /\ {MaxTables, MaxPings} \subseteq Nat \ {0} /\ MaxRestarts \in Nat

VARIABLES
    app,      \* down, in lifespan before the yield (tables), or serving
    bg,       \* what _background_startup does
    tries,
    robot,    \* EmbeddedRobotAgent.run, up to its poll loop
    bins,     \* the robots that learnt the sheet's bins
    missed,   \* history: robots whose call failed
    seeded,   \* history: this process's sheet seeding committed
    early,    \* history: a client was shown a tree without the sheet
    restarts

process == <<app, bg, tries, seeded, restarts>>
robots  == <<robot, bins, missed>>
vars    == <<topologyVars, process, robots, early>>

Init ==
    /\ TopologyInit
    /\ app = "down" /\ bg = "none" /\ tries = 0 /\ restarts = 0
    /\ robot = [r \in Robots |-> "off"] /\ bins = {} /\ missed = {}
    /\ seeded = FALSE /\ early = FALSE

Boot ==
    /\ app = "down" /\ app' = "tables" /\ tries' = 0
    /\ UNCHANGED <<topologyVars, bg, seeded, restarts, robots, early>>

(* The server serves after the last failing try, too. *)
CreateTables ==
    /\ app = "tables"
    /\ \/ /\ schema' = IF schema = "none" THEN "orm" ELSE schema
          /\ app' = "serving" /\ bg' = "redis" /\ tries' = 0
       \/ /\ schema' = schema
          /\ IF tries + 1 = MaxTables THEN app' = "serving" /\ bg' = "redis" /\ tries' = 0
             ELSE app' = app /\ bg' = bg /\ tries' = tries + 1
    /\ UNCHANGED <<zones, cache, reader, store, faults, seeded, restarts, robots, early>>

RunCreateAll ==
    /\ app = "serving" /\ schema = "none" /\ schema' = "orm"
    /\ UNCHANGED <<zones, cache, reader, store, faults, process, robots, early>>

\* Variant: the tries are not counted.
PingForEver ==
    /\ bg = "redis"
    /\ \/ bg' = "auth" /\ tries' = 0
       \/ bg' = bg /\ tries' = (tries + 1) % MaxPings
    /\ UNCHANGED <<topologyVars, app, seeded, restarts, robots, early>>

Ping ==
    /\ bg = "redis"
    /\ \/ bg' = "auth" /\ tries' = 0
       \/ bg' = (IF tries + 1 = MaxPings THEN "failed" ELSE bg) /\ tries' = tries + 1
    /\ UNCHANGED <<topologyVars, app, seeded, restarts, robots, early>>

(* Both seeders keep their errors to themselves: the caller goes on. *)
SeedAuth ==
    /\ bg = "auth" /\ bg' = "sheet"
    /\ UNCHANGED <<topologyVars, app, tries, seeded, restarts, robots, early>>

SeedWarehouse ==
    /\ bg = "sheet" /\ bg' = "twin"
    /\ \/ SeedSheet /\ seeded' = TRUE
       \/ /\ schema # "init" \/ faults < MaxFaults
          /\ faults' = IF schema = "init" THEN faults + 1 ELSE faults
          /\ UNCHANGED <<schema, zones, cache, reader, store, seeded>>
    /\ UNCHANGED <<app, tries, restarts, robots, early>>

StartTwin ==
    /\ bg = "twin" /\ bg' = "ready"
    /\ UNCHANGED <<topologyVars, app, tries, seeded, restarts, robots, early>>

\* Variant: the simulator starts before the sheet is seeded.
StartSimulatorEarly ==
    /\ bg \in {"sheet", "ready"} /\ \A r \in Robots : robot[r] = "off"
    /\ robot' = [r \in Robots |-> "fetch"]
    /\ UNCHANGED <<topologyVars, process, bins, missed, early>>

StartSimulator ==
    /\ bg = "ready" /\ \A r \in Robots : robot[r] = "off"
    /\ robot' = [r \in Robots |-> "fetch"]
    /\ UNCHANGED <<topologyVars, process, bins, missed, early>>

(* Its own wait for /health to say ready ends after 60 tries in any case. *)
FetchTopology(r) ==
    /\ robot[r] = "fetch" /\ GetCached(r)
    /\ robot' = [robot EXCEPT ![r] = "asked"]
    /\ UNCHANGED <<process, bins, missed, early>>

Hear(r) ==
    /\ robot[r] = "asked" /\ Answered(r)
    /\ robot' = [robot EXCEPT ![r] = "running"]
    /\ IF reader[r].seen = None THEN missed' = missed \cup {r} /\ UNCHANGED bins
       ELSE bins' = (IF Main \in reader[r].seen THEN bins \cup {r} ELSE bins) /\ UNCHANGED missed
    /\ UNCHANGED <<process, early>>

HearNothing(r) ==
    /\ robot[r] = "asked" /\ faults < MaxFaults
    /\ robot' = [robot EXCEPT ![r] = "running"] /\ missed' = missed \cup {r}
    /\ faults' = faults + 1
    /\ UNCHANGED <<schema, zones, cache, reader, store, process, bins, early>>

Ask(r) ==
    /\ app = "serving" /\ r \notin Robots /\ GetCached(r)
    /\ UNCHANGED <<process, robots, early>>

Drop(r) ==
    /\ r \in Robots => robot[r] # "asked"
    /\ Answered(r) /\ UNCHANGED <<process, robots, early>>

Handle(r) ==
    /\ ReadTree(r) \/ CacheTopology(r)
    /\ early' = (early \/ (/\ reader[r].at = "query" /\ Main \notin zones
                           /\ r \in Robots => bg = "ready"))
    /\ UNCHANGED <<process, robots>>

Fault ==
    /\ (\E r \in Readers : ReadFails(r)) \/ (\E c \in Callers : CallFails(c))
    /\ UNCHANGED <<process, robots, early>>

EditProducts ==
    /\ app = "serving" /\ schema # "none" /\ \E c \in Callers : Edit(c)
    /\ UNCHANGED <<process, robots, early>>

HandleProducts(c) == Products(c) /\ UNCHANGED <<process, robots, early>>

AddZone ==
    /\ app = "serving" /\ (SeedDemo \/ \E z \in Codes : CreateZone(z))
    /\ UNCHANGED <<process, robots, early>>

CacheExpires == Expire /\ UNCHANGED <<process, robots, early>>

Die ==
    /\ app # "down" /\ restarts < MaxRestarts /\ restarts' = restarts + 1
    /\ app' = "down" /\ bg' = "none" /\ tries' = 0 /\ seeded' = FALSE
    /\ robot' = [r \in Robots |-> "off"] /\ bins' = {} /\ missed' = {}
    /\ reader' = [r \in Readers |-> NoRead] /\ caller' = [c \in Callers |-> NoCall]
    /\ UNCHANGED <<schema, zones, cache, products, inventory, placed, faults, early>>

Background == Ping \/ SeedAuth \/ SeedWarehouse \/ StartTwin \/ StartSimulator
Robot(r)   == FetchTopology(r) \/ Hear(r)

Next ==
    \/ Boot \/ CreateTables \/ RunCreateAll \/ Background
    \/ \E r \in Robots : Robot(r) \/ HearNothing(r)
    \/ \E r \in Readers : Ask(r) \/ Handle(r) \/ Drop(r)
    \/ EditProducts \/ \E c \in Callers : HandleProducts(c)
    \/ AddZone \/ CacheExpires \/ Fault \/ Die

(* Strong for the background task: Postgres serves the waiters of a row in *)
(* their order, so the seeder is not passed over for ever.                 *)
Fairness ==
    /\ WF_vars(Boot) /\ WF_vars(CreateTables) /\ SF_vars(Background) /\ WF_vars(CacheExpires)
    /\ \A r \in Robots : WF_vars(Robot(r))
    /\ \A r \in Readers : WF_vars(Handle(r)) /\ WF_vars(Drop(r))
    /\ \A c \in Callers : WF_vars(HandleProducts(c))

Spec == Init /\ [][Next]_vars /\ Fairness

(* A robot runs without the sheet's bins only if its one call failed, the  *)
(* sheet could not be seeded, or a client had asked before it was: then    *)
(* the cache may answer the robot with the tree of before.  Otherwise      *)
(* nobody's request and no restart comes between seeding and robots.       *)
RobotsKnowSheet ==
    \A r \in Robots : robot[r] = "running" /\ r \notin bins => r \in missed \/ early \/ ~seeded

TypeOK ==
    /\ TopologyType
    /\ app \in {"down", "tables", "serving"} /\ restarts \in 0..MaxRestarts
    /\ bg \in {"none", "redis", "auth", "sheet", "twin", "ready", "failed"}
    /\ tries \in 0..(MaxTables + MaxPings)
    /\ robot \in [Robots -> {"off", "fetch", "asked", "running"}]
    /\ bins \subseteq Robots /\ missed \subseteq Robots
    /\ {seeded, early} \subseteq BOOLEAN

(* What makes them inductive: the order of the start, ... *)
Ordered ==
    /\ app # "serving" => bg = "none"
    /\ app = "tables" => tries < MaxTables
    /\ bg = "redis" => tries < MaxPings
    /\ \A r \in Robots :
           /\ robot[r] # "off" => bg = "ready"
           /\ reader[r].at # "idle" => robot[r] \in {"asked", "running"}

(* ... and, until a client is early, a sheet in all that is cached, read    *)
(* and learnt.                                                             *)
SheetShown ==
    ~early =>
        /\ cache # None => Main \in cache
        /\ \A r \in Readers :
               reader[r].at \in {"put", "done"} /\ reader[r].seen # None => Main \in reader[r].seen
        /\ \A r \in Robots : robot[r] = "running" => r \in bins \cup missed

Inv == TypeOK /\ PlaceKept /\ CallsKnow /\ Ordered /\ SheetShown

(* Whatever requests came between, the cache ends up empty or equal to the *)
(* tree once the tree stops changing: no writer drops it, an hour does.    *)
CacheConverges == <>[](cache \in {None, zones})

(* A process that lives ends its start: without Redis it says so, with it  *)
(* all its robots come to poll, whatever seeding and fetching did.         *)
StartEnds == <>[](bg = "failed" \/ (bg = "ready" /\ \A r \in Robots : robot[r] = "running"))
=============================================================================
