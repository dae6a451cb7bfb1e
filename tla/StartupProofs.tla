---------------------------- MODULE StartupProofs ----------------------------
(***************************************************************************)
(* Proofs about the topology routes and the start of the unified service,  *)
(* for every sheet and all clients, callers, robots and bounds.            *)
(***************************************************************************)
EXTENDS Startup, TLAPS

-----------------------------------------------------------------------------
(* The products and their places.                                          *)

Stock == products \subseteq Skus /\ inventory \subseteq Row /\ placed \subseteq Row
         /\ caller \in [Callers -> Call] /\ faults \in 0 .. MaxFaults
         /\ PlaceKept /\ CallsKnow

LEMMA NoCallType == NoCall \in Call /\ NoCall.at = "idle"
BY DEF NoCall, Call

\* A call that ends, or begins or goes on with what its rules ask for, while
\* the rows stay.
LEMMA CallStep ==
    ASSUME Stock, NEW c \in Callers, NEW q \in Call,
           caller' = [caller EXCEPT ![c] = q],
           UNCHANGED <<products, inventory, placed>>, faults' \in 0 .. MaxFaults,
           q.at \in {"create", "place"} => q.skus # {},
           q.at = "place" => q.place \in Places,
           q.at = "products" => \A row \in q.gone : row[1] \in q.skus
    PROVE  Stock'
<1>1. caller' \in [Callers -> Call]
  BY DEF Stock
<1>2. CallsKnow'
  <2> SUFFICES ASSUME NEW d \in Callers
               PROVE  LET p == caller'[d] IN
                      /\ p.at \in {"create", "place"} => p.skus # {}
                      /\ p.at = "place" => p.place \in Places
                      /\ p.at = "products" => \A row \in p.gone : row[1] \in p.skus
    BY DEF CallsKnow
  <2>1. caller'[d] = IF d = c THEN q ELSE caller[d]
    BY DEF Stock
  <2> QED  BY <2>1 DEF Stock, CallsKnow
<1> QED  BY <1>1, <1>2 DEF Stock, PlaceKept

\* create_product and delete_products (topology_router.py).
LEMMA ProductsKeep ==
    ASSUME Stock, NEW c \in Callers, Products(c)
    PROVE  Stock'
<1>1. /\ products \subseteq Skus /\ inventory \subseteq Row /\ placed \subseteq Row
      /\ caller \in [Callers -> Call] /\ faults \in 0 .. MaxFaults /\ PlaceKept /\ CallsKnow
  BY DEF Stock
<1>2. caller[c] \in Call
  BY <1>1
<1>3. CASE CommitProduct(c)
  <2>1. caller[c].at = "create" /\ caller[c].skus # {} /\ caller[c].skus \subseteq Skus /\ faults' = faults
        /\ UNCHANGED <<inventory, placed>> /\ (products' = products \/ products' = products \cup caller[c].skus)
    BY <1>1, <1>2, <1>3 DEF CommitProduct, CallsKnow, Call
  <2>2. products' \subseteq Skus /\ products \subseteq products'
    BY <1>1, <2>1
  <2>3. PICK q \in {NoCall, [caller[c] EXCEPT !.at = "place"]} :
              /\ caller' = [caller EXCEPT ![c] = q]
              /\ q.at = "place" => caller[c].place # None
    BY <1>3, NoCallType DEF CommitProduct
  <2>4. q \in Call /\ (q.at \in {"create", "place"} => q.skus # {}) /\ q.at # "products"
        /\ (q.at = "place" => q.place \in Places)
    BY <1>2, <2>1, <2>3, NoCallType DEF Call
  <2>5. caller' \in [Callers -> Call] /\ \A d \in Callers : caller'[d] = IF d = c THEN q ELSE caller[d]
    BY <1>1, <2>3, <2>4
  <2>6. CallsKnow'
    BY <1>1, <2>4, <2>5 DEF CallsKnow
  <2>7. PlaceKept'
    BY <1>1, <2>1, <2>2 DEF PlaceKept
  <2> QED  BY <1>1, <2>1, <2>2, <2>5, <2>6, <2>7 DEF Stock
<1>4. CASE PlaceProduct(c)
  <2> DEFINE s == CHOOSE s \in caller[c].skus : TRUE
             row == <<s, caller[c].place>>
  <2>1. caller[c].at = "place" /\ s \in caller[c].skus /\ caller[c].skus \subseteq Skus /\ caller[c].place \in Places
    BY <1>1, <1>2, <1>4 DEF PlaceProduct, CallsKnow, Call
  <2>2. row \in Row /\ row[1] = s
    BY <2>1 DEF Row
  <2>3. \/ UNCHANGED <<inventory, placed>>
        \/ s \in products /\ inventory' = inventory \cup {row} /\ placed' = placed \cup {row}
    BY <1>4, <2>1 DEF PlaceProduct
  <2>4. products' = products /\ faults' = faults /\ caller' = [caller EXCEPT ![c] = NoCall]
    BY <1>4 DEF PlaceProduct
  <2> HIDE DEF s, row
  <2>5. inventory' \subseteq Row /\ placed' \subseteq Row /\ PlaceKept'
    BY <1>1, <2>2, <2>3, <2>4 DEF PlaceKept
  <2>6. caller' \in [Callers -> Call] /\ \A d \in Callers : caller'[d] = IF d = c THEN NoCall ELSE caller[d]
    BY <1>1, <2>4, NoCallType
  <2>7. CallsKnow'
    BY <1>1, <2>6, NoCallType DEF CallsKnow
  <2> QED  BY <1>1, <2>4, <2>5, <2>6, <2>7 DEF Stock
<1>5. CASE DeleteInventory(c)
  <2> DEFINE q == [caller[c] EXCEPT !.at = "products", !.gone = RowsOf(caller[c].skus)]
  <2>1. RowsOf(caller[c].skus) \subseteq Row /\ \A row \in RowsOf(caller[c].skus) : row[1] \in caller[c].skus
    BY <1>1 DEF RowsOf
  <2>2. q \in Call /\ q.at = "products" /\ \A row \in q.gone : row[1] \in q.skus
    <3>1. RowsOf(caller[c].skus) \in SUBSET Row
      BY <2>1
    <3>2. q \in Call /\ q.at = "products" /\ q.gone = RowsOf(caller[c].skus) /\ q.skus = caller[c].skus
      BY <1>2, <3>1 DEF Call
    <3> QED  BY <2>1, <3>2
  <2>3. caller' = [caller EXCEPT ![c] = q] /\ UNCHANGED <<products, inventory, placed, faults>>
    BY <1>5 DEF DeleteInventory
  <2> HIDE DEF q
  <2> QED  BY <1>1, <2>2, <2>3, CallStep
<1>6. CASE DeleteProducts(c)
  <2>1. caller' = [caller EXCEPT ![c] = NoCall] /\ faults' = faults
        /\ caller[c].at = "products" /\ \A row \in caller[c].gone : row[1] \in caller[c].skus
    BY <1>1, <1>6 DEF DeleteProducts, CallsKnow, shelves
  <2>2. CASE UNCHANGED <<products, inventory, placed>>
    BY <1>1, <2>1, <2>2, NoCallType, CallStep
  <2>3. CASE /\ RowsOf(caller[c].skus) \subseteq caller[c].gone
             /\ products' = products \ caller[c].skus
             /\ inventory' = inventory \ caller[c].gone
             /\ placed' = {row \in placed : row[1] \notin caller[c].skus}
    <3>1. products' \subseteq Skus /\ inventory' \subseteq Row /\ placed' \subseteq Row
      BY <1>1, <2>3
    <3>2. PlaceKept'
      BY <1>1, <2>1, <2>3 DEF PlaceKept, RowsOf
    <3>3. caller' \in [Callers -> Call] /\ \A d \in Callers : caller'[d] = IF d = c THEN NoCall ELSE caller[d]
      BY <1>1, <2>1, NoCallType
    <3>4. CallsKnow'
      BY <1>1, <3>3, NoCallType DEF CallsKnow
    <3> QED  BY <1>1, <2>1, <3>1, <3>2, <3>3, <3>4 DEF Stock
  <2> QED  BY <1>6, <2>2, <2>3 DEF DeleteProducts
<1> QED  BY <1>3, <1>4, <1>5, <1>6 DEF Products

LEMMA EditKeeps ==
    ASSUME Stock, NEW c \in Callers, Edit(c) \/ CallFails(c)
    PROVE  Stock'
<1>1. CASE CallFails(c)
  <2>1. faults' \in 0 .. MaxFaults
    BY <1>1, TopologyAssumption DEF CallFails, Stock
  <2> QED  BY <1>1, <2>1, NoCallType, CallStep DEF CallFails
<1>2. ASSUME NEW s \in Skus, NEW p \in Places \cup {None}, BeginCreate(c, s, p) PROVE Stock'
  <2> DEFINE q == [NoCall EXCEPT !.at = "create", !.skus = {s}, !.place = p]
  <2>1. q \in Call /\ q.at = "create" /\ q.skus # {}
    BY DEF NoCall, Call
  <2>2. caller' = [caller EXCEPT ![c] = q] /\ UNCHANGED <<products, inventory, placed, faults>>
    BY <1>2 DEF BeginCreate
  <2>3. faults' \in 0 .. MaxFaults
    BY <2>2 DEF Stock
  <2> HIDE DEF q
  <2> QED  BY <2>1, <2>2, <2>3, CallStep
<1>3. ASSUME NEW S \in SUBSET Skus, BeginDelete(c, S) PROVE Stock'
  <2> DEFINE q == [NoCall EXCEPT !.at = "delete", !.skus = S]
  <2>1. q \in Call /\ q.at = "delete"
    BY DEF NoCall, Call
  <2>2. caller' = [caller EXCEPT ![c] = q] /\ UNCHANGED <<products, inventory, placed, faults>>
    BY <1>3 DEF BeginDelete
  <2>3. faults' \in 0 .. MaxFaults
    BY <2>2 DEF Stock
  <2> HIDE DEF q
  <2> QED  BY <2>1, <2>2, <2>3, CallStep
<1> QED  BY <1>1, <1>2, <1>3 DEF Edit

\* The sheet's seeder (warehouse_seeder.py).
LEMMA SeedKeeps ==
    ASSUME Stock, SeedSheet
    PROVE  Stock'
<1>1. SheetRows \subseteq Row /\ DOMAIN SheetPlace \subseteq Skus
      /\ \A row \in SheetRows : row[1] \in DOMAIN SheetPlace
  BY TopologyAssumption DEF SheetRows, Row
<1>2. /\ products' = products \cup DOMAIN SheetPlace /\ inventory' = inventory \cup SheetRows
      /\ UNCHANGED <<caller, placed, faults>>
  BY DEF SeedSheet
<1>3. PlaceKept'
  BY <1>1, <1>2 DEF Stock, PlaceKept
<1> QED  BY <1>1, <1>2, <1>3 DEF Stock, CallsKnow

-----------------------------------------------------------------------------
(* The start of the process, its clients and its robots.                   *)

Serving ==
    /\ schema \in {"none", "init", "orm"} /\ zones \in Tree /\ cache \in Tree \cup {None}
    /\ reader \in [Readers -> Read]

Process ==
    /\ app \in {"down", "tables", "serving"} /\ restarts \in 0..MaxRestarts
    /\ bg \in {"none", "redis", "auth", "sheet", "twin", "ready", "failed"}
    /\ tries \in 0..(MaxTables + MaxPings)
    /\ robot \in [Robots -> {"off", "fetch", "asked", "running"}]
    /\ bins \subseteq Robots /\ missed \subseteq Robots
    /\ {seeded, early} \subseteq BOOLEAN

LEMMA InvParts ==
    /\ Inv <=> Stock /\ Serving /\ Process /\ Ordered /\ SheetShown
    /\ Inv' <=> Stock' /\ Serving' /\ Process' /\ Ordered' /\ SheetShown'
BY DEF Inv, TypeOK, TopologyType, Stock, Serving, Process

LEMMA StockStays ==
    ASSUME Stock, UNCHANGED <<products, inventory, placed, caller>>, faults' \in 0 .. MaxFaults
    PROVE  Stock'
BY DEF Stock, PlaceKept, CallsKnow

LEMMA Bounds ==
    /\ MaxTables \in Nat \ {0} /\ MaxPings \in Nat \ {0} /\ MaxRestarts \in Nat
    /\ MaxFaults \in Nat /\ Robots \subseteq Readers /\ NoRead \in Read
    /\ NoRead.at = "idle" /\ NoRead.seen = None
BY StartupAssumption, TopologyAssumption DEF NoRead, Read

\* Steps of the lifespan and of the background task (main.py).
LEMMA StartKeeps ==
    ASSUME Inv, Boot \/ CreateTables \/ RunCreateAll \/ Background
    PROVE  Inv'
<1>1. Stock /\ Serving /\ Process /\ Ordered /\ SheetShown
  BY InvParts
<1>2. faults \in 0 .. MaxFaults
  BY <1>1 DEF Stock
<1>3. ASSUME Boot \/ CreateTables \/ RunCreateAll \/ Ping \/ SeedAuth \/ StartTwin PROVE Inv'
  <2>1. UNCHANGED <<zones, cache, reader, products, inventory, placed, caller, faults, seeded,
                    restarts, robots, early>>
    BY <1>3 DEF Boot, CreateTables, RunCreateAll, Ping, SeedAuth, StartTwin, topologyVars, store, process
  <2>2. Stock'
    BY <1>1, <1>2, <2>1, StockStays
  <2>3. Serving'
    BY <1>1, <1>3, <2>1 DEF Serving, Boot, CreateTables, RunCreateAll, Ping, SeedAuth, StartTwin, topologyVars
  <2>4. SheetShown'
    BY <1>1, <2>1 DEF SheetShown, robots
  <2>5. /\ app' \in {"down", "tables", "serving"}
        /\ bg' \in {"none", "redis", "auth", "sheet", "twin", "ready", "failed"}
    BY <1>1, <1>3 DEF Process, Boot, CreateTables, RunCreateAll, Ping, SeedAuth, StartTwin, process
  <2>6. /\ tries' \in 0..(MaxTables + MaxPings)
        /\ app' = "tables" => tries' < MaxTables
        /\ bg' = "redis" => tries' < MaxPings
        /\ app' # "serving" => bg' = "none"
    BY <1>1, <1>3, Bounds
       DEF Process, Ordered, Boot, CreateTables, RunCreateAll, Ping, SeedAuth, StartTwin, process
  <2>7. bg = "ready" => bg' = "ready"
    BY <1>1, <1>3
       DEF Process, Ordered, Boot, CreateTables, RunCreateAll, Ping, SeedAuth, StartTwin, process
  <2>8. Process' /\ Ordered'
    BY <1>1, <2>1, <2>5, <2>6, <2>7 DEF Process, Ordered, robots
  <2> QED  BY <2>2, <2>3, <2>4, <2>8, InvParts
<1>4. CASE SeedWarehouse
  <2>1. /\ bg = "sheet" /\ bg' = "twin" /\ UNCHANGED <<schema, cache, reader, app, tries, restarts, robots, early>>
        /\ zones' = zones \/ zones' = zones \cup {Main}
        /\ seeded' \in BOOLEAN
    BY <1>1, <1>4 DEF SeedWarehouse, SeedSheet, Process
  <2>2. Stock'
    <3>1. CASE SeedSheet
      BY <1>1, <3>1, SeedKeeps
    <3>2. CASE /\ schema # "init" \/ faults < MaxFaults
               /\ faults' = IF schema = "init" THEN faults + 1 ELSE faults
               /\ UNCHANGED <<schema, zones, cache, reader, store, seeded>>
      <4>1. faults' \in 0 .. MaxFaults
        BY <1>2, <3>2, Bounds
      <4> QED  BY <1>1, <3>2, <4>1, StockStays DEF store
    <3> QED  BY <1>4, <3>1, <3>2 DEF SeedWarehouse
  <2>3. Serving' /\ Process' /\ Ordered' /\ SheetShown'
    BY <1>1, <2>1 DEF Serving, Process, Ordered, SheetShown, Tree, robots
  <2> QED  BY <2>2, <2>3, InvParts
<1>5. CASE StartSimulator
  <2>1. /\ bg = "ready" /\ \A r \in Robots : robot[r] = "off"
        /\ robot' = [r \in Robots |-> "fetch"]
        /\ UNCHANGED <<topologyVars, process, bins, missed, early>>
    BY <1>5 DEF StartSimulator
  <2>2. Stock'
    BY <1>1, <1>2, <2>1, StockStays DEF topologyVars
  <2>3. Serving' /\ Process' /\ Ordered' /\ SheetShown'
    BY <1>1, <2>1 DEF Serving, Process, Ordered, SheetShown, topologyVars, process
  <2> QED  BY <2>2, <2>3, InvParts
<1> QED  BY <1>3, <1>4, <1>5 DEF Background

\* A read as its route goes on: it starts, reads, caches, fails or is
\* answered, and what it has seen has the sheet, unless that was early.
LEMMA ReadStep ==
    ASSUME Inv, NEW r \in Readers, NEW new \in Read, reader' = [reader EXCEPT ![r] = new],
           UNCHANGED <<schema, zones, products, inventory, placed, caller, process, robots>>,
           cache' \in Tree \cup {None}, early' \in BOOLEAN, early => early',
           faults' \in 0 .. MaxFaults,
           ~early' => /\ cache' # None => Main \in cache'
                      /\ new.at \in {"put", "done"} /\ new.seen # None => Main \in new.seen,
           r \in Robots /\ new.at # "idle" => robot[r] \in {"asked", "running"}
    PROVE  Inv'
<1>1. Stock /\ Serving /\ Process /\ Ordered /\ SheetShown
  BY InvParts
<1>2. Stock'
  BY <1>1, StockStays
<1>3. reader' \in [Readers -> Read] /\ \A s \in Readers : reader'[s] = IF s = r THEN new ELSE reader[s]
  BY <1>1 DEF Serving
<1>4. Serving' /\ Process'
  BY <1>1, <1>3 DEF Serving, Process, process, robots
<1>5. Ordered'
  BY <1>1, <1>3, Bounds DEF Ordered, process, robots
<1>6. SheetShown'
  BY <1>1, <1>3 DEF SheetShown, robots
<1> QED  BY <1>2, <1>4, <1>5, <1>6, InvParts

\* get_topology (topology_router.py).
LEMMA ServeKeeps ==
    ASSUME Inv, NEW r \in Readers, Ask(r) \/ Handle(r) \/ Drop(r) \/ (ReadFails(r) /\ UNCHANGED <<process, robots, early>>)
    PROVE  Inv'
<1>1. Stock /\ Serving /\ Process /\ Ordered /\ SheetShown
  BY InvParts
<1>2. /\ reader[r] \in Read /\ zones \in Tree /\ cache \in Tree \cup {None} /\ early \in BOOLEAN
      /\ faults \in 0 .. MaxFaults /\ MaxFaults \in Nat /\ reader \in [Readers -> Read]
  BY <1>1, Bounds DEF Serving, Process, Stock
<1>3. /\ ~early => /\ cache # None => Main \in cache
                   /\ reader[r].at \in {"put", "done"} /\ reader[r].seen # None => Main \in reader[r].seen
      /\ r \in Robots /\ reader[r].at # "idle" => robot[r] \in {"asked", "running"} /\ bg = "ready"
  BY <1>1 DEF SheetShown, Ordered
<1>4. CASE Ask(r)
  <2> DEFINE new == IF cache # None THEN [at |-> "done", seen |-> cache]
                    ELSE [at |-> "query", seen |-> None]
  <2>1. new \in Read /\ new.at \in {"done", "query"} /\ (new.at = "done" => new.seen = cache /\ cache # None)
    BY <1>2 DEF Read
  <2>2. /\ reader' = [reader EXCEPT ![r] = new] /\ r \notin Robots
        /\ UNCHANGED <<schema, zones, cache, faults, products, inventory, placed, caller, process, robots, early>>
    BY <1>4 DEF Ask, GetCached, tree, store
  <2> HIDE DEF new
  <2> QED  BY <1>2, <1>3, <2>1, <2>2, ReadStep
<1>5. CASE ReadTree(r) /\ Handle(r)
  <2> DEFINE new == IF schema = "init" THEN [at |-> "put", seen |-> zones]
                    ELSE [at |-> "done", seen |-> None]
  <2>1. new \in Read /\ (new.seen = zones \/ new.seen = None)
    BY <1>2 DEF Read
  <2>2. /\ reader' = [reader EXCEPT ![r] = new] /\ reader[r].at = "query"
        /\ UNCHANGED <<schema, zones, cache, faults, products, inventory, placed, caller, process, robots>>
        /\ early' = (early \/ (/\ reader[r].at = "query" /\ Main \notin zones
                               /\ r \in Robots => bg = "ready"))
    BY <1>5 DEF Handle, ReadTree, tree, store
  <2>3. early' \in BOOLEAN /\ (early => early') /\ (~early' => Main \in zones)
    BY <1>2, <1>3, <2>2
  <2> HIDE DEF new
  <2> QED  BY <1>2, <1>3, <2>1, <2>2, <2>3, ReadStep
<1>6. CASE CacheTopology(r) /\ Handle(r)
  <2> DEFINE new == [at |-> "done", seen |-> reader[r].seen]
  <2>1. new \in Read /\ new.seen = reader[r].seen /\ reader[r].seen \in Tree \cup {None}
    BY <1>2 DEF Read
  <2>2. /\ reader' = [reader EXCEPT ![r] = new] /\ reader[r].at = "put" /\ cache' = reader[r].seen
        /\ UNCHANGED <<schema, zones, faults, products, inventory, placed, caller, process, robots>>
    BY <1>6 DEF Handle, CacheTopology, tree, store
  <2>3. early' = early
    BY <1>2, <1>6, <2>2 DEF Handle
  <2> HIDE DEF new
  <2> QED  BY <1>2, <1>3, <2>1, <2>2, <2>3, ReadStep
<1>7. CASE Drop(r)
  <2>1. /\ reader' = [reader EXCEPT ![r] = NoRead]
        /\ UNCHANGED <<schema, zones, cache, faults, products, inventory, placed, caller, process, robots, early>>
    BY <1>7 DEF Drop, Answered, tree, store
  <2> QED  BY <1>2, <1>3, <2>1, Bounds, ReadStep
<1>8. CASE ReadFails(r) /\ UNCHANGED <<process, robots, early>>
  <2> DEFINE new == [at |-> "done", seen |-> None]
  <2>1. new \in Read /\ new.seen = None
    BY DEF Read
  <2>2. /\ reader' = [reader EXCEPT ![r] = new] /\ reader[r].at \in {"query", "put"}
        /\ UNCHANGED <<schema, zones, cache, products, inventory, placed, caller, process, robots, early>>
        /\ faults' \in 0 .. MaxFaults
    BY <1>2, <1>8 DEF ReadFails, store
  <2> HIDE DEF new
  <2> QED  BY <1>2, <1>3, <2>1, <2>2, ReadStep
<1> QED  BY <1>4, <1>5, <1>6, <1>7, <1>8 DEF Handle

\* EmbeddedRobotAgent.run up to its poll loop (robot_simulator.py).
LEMMA RobotKeeps ==
    ASSUME Inv, NEW r \in Robots, Robot(r) \/ HearNothing(r)
    PROVE  Inv'
<1>1. Stock /\ Serving /\ Process /\ Ordered /\ SheetShown
  BY InvParts
<1>2. /\ reader[r] \in Read /\ cache \in Tree \cup {None} /\ reader \in [Readers -> Read]
      /\ robot \in [Robots -> {"off", "fetch", "asked", "running"}]
      /\ faults \in 0 .. MaxFaults /\ MaxFaults \in Nat /\ r \in Readers
  BY <1>1, Bounds DEF Serving, Process, Stock
<1>3. CASE FetchTopology(r)
  <2> DEFINE new == IF cache # None THEN [at |-> "done", seen |-> cache]
                    ELSE [at |-> "query", seen |-> None]
  <2>1. new \in Read /\ new.at \in {"done", "query"} /\ (new.at = "done" => new.seen = cache /\ cache # None)
    BY <1>2 DEF Read
  <2>2. /\ reader' = [reader EXCEPT ![r] = new] /\ robot[r] = "fetch"
        /\ robot' = [robot EXCEPT ![r] = "asked"]
        /\ UNCHANGED <<schema, zones, cache, faults, products, inventory, placed, caller, process, bins, missed, early>>
    BY <1>3 DEF FetchTopology, GetCached, tree, store
  <2> HIDE DEF new
  <2>3. Stock'
    BY <1>1, <1>2, <2>2, StockStays
  <2>4. /\ reader' \in [Readers -> Read] /\ \A s \in Readers : reader'[s] = IF s = r THEN new ELSE reader[s]
        /\ robot' \in [Robots -> {"off", "fetch", "asked", "running"}]
        /\ \A s \in Robots : robot'[s] = IF s = r THEN "asked" ELSE robot[s]
    BY <1>2, <2>1, <2>2
  <2>5. Serving' /\ Process'
    BY <1>1, <2>2, <2>4 DEF Serving, Process, process
  <2>6. Ordered' /\ SheetShown'
    BY <1>1, <2>1, <2>2, <2>4, Bounds DEF Ordered, SheetShown, process
  <2> QED  BY <2>3, <2>5, <2>6, InvParts
<1>4. CASE Hear(r)
  <2>1. /\ reader' = [reader EXCEPT ![r] = NoRead] /\ robot[r] = "asked" /\ reader[r].at = "done"
        /\ robot' = [robot EXCEPT ![r] = "running"]
        /\ UNCHANGED <<schema, zones, cache, faults, products, inventory, placed, caller, process, early>>
        /\ \/ reader[r].seen = None /\ missed' = missed \cup {r} /\ bins' = bins
           \/ reader[r].seen # None /\ missed' = missed
              /\ bins' = IF Main \in reader[r].seen THEN bins \cup {r} ELSE bins
    BY <1>4 DEF Hear, Answered, tree, store
  <2>2. Stock'
    BY <1>1, <1>2, <2>1, StockStays
  <2>3. /\ reader' \in [Readers -> Read] /\ \A s \in Readers : reader'[s] = IF s = r THEN NoRead ELSE reader[s]
        /\ robot' \in [Robots -> {"off", "fetch", "asked", "running"}]
        /\ \A s \in Robots : robot'[s] = IF s = r THEN "running" ELSE robot[s]
    BY <1>2, <2>1, Bounds
  <2>4. Serving' /\ Process'
    BY <1>1, <2>1, <2>3 DEF Serving, Process, process
  <2>5. Ordered'
    BY <1>1, <2>1, <2>3, Bounds DEF Ordered, process
  <2>6. ~early => r \in bins' \cup missed' /\ bins \subseteq bins' /\ missed \subseteq missed'
    BY <1>1, <1>2, <2>1 DEF SheetShown
  <2>7. SheetShown'
    BY <1>1, <2>1, <2>3, <2>6, Bounds DEF SheetShown
  <2> QED  BY <2>2, <2>4, <2>5, <2>7, InvParts
<1>5. CASE HearNothing(r)
  <2>1. /\ robot[r] = "asked" /\ robot' = [robot EXCEPT ![r] = "running"] /\ missed' = missed \cup {r}
        /\ UNCHANGED <<schema, zones, cache, reader, products, inventory, placed, caller, process, bins, early>>
        /\ faults' \in 0 .. MaxFaults
    BY <1>2, <1>5 DEF HearNothing, store
  <2>2. Stock'
    BY <1>1, <2>1, StockStays
  <2>3. /\ robot' \in [Robots -> {"off", "fetch", "asked", "running"}]
        /\ \A s \in Robots : robot'[s] = IF s = r THEN "running" ELSE robot[s]
    BY <1>2, <2>1
  <2>4. Serving' /\ Process' /\ Ordered' /\ SheetShown'
    BY <1>1, <2>1, <2>3 DEF Serving, Process, Ordered, SheetShown, process
  <2> QED  BY <2>2, <2>4, InvParts
<1> QED  BY <1>3, <1>4, <1>5 DEF Robot

\* What touches neither the start nor the reads.
LEMMA RestKeeps ==
    ASSUME Inv, Stock', UNCHANGED <<reader, process, robots, early>>, schema' = schema,
           zones' \in Tree, cache' = cache \/ cache' = None
    PROVE  Inv'
<1>1. Serving' /\ Process' /\ Ordered' /\ SheetShown'
  BY InvParts DEF Serving, Process, Ordered, SheetShown, process, robots
<1> QED  BY <1>1, InvParts

\* The process dies: the tables and Redis stay.
LEMMA DieKeeps ==
    ASSUME Inv, Die
    PROVE  Inv'
<1>1. Stock /\ Serving /\ Process /\ SheetShown
  BY InvParts
<1>2. /\ UNCHANGED <<schema, zones, cache, products, inventory, placed, faults, early>>
      /\ app' = "down" /\ bg' = "none" /\ tries' = 0 /\ seeded' = FALSE /\ bins' = {} /\ missed' = {}
      /\ restarts' = restarts + 1 /\ restarts < MaxRestarts
      /\ robot' = [r \in Robots |-> "off"] /\ reader' = [r \in Readers |-> NoRead]
      /\ caller' = [c \in Callers |-> NoCall]
  BY DEF Die
<1>3. Stock'
  BY <1>1, <1>2, NoCallType DEF Stock, PlaceKept, CallsKnow
<1>4. Serving'
  BY <1>1, <1>2, Bounds DEF Serving
<1>6. Process'
  <2>1. tries' \in 0..(MaxTables + MaxPings) /\ restarts' \in 0..MaxRestarts
    BY <1>1, <1>2, Bounds DEF Process
  <2>2. {seeded', early'} \subseteq BOOLEAN
    BY <1>1, <1>2 DEF Process
  <2> QED  BY <1>1, <1>2, <2>1, <2>2 DEF Process
<1>5. Ordered' /\ SheetShown'
  BY <1>1, <1>2, Bounds DEF Ordered, SheetShown
<1> QED  BY <1>3, <1>4, <1>5, <1>6, InvParts

LEMMA NextKeeps == Inv /\ [Next]_vars => Inv'
<1> SUFFICES ASSUME Inv, [Next]_vars PROVE Inv'
  OBVIOUS
<1>1. Stock /\ Serving /\ faults \in 0 .. MaxFaults /\ zones \in Tree
  BY InvParts DEF Stock, Serving
<1>2. CASE Boot \/ CreateTables \/ RunCreateAll \/ Background
  BY <1>2, StartKeeps
<1>3. CASE \E r \in Robots : Robot(r) \/ HearNothing(r)
  BY <1>3, RobotKeeps
<1>4. CASE \E r \in Readers : Ask(r) \/ Handle(r) \/ Drop(r)
  BY <1>4, ServeKeeps
<1>5. CASE EditProducts \/ \E c \in Callers : HandleProducts(c)
  <2>1. Stock'
    BY <1>1, <1>5, EditKeeps, ProductsKeep DEF EditProducts, HandleProducts
  <2>2. UNCHANGED shelves /\ UNCHANGED <<process, robots, early>>
    BY <1>5 DEF EditProducts, HandleProducts, Edit, BeginCreate, BeginDelete, Products, CommitProduct,
                PlaceProduct, DeleteInventory, DeleteProducts
  <2> QED  BY <1>1, <2>1, <2>2, RestKeeps DEF shelves
<1>6. CASE AddZone
  <2>1. PICK z \in Codes : CreateZone(z)
    BY <1>6, TopologyAssumption DEF AddZone, SeedDemo
  <2>2. /\ zones' = zones \cup {z} /\ UNCHANGED <<schema, cache, reader, store, faults>>
        /\ UNCHANGED <<process, robots, early>>
    BY <1>6, <2>1 DEF AddZone, CreateZone
  <2>3. Stock' /\ zones' \in Tree
    BY <1>1, <2>2, StockStays DEF store, Tree
  <2> QED  BY <2>2, <2>3, RestKeeps
<1>7. CASE CacheExpires
  <2>1. cache' = None /\ UNCHANGED <<tree, reader, store, process, robots, early>>
    BY <1>7 DEF CacheExpires, Expire
  <2>2. Stock'
    BY <1>1, <2>1, StockStays DEF store, tree
  <2> QED  BY <1>1, <2>1, <2>2, RestKeeps DEF tree
<1>8. CASE Fault
  <2>1. CASE \E r \in Readers : ReadFails(r)
    BY <1>8, <2>1, ServeKeeps DEF Fault
  <2>2. CASE \E c \in Callers : CallFails(c)
    <3>1. Stock' /\ UNCHANGED shelves
      BY <1>1, <2>2, EditKeeps DEF CallFails
    <3> QED  BY <1>1, <1>8, <3>1, RestKeeps DEF Fault, shelves
  <2> QED  BY <1>8, <2>1, <2>2 DEF Fault
<1>9. CASE Die
  BY <1>9, DieKeeps
<1>10. CASE UNCHANGED vars
  <2>1. UNCHANGED <<topologyVars, process, robots, early>>
    BY <1>10 DEF vars
  <2>2. Stock'
    BY <1>1, <2>1, StockStays DEF topologyVars
  <2> QED  BY <1>1, <2>1, <2>2, RestKeeps DEF topologyVars
<1> QED  BY <1>2, <1>3, <1>4, <1>5, <1>6, <1>7, <1>8, <1>9, <1>10 DEF Next

\* A product that was created with a place keeps it until it is deleted,
\* however creations, deletions and the seeder interleave and fail half way
\* (topology_router.py, warehouse_seeder.py).
THEOREM InvCorrect == Spec => []Inv
<1>1. Init => Inv
  <2> SUFFICES ASSUME Init PROVE Inv
    OBVIOUS
  <2>1. Stock
    BY NoCallType, Bounds DEF Init, TopologyInit, Stock, PlaceKept, CallsKnow
  <2>2. Serving
    BY Bounds DEF Init, TopologyInit, Serving, Tree
  <2>4. Process
    <3>1. tries \in 0..(MaxTables + MaxPings) /\ restarts \in 0..MaxRestarts
      BY Bounds DEF Init
    <3>2. {seeded, early} \subseteq BOOLEAN
      BY DEF Init
    <3> QED  BY <3>1, <3>2 DEF Init, Process
  <2>3. Ordered /\ SheetShown
    BY Bounds DEF Init, TopologyInit, Ordered, SheetShown
  <2> QED  BY <2>1, <2>2, <2>3, <2>4, InvParts
<1> QED  BY <1>1, NextKeeps, PTL DEF Spec

\* A robot runs without the sheet's bins only if its one call failed, the
\* sheet was not seeded, or a client was early (main.py, robot_simulator.py,
\* topology_router.py).
THEOREM RobotsCorrect == Spec => []RobotsKnowSheet
<1>1. Inv => RobotsKnowSheet
  BY DEF Inv, SheetShown, RobotsKnowSheet
<1> QED  BY <1>1, InvCorrect, PTL
=============================================================================
