------------------------------ MODULE Topology ------------------------------
(***************************************************************************)
(* The topology routes: the tree of the configured warehouse behind a      *)
(* read-through cache in Redis, and the products with their places.        *)
(*                                                                         *)
(* A zone stands for the tree below it: only the sheet's seeder ever adds  *)
(* aisles, racks, shelves and bins, in one transaction, to the zone Main.  *)
(* Of a schema made by create_all (orm) the tree stays empty: no row of    *)
(* the configured warehouse can be inserted.  Startup adds the process.    *)
(***************************************************************************)
EXTENDS Naturals, FiniteSets

CONSTANTS
    Readers,      \* whoever asks for the topology
    Callers,      \* whoever creates and deletes products
    Codes, Main,  \* zone codes; the sheet's zone
    DemoZone,     \* Z1, the code of seed_demo_warehouse
    Skus, Places, \* products, bins of the sheet
    SheetPlace,   \* the sheet: product -> bin
    None,
    MaxFaults     \* bound: failing statements and Redis calls

ASSUME TopologyAssumption ==
    /\ Main \notin Codes /\ DemoZone \in Codes /\ None \notin Places \cup Skus
    /\ DOMAIN SheetPlace \subseteq Skus /\ MaxFaults \in Nat
    /\ \A s \in DOMAIN SheetPlace : SheetPlace[s] \in Places

VARIABLES
    schema,    \* of the tables: none, init.sql's, or create_all's
    zones,     \* the committed tree
    cache,     \* the set of zones cached, or None
    reader,    \* get_topology, one call per reader
    products,  \* the rows of products
    inventory, \* the rows of inventory, <<sku, bin>>
    caller,    \* create_product or delete_products, one call per caller
    placed,    \* history: creations answered with a place, till deleted
    faults

topologyVars == <<schema, zones, cache, reader, products, inventory, caller, placed, faults>>

Tree == SUBSET (Codes \cup {Main})
Row  == Skus \X Places
Read == [at : {"idle", "query", "put", "done"}, seen : Tree \cup {None}]
Call == [at : {"idle", "create", "place", "delete", "products"},
         skus : SUBSET Skus, place : Places \cup {None}, gone : SUBSET Row]

NoRead == [at |-> "idle", seen |-> None]
NoCall == [at |-> "idle", skus |-> {}, place |-> None, gone |-> {}]

TopologyInit ==
    /\ schema \in {"none", "init"} /\ zones = {} /\ cache = None
    /\ reader = [r \in Readers |-> NoRead]
    /\ products = {} /\ inventory = {} /\ placed = {}
    /\ caller = [c \in Callers |-> NoCall]
    /\ faults = 0

(***************************************************************************)
(* get_topology: the cache answers, or the query does and its result is    *)
(* cached.  Nothing caches a warehouse that is not there (404).            *)
(***************************************************************************)
tree == <<schema, zones, faults>>
store == <<products, inventory, caller, placed>>

GetCached(r) ==
    /\ reader[r].at = "idle"
    /\ reader' = [reader EXCEPT ![r] = IF cache # None THEN [at |-> "done", seen |-> cache]
                                       ELSE [at |-> "query", seen |-> None]]
    /\ UNCHANGED <<tree, cache, store>>

ReadTree(r) ==
    /\ reader[r].at = "query"
    /\ reader' = [reader EXCEPT ![r] = IF schema = "init" THEN [at |-> "put", seen |-> zones]
                                       ELSE [at |-> "done", seen |-> None]]
    /\ UNCHANGED <<tree, cache, store>>

CacheTopology(r) ==
    /\ reader[r].at = "put"
    /\ cache' = reader[r].seen
    /\ reader' = [reader EXCEPT ![r] = [at |-> "done", seen |-> reader[r].seen]]
    /\ UNCHANGED <<tree, store>>

ReadFails(r) ==
    /\ reader[r].at \in {"query", "put"} /\ faults < MaxFaults
    /\ reader' = [reader EXCEPT ![r] = [at |-> "done", seen |-> None]]
    /\ faults' = faults + 1
    /\ UNCHANGED <<schema, zones, cache, store>>

Answered(r) ==
    /\ reader[r].at = "done"
    /\ reader' = [reader EXCEPT ![r] = NoRead]
    /\ UNCHANGED <<tree, cache, store>>

\* Variant: entries are set without an expiry.
ExpireNever == FALSE /\ UNCHANGED topologyVars

Expire ==
    /\ cache # None /\ cache' = None
    /\ UNCHANGED <<tree, reader, store>>

(***************************************************************************)
(* The writers.  None of them drops the cache: create_zone and the seeder  *)
(* do not try, and seed_demo does not come to it.                          *)
(***************************************************************************)
CreateZone(z) ==
    /\ schema = "init" /\ z \notin zones
    /\ zones' = zones \cup {z}
    /\ UNCHANGED <<schema, cache, reader, store, faults>>

\* seed_demo_warehouse: once its zone is committed it hands the zone's UUID to
\* AisleCreate, which wants a string, and raises.
SeedDemo == CreateZone(DemoZone)

Locked(row) == \E c \in Callers : caller[c].at = "products" /\ row \in caller[c].gone

SheetRows == {<<s, SheetPlace[s]>> : s \in DOMAIN SheetPlace}

SeedSheet ==
    /\ schema = "init" /\ \A row \in SheetRows : ~Locked(row)
    /\ zones' = zones \cup {Main}
    /\ products' = products \cup DOMAIN SheetPlace
    /\ inventory' = inventory \cup SheetRows
    /\ UNCHANGED <<schema, cache, reader, caller, placed, faults>>

(***************************************************************************)
(* create_product: the check, the product's own commit, then its place.    *)
(* delete_products: two statements and one commit.  A row another          *)
(* transaction has deleted and not committed is waited for.                *)
(***************************************************************************)
shelves == <<schema, zones, cache, reader>>

\* get_product_by_sku finds a row.
Existing(s) == s \in products

BeginCreate(c, s, p) ==
    /\ caller[c] = NoCall /\ ~Existing(s)
    /\ caller' = [caller EXCEPT ![c] = [NoCall EXCEPT !.at = "create", !.skus = {s}, !.place = p]]
    /\ UNCHANGED <<shelves, products, inventory, placed, faults>>

CommitProduct(c) ==
    /\ caller[c].at = "create"
    /\ IF caller[c].skus \subseteq products
       THEN caller' = [caller EXCEPT ![c] = NoCall] /\ UNCHANGED products
       ELSE /\ products' = products \cup caller[c].skus
            /\ caller' = [caller EXCEPT ![c] = IF @.place = None THEN NoCall
                                               ELSE [@ EXCEPT !.at = "place"]]
    /\ UNCHANGED <<shelves, inventory, placed, faults>>

PlaceProduct(c) ==
    LET row == <<CHOOSE s \in caller[c].skus : TRUE, caller[c].place>>
        fits == Main \in zones /\ caller[c].skus \subseteq products
    IN  /\ caller[c].at = "place" /\ ~Locked(row)
        /\ inventory' = IF fits THEN inventory \cup {row} ELSE inventory
        /\ placed' = IF fits THEN placed \cup {row} ELSE placed
        /\ caller' = [caller EXCEPT ![c] = NoCall]
        /\ UNCHANGED <<shelves, products, faults>>

BeginDelete(c, S) ==
    /\ caller[c] = NoCall
    /\ caller' = [caller EXCEPT ![c] = [NoCall EXCEPT !.at = "delete", !.skus = S]]
    /\ UNCHANGED <<shelves, products, inventory, placed, faults>>

RowsOf(S) == {row \in inventory : row[1] \in S}

\* Variant: each statement of the deletion commits on its own.
DeleteInventoryAlone(c) ==
    /\ caller[c].at = "delete"
    /\ inventory' = inventory \ RowsOf(caller[c].skus)
    /\ caller' = [caller EXCEPT ![c].at = "products", ![c].gone = RowsOf(caller[c].skus)]
    /\ UNCHANGED <<shelves, products, placed, faults>>

DeleteInventory(c) ==
    /\ caller[c].at = "delete" /\ \A row \in RowsOf(caller[c].skus) : ~Locked(row)
    /\ caller' = [caller EXCEPT ![c] = [@ EXCEPT !.at = "products",
                                                !.gone = RowsOf(caller[c].skus)]]
    /\ UNCHANGED <<shelves, products, inventory, placed, faults>>

DeleteProducts(c) ==
    /\ caller[c].at = "products"
    /\ IF RowsOf(caller[c].skus) \subseteq caller[c].gone
       THEN /\ products' = products \ caller[c].skus
            /\ inventory' = inventory \ caller[c].gone
            /\ placed' = {row \in placed : row[1] \notin caller[c].skus}
       ELSE UNCHANGED <<products, inventory, placed>>
    /\ caller' = [caller EXCEPT ![c] = NoCall]
    /\ UNCHANGED <<shelves, faults>>

CallFails(c) ==
    /\ caller[c].at # "idle" /\ faults < MaxFaults
    /\ caller' = [caller EXCEPT ![c] = NoCall]
    /\ faults' = faults + 1
    /\ UNCHANGED <<shelves, products, inventory, placed>>

Serve(r)    == GetCached(r) \/ ReadTree(r) \/ CacheTopology(r)
Products(c) == CommitProduct(c) \/ PlaceProduct(c) \/ DeleteInventory(c) \/ DeleteProducts(c)
Edit(c) ==
    \/ \E s \in Skus, p \in Places \cup {None} : BeginCreate(c, s, p)
    \/ \E S \in (SUBSET Skus) \ {{}} : BeginDelete(c, S)

TopologyType ==
    /\ schema \in {"none", "init", "orm"} /\ zones \in Tree /\ cache \in Tree \cup {None}
    /\ reader \in [Readers -> Read] /\ caller \in [Callers -> Call]
    /\ products \subseteq Skus /\ inventory \subseteq Row /\ placed \subseteq Row
    /\ faults \in 0..MaxFaults

(* A creation answered with a place: until somebody deletes the product,   *)
(* the product is there and expected in that bin, although the two rows    *)
(* are committed one after the other and deletions fail half way.          *)
PlaceKept == placed \subseteq inventory /\ \A row \in inventory : row[1] \in products

\* What makes it inductive: the products a call is about, and the rows it has
\* locked.
CallsKnow ==
    \A c \in Callers :
        LET q == caller[c] IN
        /\ q.at \in {"create", "place"} => q.skus # {}
        /\ q.at = "place" => q.place \in Places
        /\ q.at = "products" => \A row \in q.gone : row[1] \in q.skus
=============================================================================
