------------------------------ MODULE MC_ScanRun ------------------------------
\* Two racks whose names begin alike and a third, three bins, one of them
\* without an expected code; the whole warehouse, a rack and a bin.
EXTENDS ScanRun, TLC

CONSTANTS R1, R10, R2, B1, B2, B3, Q1, Q2

MCTopology == << [rack |-> R1, aisle |-> "A1", bins |-> <<B1>>],
                 [rack |-> R10, aisle |-> "A1", bins |-> <<B2>>],
                 [rack |-> R2, aisle |-> "A2", bins |-> <<B3>>] >>
MCInventory == B1 :> Q1 @@ B2 :> Q2
\* One bin's code is not its inventory's, and one has a code alone.
MCQrCode == B1 :> None @@ B2 :> Q1 @@ B3 :> Q2 @@ Demo :> None
MCScopes == { [scope |-> "full", target |-> None], [scope |-> "aisle", target |-> "A2"],
              [scope |-> "rack", target |-> R10], [scope |-> "bin", target |-> B2] }
MCWithin == (R1 :> {R1, R10}) @@ (R10 :> {R10}) @@ (R2 :> {R2})
=============================================================================
