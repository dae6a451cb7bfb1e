------------------------- MODULE StoreForwardProofs -------------------------
(***************************************************************************)
(* What holds of the offline buffer for every number of scans, sync tasks  *)
(* and faults: the inductive invariant, the bound on the copies of a scan, *)
(* that rows are deleted only when their scans are stored, and that the    *)
(* agent and the service implement AtLeastOnce.                            *)
(***************************************************************************)
EXTENDS StoreForward, FiniteSetTheorems, TLAPS

USE StoreAssumption DEF Scans, Senders, Fault

\* A batch in flight, a held scan and a late request are under way.
LEMMA UnderWayContains ==
  ASSUME TypeOK
  PROVE  /\ batch[Main] \subseteq UnderWay
         /\ \A x \in Senders : Flying(x) \subseteq UnderWay
         /\ \A k \in Fault, x \in Senders : late[k][x] \subseteq UnderWay
  BY DEF TypeOK, UnderWay, Flying

\* A step that touches none of the four things UnderWay is made of.
LEMMA UnderWaySame ==
  ASSUME batch'[Main] = batch[Main], late' = late,
         \A x \in Senders : Flying(x)' = Flying(x)
  PROVE  UnderWay' = UnderWay
  BY DEF UnderWay

\* A batch is read from the buffer.
LEMMA OldestFromBuffer == Oldest \subseteq buffer
  BY DEF Oldest

\* Nothing but a new scan and a batch read from the buffer gets under way.
LEMMA UnderWayScan ==
  ASSUME TypeOK, MainHolds, Scan
  PROVE  UnderWay' = UnderWay \cup {taken + 1}
  BY DEF TypeOK, MainHolds, Scan, UnderWay, Flying, Pc

\* A batch that is read was in the buffer.
LEMMA UnderWayRead ==
  ASSUME TypeOK, NEW t \in Syncs, SyncRead(t)
  PROVE  UnderWay \subseteq UnderWay' /\ UnderWay' \subseteq UnderWay \cup Oldest
  BY OldestFromBuffer DEF TypeOK, SyncRead, Done, UnderWay, Flying, Pc

\* An answer ends what its request had under way.
LEMMA UnderWayAnswered ==
  ASSUME TypeOK, NEW x \in Senders, Serve(x) \/ Refuse(x) \/ ServeFails(x)
  PROVE  /\ UnderWay' \subseteq UnderWay
         /\ UnderWay \ batch[x] \subseteq UnderWay'
         /\ batch[x] \subseteq UnderWay
  <1>1. /\ pc[x] = "sent" /\ UNCHANGED <<batch, late>>
        /\ \A y \in Senders : y # x => pc'[y] = pc[y]
        /\ pc'[x] # "sent"
    BY DEF TypeOK, Serve, Refuse, ServeFails, Pc
  <1>2. batch[x] \subseteq UnderWay
    BY <1>1, UnderWayContains DEF Flying
  <1> QED BY <1>1, <1>2 DEF UnderWay, Flying

\* A late request ends, stored or lost.
LEMMA UnderWayLate ==
  ASSUME TypeOK, NEW k \in Fault, NEW x \in Senders,
         ServeLate(k, x) \/ LoseLate(k, x)
  PROVE  /\ UnderWay' \subseteq UnderWay
         /\ UnderWay \ late[k][x] \subseteq UnderWay'
         /\ late[k][x] \subseteq UnderWay
  <1>1. /\ late' = [late EXCEPT ![k][x] = {}]
        /\ batch' = batch /\ pc' = pc
    BY DEF ServeLate, LoseLate, agent
  <1>2. \A j \in Fault, y \in Senders :
           late'[j][y] = IF j = k /\ y = x THEN {} ELSE late[j][y]
    BY <1>1 DEF TypeOK
  <1>3. late[k][x] \subseteq UnderWay
    BY UnderWayContains
  <1> QED BY <1>1, <1>2, <1>3 DEF UnderWay, Flying

\* The main loop lets go of its scan.
LEMMA UnderWayLetGo ==
  ASSUME TypeOK, ScanAnswered \/ Save \/ SaveFails
  PROVE  /\ UnderWay' \subseteq UnderWay
         /\ UnderWay \ batch[Main] \subseteq UnderWay'
  BY DEF TypeOK, ScanAnswered, Save, SaveFails, Fails, Done, UnderWay, Flying,
         Pc

\* A sender that gives up adds nothing: its request becomes a late one.
LEMMA UnderWayTimeout ==
  ASSUME TypeOK, NEW x \in Senders, Timeout(x)
  PROVE  UnderWay' \subseteq UnderWay
  <1>1. /\ \A k \in Fault, y \in Senders :
              late'[k][y] = late[k][y] \/ late'[k][y] = Flying(x)
        /\ \A y \in Senders : Flying(y)' \subseteq Flying(y)
        /\ batch'[Main] \subseteq batch[Main]
    <2>1. faults + 1 \in Fault
      BY DEF TypeOK, Timeout, Fails
    <2>2. \A k \in Fault, y \in Senders :
             late'[k][y] = late[k][y] \/ late'[k][y] = Flying(x)
      BY <2>1 DEF TypeOK, Timeout
    <2>3. \A y \in Senders : Flying(y)' \subseteq Flying(y)
      BY DEF TypeOK, Timeout, Done, Flying, Pc
    <2>4. batch'[Main] \subseteq batch[Main]
      BY DEF TypeOK, Timeout, Done
    <2> QED BY <2>2, <2>3, <2>4
  <1> QED BY <1>1 DEF UnderWay

\* A crash adds nothing either.
LEMMA UnderWayCrash ==
  ASSUME TypeOK, Crash
  PROVE  UnderWay' \subseteq UnderWay
  <1>1. \A k \in Fault, y \in Senders :
           late'[k][y] = late[k][y] \/ late'[k][y] = Flying(y)
    BY DEF TypeOK, Crash, Fails
  <1>2. batch'[Main] = {} /\ \A y \in Senders : Flying(y)' = {}
    BY DEF Crash, Flying
  <1> QED BY <1>1, <1>2 DEF UnderWay

\* Storing a set of scans is what Store says of Arrived.
LEMMA StoreArrives ==
  ASSUME TypeOK, NEW S \in SUBSET Scans, Store(S)
  PROVE  /\ Arrived' = Arrived \cup S
         /\ stored' \in [Scans -> Nat]
  <1>1. \A o \in Scans : stored[o] \in Nat
    BY DEF TypeOK
  <1>2. \A o \in Scans :
           stored'[o] = IF o \in S THEN stored[o] + 1 ELSE stored[o]
    BY DEF Store
  <1>3. \A o \in Scans : /\ stored'[o] \in Nat
                         /\ stored'[o] > 0 <=> stored[o] > 0 \/ o \in S
    BY <1>1, <1>2
  <1>4. stored' \in [Scans -> Nat]
    BY <1>3 DEF Store
  <1>5. Arrived' = Arrived \cup S
    BY <1>3 DEF Arrived
  <1> QED BY <1>4, <1>5

\* The inductive invariant holds at the start.
LEMMA ShapeInit == Init => Shape
  BY DEF Init, Shape, TypeOK, MainHolds, Known, BatchSafe, UnderWay, Flying,
         Arrived, Pc

\* The inductive invariant survives every step.
LEMMA ShapeStep ==
  ASSUME Shape, [Next]_vars
  PROVE  Shape'
  <1> USE DEF Shape
  <1>1. ASSUME TurnDown
       PROVE  Shape'
    <2>1. TypeOK' /\ Arrived' = Arrived
      BY <1>1 DEF TurnDown, TypeOK, Arrived, Pc
    <2>2. MainHolds'
      BY <1>1 DEF TurnDown, TypeOK, MainHolds, Pc
    <2>3. UnderWay' = UnderWay
      BY <1>1, UnderWaySame DEF TurnDown, TypeOK, Flying, Pc
    <2>4. Known'
      BY <1>1, <2>1, <2>3 DEF TurnDown, TypeOK, Known
    <2>5. BatchSafe'
      BY <1>1, <2>1 DEF TurnDown, TypeOK, BatchSafe, Pc
    <2> QED BY <2>1, <2>2, <2>4, <2>5
  <1>2. ASSUME NEW t \in Syncs, TurnUp(t)
       PROVE  Shape'
    <2>1. TypeOK' /\ Arrived' = Arrived
      BY <1>2 DEF TurnUp, TypeOK, Arrived, Pc
    <2>2. MainHolds'
      BY <1>2 DEF TurnUp, TypeOK, MainHolds, Pc
    <2>3. UnderWay' = UnderWay
      BY <1>2, UnderWaySame DEF TurnUp, TypeOK, Flying, Pc
    <2>4. Known'
      BY <1>2, <2>1, <2>3 DEF TurnUp, TypeOK, Known
    <2>5. BatchSafe'
      BY <1>2, <2>1 DEF TurnUp, TypeOK, BatchSafe, Pc
    <2> QED BY <2>1, <2>2, <2>4, <2>5
  <1>3. ASSUME NEW t \in Syncs, SyncRead(t)
       PROVE  Shape'
    <2>1. TypeOK' /\ Arrived' = Arrived
      BY <1>3, OldestFromBuffer DEF SyncRead, Done, TypeOK, Arrived, Pc
    <2>2. MainHolds'
      BY <1>3, OldestFromBuffer DEF SyncRead, Done, TypeOK, MainHolds, Pc
    <2>4. Known'
      BY <1>3, <2>1, UnderWayRead, OldestFromBuffer DEF SyncRead, Done, Known
    <2>5. BatchSafe'
      BY <1>3, <2>1, OldestFromBuffer DEF SyncRead, Done, TypeOK, BatchSafe, Pc
    <2> QED BY <2>1, <2>2, <2>4, <2>5
  <1>4. ASSUME NEW t \in Syncs, SyncEnd(t)
       PROVE  Shape'
    <2>1. TypeOK' /\ Arrived' = Arrived
      BY <1>4 DEF SyncEnd, Done, TypeOK, Arrived, Pc
    <2>2. MainHolds'
      BY <1>4 DEF SyncEnd, Done, TypeOK, MainHolds, Pc
    <2>3. UnderWay' = UnderWay
      BY <1>4, UnderWaySame DEF SyncEnd, Done, TypeOK, Flying, Pc
    <2>4. Known'
      BY <1>4, <2>1, <2>3 DEF SyncEnd, Done, TypeOK, Known
    <2>5. BatchSafe'
      BY <1>4, <2>1 DEF SyncEnd, Done, TypeOK, BatchSafe, Pc
    <2> QED BY <2>1, <2>2, <2>4, <2>5
  <1>5. ASSUME Scan
       PROVE  Shape'
    <2>1. TypeOK' /\ Arrived' = Arrived
      <3>1. taken' \in 0 .. NumScans /\ {taken + 1} \subseteq Scans
        BY <1>5 DEF Scan, TypeOK
      <3>2. pc' \in [Senders -> Pc] /\ batch' \in [Senders -> SUBSET Scans]
        BY <1>5, <3>1 DEF Scan, TypeOK, Pc
      <3> QED BY <1>5, <3>1, <3>2 DEF Scan, TypeOK, Arrived
    <2>2. MainHolds'
      BY <1>5 DEF Scan, TypeOK, MainHolds, Pc
    <2>4. Known'
      <3>1. taken' = taken + 1 /\ buffer' = buffer /\ taken \in Nat
        BY <1>5 DEF Scan, TypeOK
      <3>2. 1 .. taken \cup {taken + 1} \subseteq 1 .. (taken + 1)
        BY <3>1
      <3>3. UnderWay' = UnderWay \cup {taken + 1}
        BY <1>5, UnderWayScan
      <3> QED BY <2>1, <3>1, <3>2, <3>3 DEF Known
    <2>5. BatchSafe'
      BY <1>5, <2>1 DEF Scan, TypeOK, BatchSafe, Pc
    <2> QED BY <2>1, <2>2, <2>4, <2>5
  <1>6. ASSUME ScanAnswered
       PROVE  Shape'
    <2>1. TypeOK' /\ Arrived' = Arrived
      BY <1>6 DEF ScanAnswered, Done, TypeOK, Arrived, Pc
    <2>2. MainHolds'
      BY <1>6 DEF ScanAnswered, Done, TypeOK, MainHolds, Pc
    <2>4. Known'
      BY <1>6, <2>1, UnderWayLetGo
         DEF ScanAnswered, Done, TypeOK, Known, MainHolds
    <2>5. BatchSafe'
      BY <1>6, <2>1 DEF ScanAnswered, Done, TypeOK, BatchSafe, Pc
    <2> QED BY <2>1, <2>2, <2>4, <2>5
  <1>7. ASSUME Save
       PROVE  Shape'
    <2>1. TypeOK' /\ Arrived' = Arrived
      BY <1>7 DEF Save, Done, TypeOK, Arrived, Pc
    <2>2. MainHolds'
      BY <1>7 DEF Save, Done, TypeOK, MainHolds, Pc
    <2>4. Known'
      BY <1>7, <2>1, UnderWayLetGo, UnderWayContains DEF Save, Done, Known
    <2>5. BatchSafe'
      BY <1>7, <2>1 DEF Save, Done, TypeOK, BatchSafe, Pc
    <2> QED BY <2>1, <2>2, <2>4, <2>5
  <1>8. ASSUME SaveFails
       PROVE  Shape'
    <2>1. TypeOK' /\ Arrived' = Arrived
      BY <1>8 DEF SaveFails, Fails, TypeOK, Arrived, Pc
    <2>2. MainHolds'
      BY <1>8 DEF SaveFails, Fails, TypeOK, MainHolds, Pc
    <2>4. Known'
      BY <1>8, <2>1, UnderWayLetGo
         DEF SaveFails, Fails, TypeOK, Known, MainHolds
    <2>5. BatchSafe'
      BY <1>8, <2>1 DEF SaveFails, Fails, TypeOK, BatchSafe, Pc
    <2> QED BY <2>1, <2>2, <2>4, <2>5
  <1>9. ASSUME NEW x \in Senders, Serve(x)
       PROVE  Shape'
    <2>1. batch[x] \in SUBSET Scans
      BY DEF TypeOK
    <2>2. Arrived' = Arrived \cup batch[x] /\ stored' \in [Scans -> Nat]
      BY <1>9, <2>1, StoreArrives DEF Serve
    <2>3. TypeOK'
      BY <1>9, <2>2 DEF Serve, TypeOK, Pc
    <2> QED
      BY <1>9, <2>2, <2>3, UnderWayAnswered
         DEF Serve, TypeOK, MainHolds, Known, BatchSafe, Pc
  <1>10. ASSUME NEW x \in Senders, ServeFails(x)
       PROVE  Shape'
    <2>0. CASE stored' = stored
      <3>1. TypeOK' /\ Arrived' = Arrived
        BY <1>10, <2>0 DEF ServeFails, Fails, TypeOK, Arrived, Pc
      <3> QED
        BY <1>10, <2>0, <3>1, UnderWayAnswered
           DEF ServeFails, Fails, TypeOK, MainHolds, Known, BatchSafe, Pc
    <2>1. CASE ingestible /\ Store(batch[x])
      <3>1. batch[x] \in SUBSET Scans
        BY DEF TypeOK
      <3>2. Arrived' = Arrived \cup batch[x] /\ stored' \in [Scans -> Nat]
        BY <2>1, <3>1, StoreArrives
      <3>3. /\ faults' \in 0 .. MaxFaults /\ pc' \in [Senders -> Pc]
            /\ UNCHANGED <<ingestible, connected, taken, batch, buffer, late>>
        BY <1>10 DEF ServeFails, Fails, TypeOK, Pc
      <3>4. TypeOK'
        BY <3>2, <3>3 DEF TypeOK
      <3> QED
        BY <1>10, <2>1, <3>2, <3>4, UnderWayAnswered
           DEF ServeFails, Fails, TypeOK, MainHolds, Known, BatchSafe, Pc
    <2> QED BY <1>10, <2>0, <2>1 DEF ServeFails, Fails
  <1>11. ASSUME NEW x \in Senders, Timeout(x)
       PROVE  Shape'
    <2>1. /\ faults + 1 \in Fault /\ faults' = faults + 1
          /\ faults' \in 0 .. MaxFaults
          /\ late' = [late EXCEPT ![faults + 1][x] = Flying(x)]
          /\ UNCHANGED <<ingestible, connected, taken, buffer, stored>>
      BY <1>11 DEF Timeout, Fails, TypeOK
    <2>2. Flying(x) \in SUBSET Scans
      BY DEF TypeOK, Flying
    <2>3. late' \in [Fault -> [Senders -> SUBSET Scans]]
      BY <2>1, <2>2 DEF TypeOK
    <2>4. Known'
      BY <2>1, <1>11, UnderWayTimeout DEF Known, Arrived
    <2>5. CASE x = Main
      <3>1. TypeOK'
        BY <1>11, <2>1, <2>3, <2>5 DEF Timeout, TypeOK, Pc
      <3>2. MainHolds'
        BY <1>11, <2>1, <2>5 DEF Timeout, TypeOK, MainHolds, Pc
      <3>3. BatchSafe'
        BY <1>11, <2>1, <2>5 DEF Timeout, TypeOK, BatchSafe, Arrived, Pc
      <3> QED BY <2>4, <3>1, <3>2, <3>3
    <2>6. CASE x # Main
      <3>1. TypeOK'
        BY <1>11, <2>1, <2>3, <2>6 DEF Timeout, Done, TypeOK, Pc
      <3>2. MainHolds'
        BY <1>11, <2>1, <2>6 DEF Timeout, Done, TypeOK, MainHolds, Pc
      <3>3. BatchSafe'
        <4>1. /\ pc' = [pc EXCEPT ![x] = "idle"] /\ batch' = [batch EXCEPT ![x] = {}]
              /\ Arrived' = Arrived /\ UNCHANGED <<ingestible, buffer>>
          BY <1>11, <2>1, <2>6 DEF Timeout, Done, Arrived
        <4> QED BY <4>1 DEF TypeOK, BatchSafe
      <3> QED BY <2>4, <3>1, <3>2, <3>3
    <2> QED BY <2>5, <2>6
  <1>12. ASSUME NEW k \in Fault, NEW x \in Senders, ServeLate(k, x)
       PROVE  Shape'
    <2>1. late[k][x] \in SUBSET Scans
      BY DEF TypeOK
    <2>2. Arrived' = Arrived \cup late[k][x] /\ stored' \in [Scans -> Nat]
      BY <1>12, <2>1, StoreArrives DEF ServeLate
    <2>3. TypeOK'
      BY <1>12, <2>2 DEF ServeLate, agent, TypeOK, Pc
    <2> QED
      BY <1>12, <2>2, <2>3, UnderWayLate
         DEF ServeLate, agent, TypeOK, MainHolds, Known, BatchSafe, Pc
  <1>13. ASSUME NEW k \in Fault, NEW x \in Senders, LoseLate(k, x)
       PROVE  Shape'
    <2>1. TypeOK' /\ Arrived' = Arrived
      BY <1>13 DEF LoseLate, agent, TypeOK, Arrived, Pc
    <2>2. MainHolds'
      BY <1>13 DEF LoseLate, agent, TypeOK, MainHolds, Pc
    <2>4. Known'
      BY <1>13, <2>1, UnderWayLate
         DEF LoseLate, agent, TypeOK, Known, MainHolds
    <2>5. BatchSafe'
      BY <1>13, <2>1 DEF LoseLate, agent, TypeOK, BatchSafe, Pc
    <2> QED BY <2>1, <2>2, <2>4, <2>5
  <1>14. ASSUME Crash
       PROVE  Shape'
    <2>1. TypeOK' /\ Arrived' = Arrived
      <3>1. faults + 1 \in Fault /\ faults' \in 0 .. MaxFaults
        BY <1>14 DEF Crash, Fails, TypeOK
      <3>2. [x \in Senders |-> Flying(x)] \in [Senders -> SUBSET Scans]
        BY DEF TypeOK, Flying
      <3>3. late' \in [Fault -> [Senders -> SUBSET Scans]]
        BY <1>14, <3>1, <3>2 DEF Crash, TypeOK
      <3>4. /\ connected' \in BOOLEAN /\ pc' \in [Senders -> Pc]
            /\ batch' \in [Senders -> SUBSET Scans]
            /\ UNCHANGED <<ingestible, taken, buffer, stored>>
        BY <1>14 DEF Crash, Pc
      <3> QED BY <3>1, <3>3, <3>4 DEF TypeOK, Arrived
    <2>2. MainHolds'
      BY <1>14 DEF Crash, Fails, TypeOK, MainHolds, Pc
    <2>4. Known'
      BY <1>14, <2>1, UnderWayCrash DEF Crash, Fails, TypeOK, Known, MainHolds
    <2>5. BatchSafe'
      BY <1>14, <2>1 DEF Crash, Fails, TypeOK, BatchSafe, Pc
    <2> QED BY <2>1, <2>2, <2>4, <2>5
  <1>15. ASSUME NEW x \in Senders, Refuse(x)
       PROVE  Shape'
    <2>1. TypeOK' /\ Arrived' = Arrived
      BY <1>15 DEF Refuse, TypeOK, Arrived, Pc
    <2> QED
      BY <1>15, <2>1, UnderWayAnswered
         DEF Refuse, TypeOK, MainHolds, Known, BatchSafe, Pc
  <1>16. CASE UNCHANGED vars
    BY <1>16
       DEF vars, agent, TypeOK, MainHolds, Known, BatchSafe, UnderWay, Flying,
           Arrived
  <1> QED
    BY <1>1, <1>2, <1>3, <1>4, <1>5, <1>6, <1>7, <1>8, <1>9, <1>10, <1>11,
       <1>12, <1>13, <1>14, <1>15, <1>16
       DEF Next, Sync

-----------------------------------------------------------------------------
(* Duplicates.                                                             *)

Tasks == Cardinality(Syncs)
Late(o) == Cardinality(LateOf(o))
More(o) == Cardinality(AddsOf(o))

\* Arithmetic of the bound: a fault more allows a copy more for each task.
LEMMA Bound ==
  ASSUME NEW f \in Nat
  PROVE  /\ Tasks \in Nat /\ Tasks >= 1
         /\ Tasks * (f + 1) \in Nat /\ Tasks * (f + 1) >= 1
         /\ Tasks * (f + 1 + 1) = Tasks * (f + 1) + Tasks
         /\ Tasks <= Tasks * (f + 1)
         /\ f > 0 => 1 + Tasks <= Tasks * (f + 1)
  <1>1. Tasks \in Nat /\ Tasks # 0
    BY FS_CardinalityType, FS_EmptySet DEF Tasks
  <1> HIDE DEF Tasks
  <1>2. Tasks * f \in Nat /\ Tasks * (f + 1) = Tasks * f + Tasks
    BY <1>1
  <1>3. Tasks * (f + 1 + 1) = Tasks * (f + 1) + Tasks
    BY <1>1
  <1>4. f > 0 => Tasks * f >= 1
    BY <1>1
  <1> QED BY <1>1, <1>2, <1>3, <1>4

\* What can be counted.
LEMMA Countable ==
  ASSUME NEW o
  PROVE  /\ IsFiniteSet(LateOf(o)) /\ Late(o) \in Nat
         /\ IsFiniteSet(AddsOf(o)) /\ More(o) \in Nat /\ More(o) <= Tasks
  <1>1. IsFiniteSet(Fault \X Senders)
    <2>1. IsFiniteSet(Fault) /\ IsFiniteSet(Senders)
      BY FS_Interval, FS_AddElement
    <2> QED BY <2>1, FS_Product
  <1>2. LateOf(o) \in SUBSET (Fault \X Senders) /\ AddsOf(o) \in SUBSET Syncs
    BY DEF LateOf, AddsOf
  <1>3. IsFiniteSet(LateOf(o)) /\ IsFiniteSet(AddsOf(o)) /\ More(o) <= Tasks
    BY <1>1, <1>2, FS_Subset DEF More, Tasks
  <1> QED BY <1>3, FS_CardinalityType DEF Late, More

\* A part of a finite set, with at most one element more, and without one.
LEMMA Smaller ==
  ASSUME NEW S, IsFiniteSet(S), NEW T, T \subseteq S
  PROVE  Cardinality(T) <= Cardinality(S)
  BY FS_Subset

LEMMA OneMore ==
  ASSUME NEW S, IsFiniteSet(S), NEW T, NEW x, T \subseteq S \cup {x}
  PROVE  Cardinality(T) <= Cardinality(S) + 1
  <1>0. Cardinality(S) \in Nat
    BY FS_CardinalityType
  <1>3. /\ IsFiniteSet(S \cup {x})
        /\ Cardinality(S \cup {x}) = IF x \in S THEN Cardinality(S) ELSE Cardinality(S) + 1
    BY FS_AddElement
  <1>1. IsFiniteSet(S \cup {x}) /\ Cardinality(S \cup {x}) <= Cardinality(S) + 1
        /\ Cardinality(S \cup {x}) \in Nat
    BY <1>0, <1>3
  <1>2. Cardinality(T) <= Cardinality(S \cup {x}) /\ Cardinality(T) \in Nat
    BY <1>1, FS_Subset, FS_CardinalityType
  <1> QED BY <1>0, <1>1, <1>2

LEMMA OneLess ==
  ASSUME NEW S, IsFiniteSet(S), NEW T, NEW x \in S, T \subseteq S \ {x}
  PROVE  Cardinality(T) + 1 <= Cardinality(S)
  <1>1. IsFiniteSet(S \ {x}) /\ Cardinality(S \ {x}) = Cardinality(S) - 1
        /\ Cardinality(S) \in Nat /\ Cardinality(S \ {x}) \in Nat
    BY FS_RemoveElement, FS_CardinalityType
  <1>2. Cardinality(T) <= Cardinality(S \ {x}) /\ Cardinality(T) \in Nat
    BY <1>1, FS_Subset, FS_CardinalityType
  <1> QED BY <1>1, <1>2

\* A scan in the main loop's hands can be stored by no task.
LEMMA HeldAlone ==
  ASSUME Spent, NEW o \in Scans, o \in batch[Main]
  PROVE  AddsOf(o) = {}
  BY DEF Spent, SpentOn, AddsOf, Adds

\* A scan that the main loop does not hold before or after: nothing but
\* stored, late and what tasks add counts.
Within(o) == stored[o] + Late(o) + More(o) <= Tasks * (faults + 1)
Held(o) ==
  o \in batch[Main] =>
    /\ o \notin buffer /\ \A t \in Syncs : o \notin batch[t]
    /\ stored[o] + Late(o) <= IF pc[Main] = "sent" THEN 0 ELSE 1
    /\ pc[Main] = "saving" /\ faults = 0 => stored[o] + Late(o) = 0

LEMMA SpentParts == /\ Spent <=> \A o \in Scans : Within(o) /\ Held(o)
                    /\ Spent' <=> \A o \in Scans : Within(o)' /\ Held(o)'
  BY DEF Spent, SpentOn, Within, Held, Tasks, Late, More

\* The numbers.
LEMMA Numbers ==
  ASSUME TypeOK, TypeOK', NEW o \in Scans
  PROVE  /\ stored[o] \in Nat /\ stored'[o] \in Nat /\ faults \in Nat /\ faults' \in Nat
         /\ Late(o) \in Nat /\ More(o) \in Nat /\ Late(o)' \in Nat /\ More(o)' \in Nat
         /\ IsFiniteSet(LateOf(o)) /\ IsFiniteSet(AddsOf(o))
         /\ More(o) <= Tasks /\ More(o)' <= Tasks
  <1>1. /\ IsFiniteSet(LateOf(o)') /\ Late(o)' \in Nat
        /\ IsFiniteSet(AddsOf(o)') /\ More(o)' \in Nat /\ More(o)' <= Tasks
    <2>1. IsFiniteSet(Fault \X Senders)
      <3>1. IsFiniteSet(Fault) /\ IsFiniteSet(Senders)
        BY FS_Interval, FS_AddElement
      <3> QED BY <3>1, FS_Product
    <2>2. LateOf(o)' \in SUBSET (Fault \X Senders) /\ AddsOf(o)' \in SUBSET Syncs
      BY DEF LateOf, AddsOf
    <2>3. IsFiniteSet(LateOf(o)') /\ IsFiniteSet(AddsOf(o)') /\ More(o)' <= Tasks
      BY <2>1, <2>2, FS_Subset DEF More, Tasks
    <2> QED BY <2>3, FS_CardinalityType DEF Late, More
  <1> QED BY <1>1, Countable DEF TypeOK

\* A step that stores nothing of o and adds no request or task for it.
LEMMA NothingSpent ==
  ASSUME TypeOK, TypeOK', NEW o \in Scans, Within(o),
         stored'[o] = stored[o], faults' = faults \/ faults' = faults + 1,
         LateOf(o)' \subseteq LateOf(o), AddsOf(o)' \subseteq AddsOf(o)
  PROVE  Within(o)' /\ Late(o)' <= Late(o)
  <1>1. Late(o)' <= Late(o) /\ More(o)' <= More(o)
    BY Numbers, Smaller DEF Late, More
  <1>2. Tasks * (faults + 1) \in Nat /\ Tasks * (faults + 1 + 1) \in Nat
        /\ Tasks * (faults + 1) <= Tasks * (faults + 1 + 1)
    BY Numbers, Bound
  <1> QED BY <1>1, <1>2, Numbers DEF Within

\* A copy more of o that a task or a late request had been counted for.
LEMMA Exchanged ==
  ASSUME TypeOK, TypeOK', NEW o \in Scans, Within(o),
         stored'[o] = stored[o] + 1, faults' = faults,
         Late(o)' + More(o)' + 1 <= Late(o) + More(o)
  PROVE  Within(o)'
  <1>1. Tasks * (faults + 1) \in Nat
    BY Numbers, Bound
  <1> QED BY <1>1, Numbers DEF Within

\* A fault pays for a copy, a late request or a task more.
LEMMA PaidByFault ==
  ASSUME TypeOK, TypeOK', NEW o \in Scans, Within(o), faults' = faults + 1,
         stored'[o] + Late(o)' + More(o)' <= stored[o] + Late(o) + More(o) + Tasks
  PROVE  Within(o)'
  <1>1. /\ Tasks * (faults + 1) \in Nat /\ Tasks \in Nat
        /\ Tasks * (faults + 1 + 1) = Tasks * (faults + 1) + Tasks
    BY Numbers, Bound
  <1> DEFINE b == Tasks * (faults + 1)
             c == Tasks * (faults + 1 + 1)
             sum == stored'[o] + Late(o)' + More(o)'
  <1>2. stored[o] + Late(o) + More(o) <= b /\ b \in Nat /\ c = b + Tasks
    BY <1>1 DEF Within
  <1>3. sum <= stored[o] + Late(o) + More(o) + Tasks
    OBVIOUS
  <1>4. sum \in Nat /\ stored[o] + Late(o) + More(o) \in Nat
    BY Numbers
  <1> HIDE DEF b, c, sum
  <1>5. sum <= c
    BY <1>1, <1>2, <1>3, <1>4
  <1> QED BY <1>5 DEF Within, c, sum

-----------------------------------------------------------------------------
(* What each action spends.                                                *)

\* The steps of the heartbeat loop and of the main loop that store nothing.
LEMMA QuietSpends ==
  ASSUME Shape, TypeOK', NEW o \in Scans, Within(o), Held(o),
         \/ TurnDown \/ \E t \in Syncs : TurnUp(t) \/ SyncRead(t) \/ SyncEnd(t)
         \/ ScanAnswered \/ SaveFails
  PROVE  Within(o)' /\ Held(o)'
  <1>1. /\ UNCHANGED <<stored, late>> /\ (faults' = faults \/ faults' = faults + 1)
        /\ LateOf(o)' = LateOf(o)
    BY DEF TurnDown, TurnUp, SyncRead, SyncEnd, ScanAnswered, SaveFails, Fails, LateOf
  <1>2. buffer' \subseteq buffer
    BY DEF TurnDown, TurnUp, SyncRead, SyncEnd, ScanAnswered, SaveFails
  <1>3. ASSUME NEW t \in Syncs, TurnUp(t) \/ SyncRead(t) \/ SyncEnd(t)
        PROVE  /\ AddsOf(o)' \subseteq AddsOf(o)
               /\ pc'[Main] = pc[Main] /\ batch'[Main] = batch[Main]
               /\ o \notin buffer => \A u \in Syncs : o \in batch'[u] => o \in batch[u]
    <2>1. \A u \in Syncs \ {t} : pc'[u] = pc[u] /\ batch'[u] = batch[u]
      BY <1>3 DEF Shape, TypeOK, TurnUp, SyncRead, SyncEnd, Done
    <2>2. pc'[Main] = pc[Main] /\ batch'[Main] = batch[Main]
      BY <1>3 DEF Shape, TypeOK, TurnUp, SyncRead, SyncEnd, Done
    <2>3. \A u \in Syncs \ {t} : Adds(u, o)' => Adds(u, o)
      BY <1>2, <2>1 DEF Adds
    <2>4. Adds(t, o)' => Adds(t, o)
      <3>1. CASE TurnUp(t)
        BY <3>1 DEF Adds, TurnUp, Shape, TypeOK
      <3>2. CASE SyncRead(t)
        <4>1. pc[t] = "reading" /\ buffer' = buffer
          BY <3>2 DEF SyncRead
        <4>2. o \in batch'[t] => o \in batch[t] \/ o \in buffer
          BY <3>2, OldestFromBuffer DEF SyncRead, Done, Shape, TypeOK
        <4>3. pc'[t] \in {"idle", "sent"} /\ (pc'[t] = "sent" => batch'[t] \subseteq buffer)
          BY <3>2, OldestFromBuffer DEF SyncRead, Done, Shape, TypeOK
        <4> QED BY <4>1, <4>3 DEF Adds
      <3>3. CASE SyncEnd(t)
        <4>1. batch'[t] = {} /\ pc[t] \in {"accepted", "refused"}
          BY <3>3 DEF SyncEnd, Done, Shape, TypeOK
        <4>2. buffer' = IF pc[t] = "accepted" THEN buffer \ batch[t] ELSE buffer
          BY <3>3 DEF SyncEnd
        <4> QED BY <4>1, <4>2 DEF Adds
      <3> QED BY <1>3, <3>1, <3>2, <3>3
    <2>5. o \notin buffer /\ o \in batch'[t] => o \in batch[t]
      BY <1>3, OldestFromBuffer DEF Shape, TypeOK, TurnUp, SyncRead, SyncEnd, Done
    <2> QED BY <2>1, <2>2, <2>3, <2>4, <2>5 DEF AddsOf
  <1>4. ASSUME TurnDown \/ ScanAnswered \/ SaveFails
        PROVE  /\ AddsOf(o)' \subseteq AddsOf(o)
               /\ \/ pc'[Main] = pc[Main] /\ batch'[Main] = batch[Main]
                  \/ batch'[Main] = {}
               /\ \A u \in Syncs : batch'[u] = batch[u]
    <2>1. \A u \in Syncs : pc'[u] = pc[u] /\ batch'[u] = batch[u]
      BY <1>4 DEF Shape, TypeOK, TurnDown, ScanAnswered, SaveFails, Done
    <2>2. AddsOf(o)' \subseteq AddsOf(o)
      BY <1>2, <2>1 DEF AddsOf, Adds
    <2> QED BY <1>4, <2>1, <2>2 DEF Shape, TypeOK, TurnDown, ScanAnswered, SaveFails, Done
  <1>5. AddsOf(o)' \subseteq AddsOf(o)
    BY <1>3, <1>4
  <1>6. Within(o)' /\ Late(o)' = Late(o)
    BY <1>1, <1>5, NothingSpent DEF Shape, Late
  <1>7. \/ batch'[Main] = {}
        \/ /\ pc'[Main] = pc[Main] /\ batch'[Main] = batch[Main]
           /\ o \notin buffer => \A u \in Syncs : o \in batch'[u] => o \in batch[u]
    BY <1>3, <1>4
  <1>8. faults' = 0 => faults = 0
    BY <1>1 DEF Shape, TypeOK
  <1>9. Held(o)'
    BY <1>1, <1>2, <1>6, <1>7, <1>8 DEF Held
  <1> QED BY <1>6, <1>9

\* A new scan is nowhere yet.
LEMMA ScanSpends ==
  ASSUME Shape, TypeOK', NEW o \in Scans, Within(o), Held(o), Scan
  PROVE  Within(o)' /\ Held(o)'
  <1>1. /\ UNCHANGED <<stored, late, buffer, faults>> /\ LateOf(o)' = LateOf(o)
        /\ \A u \in Syncs : pc'[u] = pc[u] /\ batch'[u] = batch[u]
    BY DEF Shape, TypeOK, Scan, LateOf
  <1>2. AddsOf(o)' \subseteq AddsOf(o)
    BY <1>1 DEF AddsOf, Adds
  <1>3. Within(o)'
    BY <1>1, <1>2, NothingSpent DEF Shape
  <1>4. ASSUME o \in batch'[Main]
        PROVE  /\ o \notin buffer /\ \A t \in Syncs : o \notin batch[t]
               /\ stored[o] = 0 /\ LateOf(o) = {}
    <2>1. o = taken + 1 /\ taken \in Nat
      BY <1>4 DEF Scan, Shape, TypeOK
    <2>2. o \notin UnderWay \cup buffer \cup Arrived
      BY <2>1 DEF Shape, Known
    <2>3. stored[o] = 0
      BY <2>2 DEF Arrived, Shape, TypeOK
    <2>4. LateOf(o) = {}
      BY <2>2 DEF LateOf, UnderWay
    <2> QED BY <2>2, <2>3, <2>4 DEF Shape, BatchSafe
  <1>5. LateOf(o) = {} => Late(o)' = 0
    BY <1>1, FS_EmptySet DEF Late
  <1> QED BY <1>1, <1>3, <1>4, <1>5 DEF Held

\* The scan that is saved may be stored by every task.
LEMMA SaveSpends ==
  ASSUME Shape, TypeOK', NEW o \in Scans, Within(o), Held(o), Save
  PROVE  Within(o)' /\ Held(o)'
  <1>1. /\ UNCHANGED <<stored, late, faults>> /\ LateOf(o)' = LateOf(o)
        /\ \A u \in Syncs : pc'[u] = pc[u] /\ batch'[u] = batch[u]
        /\ batch'[Main] = {} /\ buffer' = buffer \cup batch[Main] /\ pc[Main] = "saving"
    BY DEF Shape, TypeOK, Save, Done, LateOf
  <1>2. CASE o \notin batch[Main]
    <2>1. AddsOf(o)' \subseteq AddsOf(o)
      BY <1>1, <1>2 DEF AddsOf, Adds
    <2> QED BY <1>1, <2>1, NothingSpent DEF Shape, Held
  <1>3. CASE o \in batch[Main]
    <2>1. /\ stored[o] + Late(o) <= 1
          /\ faults = 0 => stored[o] + Late(o) = 0
          /\ Late(o)' = Late(o) /\ stored'[o] = stored[o] /\ faults' = faults
      BY <1>1, <1>3 DEF Held, Late
    <2>2. /\ Tasks \in Nat /\ Tasks * (faults + 1) \in Nat /\ Tasks <= Tasks * (faults + 1)
          /\ faults > 0 => 1 + Tasks <= Tasks * (faults + 1)
      BY Bound, Numbers DEF Shape
    <2>3. More(o)' <= Tasks /\ More(o)' \in Nat /\ Late(o) \in Nat /\ stored[o] \in Nat /\ faults \in Nat
      BY Numbers DEF Shape
    <2> DEFINE b == Tasks * (faults + 1)
    <2> HIDE DEF b, Tasks
    <2>4. stored[o] + Late(o) + More(o)' <= b
      BY <2>1, <2>2, <2>3 DEF b
    <2> QED BY <1>1, <2>1, <2>4 DEF Within, Held, b
  <1> QED BY <1>2, <1>3

\* The answer to the main loop.
LEMMA MainServed ==
  ASSUME Shape, TypeOK', NEW o \in Scans, Within(o), Held(o),
         Serve(Main) \/ Refuse(Main) \/ ServeFails(Main) \/ Timeout(Main)
  PROVE  Within(o)' /\ Held(o)'
  <1>1. /\ buffer' = buffer /\ (faults' = faults \/ faults' = faults + 1)
        /\ \A u \in Syncs : pc'[u] = pc[u] /\ batch'[u] = batch[u]
        /\ batch'[Main] = batch[Main]
    BY DEF Shape, TypeOK, Serve, Refuse, ServeFails, Timeout, Fails
  <1>2. AddsOf(o)' = AddsOf(o)
    BY <1>1 DEF AddsOf, Adds
  <1>3. \/ /\ pc[Main] = "sent" /\ pc'[Main] \in {"accepted", "refused"}
           /\ LateOf(o)' = LateOf(o)
           /\ \/ stored'[o] = stored[o]
              \/ o \in batch[Main] /\ stored'[o] = stored[o] + 1
        \/ /\ stored'[o] = stored[o] /\ pc'[Main] = "saving" /\ faults' = faults + 1
           /\ LateOf(o)' \subseteq LateOf(o) \cup {<<faults + 1, Main>>}
           /\ ~(pc[Main] = "sent" /\ o \in batch[Main]) => LateOf(o)' \subseteq LateOf(o)
    <2>1. CASE Serve(Main) \/ Refuse(Main) \/ ServeFails(Main)
      <3>1. late' = late /\ pc[Main] = "sent" /\ pc'[Main] \in {"accepted", "refused"}
            /\ (UNCHANGED stored \/ Store(batch[Main]))
        BY <2>1 DEF Serve, Refuse, ServeFails, Shape, TypeOK
      <3> QED BY <3>1 DEF LateOf, Store
    <2>2. CASE Timeout(Main)
      <3>1. faults + 1 \in Fault /\ faults' = faults + 1 /\ stored' = stored /\ pc'[Main] = "saving"
        BY <2>2 DEF Timeout, Fails, Shape, TypeOK
      <3>2. \A k \in Fault, x \in Senders :
               late'[k][x] = IF k = faults + 1 /\ x = Main THEN Flying(Main) ELSE late[k][x]
        BY <2>2, <3>1 DEF Timeout, Shape, TypeOK
      <3>3. LateOf(o)' \subseteq LateOf(o) \cup {<<faults + 1, Main>>}
        BY <3>2 DEF LateOf
      <3>4. ~(pc[Main] = "sent" /\ o \in batch[Main]) => LateOf(o)' \subseteq LateOf(o)
        BY <3>2 DEF LateOf, Flying
      <3> QED BY <3>1, <3>3, <3>4
    <2> QED BY <2>1, <2>2
  <1>4. CASE o \notin batch[Main]
    <2>1. stored'[o] = stored[o] /\ LateOf(o)' \subseteq LateOf(o)
      BY <1>3, <1>4
    <2> QED BY <1>1, <1>2, <1>4, <2>1, NothingSpent DEF Shape, Held
  <1>5. CASE o \in batch[Main]
    <2>1. /\ o \notin buffer /\ \A t \in Syncs : o \notin batch[t]
          /\ stored[o] + Late(o) <= IF pc[Main] = "sent" THEN 0 ELSE 1
      BY <1>5 DEF Held
    <2>2. AddsOf(o)' = {} /\ More(o)' = 0
      <3>1. AddsOf(o)' = {}
        BY <1>2, <2>1 DEF AddsOf, Adds
      <3> QED BY <3>1, FS_EmptySet DEF More
    <2>3. /\ stored[o] \in Nat /\ stored'[o] \in Nat /\ Late(o) \in Nat /\ Late(o)' \in Nat
          /\ faults \in Nat /\ faults' \in Nat /\ IsFiniteSet(LateOf(o))
      BY Numbers DEF Shape
    <2>4. stored'[o] + Late(o)' <= 1
      <3>1. CASE pc[Main] = "sent" /\ LateOf(o)' = LateOf(o)
        BY <1>3, <2>1, <2>3, <3>1, Smaller DEF Late
      <3>2. CASE stored'[o] = stored[o] /\ pc[Main] = "sent" /\ LateOf(o)' \subseteq LateOf(o) \cup {<<faults + 1, Main>>}
        <4>1. Late(o)' <= Late(o) + 1
          BY <2>3, <3>2, OneMore DEF Late
        <4> QED BY <2>1, <2>3, <3>2, <4>1
      <3>3. CASE stored'[o] = stored[o] /\ pc[Main] # "sent" /\ LateOf(o)' \subseteq LateOf(o)
        <4>1. Late(o)' <= Late(o)
          BY <2>3, <3>3, Smaller DEF Late
        <4> QED BY <2>1, <2>3, <3>3, <4>1
      <3> QED BY <1>3, <3>1, <3>2, <3>3
    <2>5. pc'[Main] # "sent" /\ (pc'[Main] = "saving" => faults' > 0)
      BY <1>3, <2>3
    <2>6. Tasks * (faults' + 1) \in Nat /\ Tasks * (faults' + 1) >= 1
      BY <2>3, Bound
    <2>7. Within(o)'
      <3> HIDE DEF Tasks
      <3> QED BY <2>2, <2>3, <2>4, <2>6 DEF Within, Tasks
    <2>8. Held(o)'
      BY <1>1, <2>1, <2>3, <2>4, <2>5 DEF Held
    <2> QED BY <2>7, <2>8
  <1> QED BY <1>4, <1>5

\* The answer to a sync task: it has stored what it was counted for; or it
\* may read the rows again, which the fault pays for.
LEMMA TaskServed ==
  ASSUME Shape, TypeOK', NEW o \in Scans, Within(o), Held(o), NEW t \in Syncs,
         Serve(t) \/ Refuse(t) \/ ServeFails(t)
  PROVE  Within(o)' /\ Held(o)'
  <1>1. /\ UNCHANGED <<batch, buffer, late>> /\ LateOf(o)' = LateOf(o)
        /\ pc[t] = "sent" /\ \A u \in Senders \ {t} : pc'[u] = pc[u]
        /\ (UNCHANGED stored \/ Store(batch[t]))
    BY DEF Shape, TypeOK, Serve, Refuse, ServeFails, LateOf
  <1>2. AddsOf(o)' \subseteq AddsOf(o)
    <2>1. \A u \in Syncs \ {t} : Adds(u, o)' => Adds(u, o)
      BY <1>1 DEF Adds
    <2>2. Adds(t, o)' => Adds(t, o)
      BY <1>1 DEF Adds, Serve, Refuse, ServeFails, Shape, TypeOK
    <2> QED BY <2>1, <2>2 DEF AddsOf
  <1>3. faults' = faults \/ faults' = faults + 1
    BY DEF Serve, Refuse, ServeFails, Fails
  <1>4. CASE stored'[o] = stored[o]
    <2>1. Within(o)' /\ Late(o)' = Late(o)
      BY <1>1, <1>2, <1>3, <1>4, NothingSpent DEF Shape, Late
    <2>2. faults' = 0 => faults = 0
      BY <1>3 DEF Shape, TypeOK
    <2> QED BY <1>1, <1>4, <2>1, <2>2 DEF Held
  <1>5. CASE stored'[o] # stored[o]
    <2>1. o \in batch[t] /\ stored'[o] = stored[o] + 1
      BY <1>1, <1>5 DEF Store
    <2>2. Held(o)'
      BY <1>1, <2>1 DEF Held
    <2>3. /\ Late(o)' = Late(o) /\ More(o)' \in Nat /\ More(o) \in Nat /\ Late(o) \in Nat
          /\ stored[o] \in Nat /\ IsFiniteSet(AddsOf(o))
      BY <1>1, Numbers DEF Shape, Late
    <2>4. CASE Serve(t)
      <3>1. faults' = faults /\ pc'[t] = "accepted"
        BY <2>4 DEF Serve, Shape, TypeOK
      <3>2. t \in AddsOf(o) /\ t \notin AddsOf(o)'
        BY <1>1, <2>1, <3>1 DEF AddsOf, Adds
      <3>3. More(o)' + 1 <= More(o)
        BY <1>2, <2>3, <3>2, OneLess DEF More
      <3> QED BY <2>1, <2>2, <2>3, <3>1, <3>3, Exchanged DEF Shape
    <2>5. CASE ServeFails(t)
      <3>1. faults' = faults + 1 /\ More(o)' <= More(o)
        BY <1>2, <2>3, <2>5, Smaller DEF ServeFails, Fails, More
      <3>2. Tasks \in Nat /\ Tasks >= 1
        BY Bound, Numbers DEF Shape
      <3>3. stored'[o] + Late(o)' + More(o)' <= stored[o] + Late(o) + More(o) + Tasks
        <4> HIDE DEF Tasks
        <4> QED BY <2>1, <2>3, <3>1, <3>2
      <3> QED BY <2>2, <3>1, <3>3, PaidByFault DEF Shape
    <2>6. ~Refuse(t)
      BY <1>5 DEF Refuse
    <2> QED BY <2>4, <2>5, <2>6
  <1> QED BY <1>4, <1>5

\* A task that gives up leaves a late request, or had been answered and may
\* read its rows again.
LEMMA TaskGivesUp ==
  ASSUME Shape, TypeOK', NEW o \in Scans, Within(o), Held(o), NEW t \in Syncs,
         Timeout(t)
  PROVE  Within(o)' /\ Held(o)'
  <1>1. /\ UNCHANGED <<buffer, stored>> /\ faults' = faults + 1 /\ faults + 1 \in Fault
        /\ \A u \in Senders \ {t} : pc'[u] = pc[u] /\ batch'[u] = batch[u]
        /\ pc'[t] = "idle" /\ batch'[t] = {}
    BY DEF Shape, TypeOK, Timeout, Fails, Done
  <1>2. \A k \in Fault, x \in Senders :
           late'[k][x] = IF k = faults + 1 /\ x = t THEN Flying(t) ELSE late[k][x]
    BY <1>1 DEF Timeout, Shape, TypeOK
  <1>3. /\ LateOf(o)' \subseteq LateOf(o) \cup {<<faults + 1, t>>}
        /\ ~(pc[t] = "sent" /\ o \in batch[t]) => LateOf(o)' \subseteq LateOf(o)
    <2>1. LateOf(o)' \subseteq LateOf(o) \cup {<<faults + 1, t>>}
      BY <1>2 DEF LateOf
    <2>2. ~(pc[t] = "sent" /\ o \in batch[t]) => LateOf(o)' \subseteq LateOf(o)
      BY <1>2 DEF LateOf, Flying
    <2> QED BY <2>1, <2>2
  <1>4. /\ AddsOf(o)' \subseteq AddsOf(o) \cup {t}
        /\ pc[t] = "sent" /\ o \in batch[t] => AddsOf(o)' \subseteq AddsOf(o)
    <2>1. \A u \in Syncs \ {t} : Adds(u, o)' => Adds(u, o)
      BY <1>1 DEF Adds
    <2>2. pc[t] = "sent" /\ o \in batch[t] => Adds(t, o)
      BY DEF Adds
    <2> QED BY <2>1, <2>2 DEF AddsOf
  <1>5. /\ Late(o) \in Nat /\ Late(o)' \in Nat /\ More(o) \in Nat /\ More(o)' \in Nat
        /\ stored[o] \in Nat /\ IsFiniteSet(LateOf(o)) /\ IsFiniteSet(AddsOf(o))
    BY Numbers DEF Shape
  <1>6. Late(o)' + More(o)' <= Late(o) + More(o) + 1
    <2>1. CASE pc[t] = "sent" /\ o \in batch[t]
      <3>1. Late(o)' <= Late(o) + 1
        BY <1>3, <1>5, OneMore DEF Late
      <3>2. More(o)' <= More(o)
        BY <1>4, <1>5, <2>1, Smaller DEF More
      <3> QED BY <1>5, <3>1, <3>2
    <2>2. CASE ~(pc[t] = "sent" /\ o \in batch[t])
      <3>1. Late(o)' <= Late(o)
        BY <1>3, <1>5, <2>2, Smaller DEF Late
      <3>2. More(o)' <= More(o) + 1
        BY <1>4, <1>5, OneMore DEF More
      <3> QED BY <1>5, <3>1, <3>2
    <2> QED BY <2>1, <2>2
  <1>7. Within(o)'
    <2>1. Tasks \in Nat /\ Tasks >= 1
      BY Bound, Numbers DEF Shape
    <2>2. stored'[o] + Late(o)' + More(o)' <= stored[o] + Late(o) + More(o) + Tasks
      <3> HIDE DEF Tasks
      <3> QED BY <1>1, <1>5, <1>6, <2>1
    <2> QED BY <1>1, <2>2, PaidByFault DEF Shape
  <1>8. Held(o)'
    <2>1. ASSUME o \in batch[Main] PROVE Late(o)' <= Late(o)
      <3>1. o \notin batch[t]
        BY <2>1 DEF Held
      <3> QED BY <1>3, <1>5, <3>1, Smaller DEF Late
    <2>2. faults' # 0 /\ pc'[Main] = pc[Main] /\ batch'[Main] = batch[Main]
      BY <1>1 DEF Shape, TypeOK
    <2>3. \A u \in Syncs : o \in batch'[u] => o \in batch[u]
      BY <1>1
    <2>4. ASSUME o \in batch[Main]
          PROVE  stored'[o] + Late(o)' <= IF pc[Main] = "sent" THEN 0 ELSE 1
      <3>1. stored[o] + Late(o) <= IF pc[Main] = "sent" THEN 0 ELSE 1
        BY <2>4 DEF Held
      <3> QED BY <1>1, <1>5, <2>1, <2>4, <3>1
    <2> QED BY <1>1, <2>2, <2>3, <2>4 DEF Held
  <1> QED BY <1>7, <1>8

\* A late request is stored or lost.
LEMMA LateSpends ==
  ASSUME Shape, TypeOK', NEW o \in Scans, Within(o), Held(o),
         NEW k \in Fault, NEW x \in Senders, ServeLate(k, x) \/ LoseLate(k, x)
  PROVE  Within(o)' /\ Held(o)'
  <1>1. /\ UNCHANGED <<pc, batch, buffer, faults>> /\ AddsOf(o)' = AddsOf(o)
        /\ late' = [late EXCEPT ![k][x] = {}]
        /\ (UNCHANGED stored \/ Store(late[k][x]))
    BY DEF ServeLate, LoseLate, agent, AddsOf, Adds
  <1>2. \A j \in Fault, y \in Senders :
           late'[j][y] = IF j = k /\ y = x THEN {} ELSE late[j][y]
    BY <1>1 DEF Shape, TypeOK
  <1>3. LateOf(o)' \subseteq LateOf(o) \ {<<k, x>>}
    BY <1>2 DEF LateOf
  <1>4. CASE stored'[o] = stored[o]
    <2>1. LateOf(o)' \subseteq LateOf(o)
      BY <1>3
    <2>2. Within(o)' /\ Late(o)' <= Late(o)
      BY <1>1, <1>4, <2>1, NothingSpent DEF Shape
    <2>3. /\ stored[o] \in Nat /\ Late(o) \in Nat /\ Late(o)' \in Nat
      BY Numbers DEF Shape
    <2> QED BY <1>1, <1>4, <2>2, <2>3 DEF Held
  <1>5. CASE stored'[o] # stored[o]
    <2>1. o \in late[k][x] /\ stored'[o] = stored[o] + 1
      BY <1>1, <1>5 DEF Store
    <2>2. <<k, x>> \in LateOf(o)
      BY <2>1 DEF LateOf
    <2>3. /\ Late(o) \in Nat /\ Late(o)' \in Nat /\ More(o) \in Nat /\ More(o)' = More(o)
          /\ stored[o] \in Nat /\ IsFiniteSet(LateOf(o))
      BY <1>1, Numbers DEF Shape, More
    <2>4. Late(o)' + 1 <= Late(o)
      BY <1>3, <2>2, <2>3, OneLess DEF Late
    <2>5. Late(o)' + More(o)' + 1 <= Late(o) + More(o)
      BY <2>3, <2>4
    <2>6. Within(o)'
      BY <1>1, <2>1, <2>5, Exchanged DEF Shape
    <2>7. stored'[o] + Late(o)' <= stored[o] + Late(o)
      BY <2>1, <2>3, <2>4
    <2>8. stored'[o] + Late(o)' \in Nat /\ stored[o] + Late(o) \in Nat
      BY <2>1, <2>3
    <2>9. Held(o)'
      BY <1>1, <2>7, <2>8 DEF Held
    <2> QED BY <2>6, <2>9
  <1> QED BY <1>4, <1>5

\* A crash makes a late request of every batch that is under way, and every
\* task may read the buffer again: one copy a task, paid by the fault.
LEMMA CrashSpends ==
  ASSUME Shape, TypeOK', NEW o \in Scans, Within(o), Held(o), Crash
  PROVE  Within(o)' /\ Held(o)'
  <1> DEFINE out == {x \in Senders : o \in Flying(x)}
  <1>1. /\ UNCHANGED <<buffer, stored>> /\ faults' = faults + 1 /\ faults + 1 \in Fault
        /\ batch' = [x \in Senders |-> {}]
    BY DEF Shape, TypeOK, Crash, Fails
  <1>2. \A k \in Fault, x \in Senders :
           late'[k][x] = IF k = faults + 1 THEN Flying(x) ELSE late[k][x]
    BY <1>1 DEF Crash, Shape, TypeOK
  <1>3. LateOf(o)' \subseteq LateOf(o) \cup ({faults + 1} \X out)
    BY <1>2 DEF LateOf
  <1>4. IsFiniteSet(out) /\ Cardinality(out) \in Nat
    <2>1. IsFiniteSet(Senders)
      BY FS_AddElement
    <2>2. out \in SUBSET Senders
      OBVIOUS
    <2> QED BY <2>1, <2>2, FS_Subset, FS_CardinalityType
  <1>5. /\ Late(o) \in Nat /\ Late(o)' \in Nat /\ More(o) \in Nat /\ More(o)' \in Nat
        /\ stored[o] \in Nat /\ IsFiniteSet(LateOf(o)) /\ IsFiniteSet(AddsOf(o)) /\ More(o)' <= Tasks
        /\ faults \in Nat
    BY Numbers DEF Shape
  <1>6. Late(o)' <= Late(o) + Cardinality(out)
    <2> DEFINE new == {faults + 1} \X out
    <2>1. IsFiniteSet({faults + 1}) /\ Cardinality({faults + 1}) = 1
      BY FS_Singleton
    <2>2. IsFiniteSet(new) /\ Cardinality(new) = 1 * Cardinality(out)
      BY <1>4, <2>1, FS_Product
    <2>3. Cardinality(new) = Cardinality(out)
      BY <1>4, <2>2
    <2> HIDE DEF new, out
    <2>4. /\ IsFiniteSet(LateOf(o) \cup new)
          /\ Cardinality(LateOf(o) \cup new) =
               Cardinality(LateOf(o)) + Cardinality(new) - Cardinality(LateOf(o) \cap new)
      BY <1>5, <2>2, FS_Union
    <2>5. Cardinality(LateOf(o) \cap new) \in Nat
      <3>1. LateOf(o) \cap new \in SUBSET new
        OBVIOUS
      <3> QED BY <2>2, <3>1, FS_Subset, FS_CardinalityType
    <2>6. Cardinality(LateOf(o) \cup new) <= Late(o) + Cardinality(out)
      BY <1>4, <1>5, <2>3, <2>4, <2>5 DEF Late
    <2>7. Late(o)' <= Cardinality(LateOf(o) \cup new)
      BY <1>3, <2>4, Smaller DEF Late, new
    <2>8. Cardinality(LateOf(o) \cup new) \in Nat
      BY <2>4, FS_CardinalityType
    <2> QED BY <1>4, <1>5, <2>6, <2>7, <2>8
  <1>7. Held(o)'
    BY <1>1 DEF Held
  <1>8. CASE o \in batch[Main]
    <2>1. /\ o \notin buffer /\ \A t \in Syncs : o \notin batch[t]
          /\ stored[o] + Late(o) <= IF pc[Main] = "sent" THEN 0 ELSE 1
      BY <1>8 DEF Held
    <2>2. More(o)' = 0
      <3>1. AddsOf(o)' = {}
        BY <1>1, <2>1 DEF AddsOf, Adds
      <3> QED BY <3>1, FS_EmptySet DEF More
    <2>3. Cardinality(out) <= IF pc[Main] = "sent" THEN 1 ELSE 0
      <3>1. CASE pc[Main] = "sent"
        <4>1. out \subseteq {Main}
          BY <2>1 DEF Flying
        <4>2. Cardinality(out) <= Cardinality({Main})
          BY <4>1, FS_Singleton, Smaller
        <4> QED BY <3>1, <4>2, FS_Singleton
      <3>2. CASE pc[Main] # "sent"
        <4>1. out = {}
          BY <2>1, <3>2 DEF Flying
        <4> QED BY <3>2, <4>1, FS_EmptySet
      <3> QED BY <3>1, <3>2
    <2> HIDE DEF out
    <2>4. stored'[o] + Late(o)' <= 1
      BY <1>1, <1>4, <1>5, <1>6, <2>1, <2>3
    <2>5. Tasks * (faults' + 1) \in Nat /\ Tasks * (faults' + 1) >= 1
      BY <1>1, <1>5, Bound
    <2> HIDE DEF Tasks
    <2>6. Within(o)'
      BY <1>1, <1>5, <2>2, <2>4, <2>5 DEF Within, Tasks
    <2> QED BY <1>7, <2>6
  <1>9. CASE o \notin batch[Main]
    <2>1. out \subseteq AddsOf(o)
      BY <1>9 DEF AddsOf, Adds, Flying
    <2>2. Cardinality(out) <= More(o)
      BY <1>5, <2>1, Smaller DEF More
    <2> HIDE DEF out
    <2>3. Tasks \in Nat
      BY <1>5, Bound
    <2>4. stored'[o] + Late(o)' + More(o)' <= stored[o] + Late(o) + More(o) + Tasks
      <3> HIDE DEF Tasks
      <3> QED BY <1>1, <1>4, <1>5, <1>6, <2>2, <2>3
    <2> QED BY <1>1, <1>7, <2>4, PaidByFault DEF Shape
  <1> QED BY <1>8, <1>9

\* Nothing is spent at the start.
LEMMA SpentInit == Init => Spent
  <1> SUFFICES ASSUME Init, NEW o \in Scans PROVE Within(o) /\ Held(o)
    BY SpentParts
  <1>1. LateOf(o) = {} /\ AddsOf(o) = {} /\ stored[o] = 0 /\ faults = 0 /\ batch[Main] = {}
    BY DEF Init, LateOf, AddsOf, Adds
  <1>2. Late(o) = 0 /\ More(o) = 0
    BY <1>1, FS_EmptySet DEF Late, More
  <1>3. Tasks * (faults + 1) \in Nat
    BY <1>1, Bound
  <1> HIDE DEF Tasks
  <1> QED BY <1>1, <1>2, <1>3 DEF Within, Held, Tasks

\* Every step keeps to the bound.
LEMMA SpentStep ==
  ASSUME Shape, Shape', Spent, [Next]_vars
  PROVE  Spent'
  <1> SUFFICES ASSUME NEW o \in Scans PROVE Within(o)' /\ Held(o)'
    BY SpentParts
  <1>1. TypeOK' /\ Within(o) /\ Held(o)
    BY SpentParts DEF Shape
  <1>2. CASE \/ TurnDown \/ \E t \in Syncs : TurnUp(t) \/ Sync(t)
             \/ ScanAnswered \/ SaveFails
    BY <1>1, <1>2, QuietSpends DEF Sync
  <1>3. CASE Scan
    BY <1>1, <1>3, ScanSpends
  <1>4. CASE Save
    BY <1>1, <1>4, SaveSpends
  <1>5. ASSUME NEW x \in Senders, Serve(x) \/ Refuse(x) \/ ServeFails(x) \/ Timeout(x)
        PROVE  Within(o)' /\ Held(o)'
    <2>1. CASE x = Main
      BY <1>1, <1>5, <2>1, MainServed
    <2>2. CASE x \in Syncs
      BY <1>1, <1>5, <2>2, TaskServed, TaskGivesUp
    <2> QED BY <2>1, <2>2
  <1>6. CASE \E k \in Fault, x \in Senders : ServeLate(k, x) \/ LoseLate(k, x)
    BY <1>1, <1>6, LateSpends
  <1>7. CASE Crash
    BY <1>1, <1>7, CrashSpends
  <1>8. CASE UNCHANGED vars
    <2>1. /\ UNCHANGED <<pc, batch, buffer, stored, faults>>
          /\ LateOf(o)' = LateOf(o) /\ AddsOf(o)' = AddsOf(o)
      BY <1>8 DEF vars, agent, LateOf, AddsOf, Adds
    <2> QED BY <1>1, <2>1 DEF Within, Held, Late, More
  <1> QED BY <1>2, <1>3, <1>4, <1>5, <1>6, <1>7, <1>8 DEF Next

-----------------------------------------------------------------------------
(* The invariant.                                                          *)

\* The inductive invariant holds of the agent and the service: what a sync
\* task holds is still in the buffer or stored, an accepted answer is only
\* given for stored scans, of what the service does not take nothing arrives,
\* and the copies of a scan are within their bound.
THEOREM Invariance == Spec => []Inv
  <1>1. Init => Inv
    BY ShapeInit, SpentInit DEF Inv
  <1>2. Inv /\ [Next]_vars => Inv'
    BY ShapeStep, SpentStep DEF Inv
  <1> QED BY <1>1, <1>2, PTL DEF Spec

\* However often requests are lost, answered late or cut off by a crash, a
\* scan has at most one row for each sync task and each fault.
THEOREM DuplicatesCorrect == Spec => []DuplicatesBounded
  <1>1. Inv => DuplicatesBounded
    <2> SUFFICES ASSUME Inv, NEW o \in Scans PROVE stored[o] <= Tasks * (faults + 1)
      BY DEF DuplicatesBounded, Tasks
    <2>1. Within(o)
      BY SpentParts DEF Inv
    <2>2. stored[o] \in Nat /\ faults \in Nat /\ Late(o) \in Nat /\ More(o) \in Nat
      BY Countable DEF Inv, Shape, TypeOK
    <2>3. Tasks * (faults + 1) \in Nat
      BY <2>2, Bound
    <2> HIDE DEF Tasks
    <2> QED BY <2>1, <2>2, <2>3 DEF Within
  <1> QED BY <1>1, Invariance, PTL

-----------------------------------------------------------------------------
(* Rows are deleted only when their scans are stored.                      *)

\* Only SyncEnd takes rows away, and only those of a batch that was accepted.
LEMMA DeleteStep ==
  ASSUME Shape, [Next]_vars, NEW o \in buffer
  PROVE  o \in buffer' \/ stored[o] > 0
  <1> USE DEF Shape
  <1>1. CASE UNCHANGED buffer
    BY <1>1
  <1>2. CASE Save
    BY <1>2 DEF Save
  <1>3. ASSUME NEW t \in Syncs, SyncEnd(t)
        PROVE  o \in buffer' \/ stored[o] > 0
    <2>1. CASE o \in batch[t] /\ pc[t] = "accepted"
      BY <2>1 DEF BatchSafe, Arrived
    <2>2. CASE ~(o \in batch[t] /\ pc[t] = "accepted")
      BY <1>3, <2>2 DEF SyncEnd
    <2> QED BY <2>1, <2>2
  <1>4. UNCHANGED buffer \/ Save \/ \E t \in Syncs : SyncEnd(t)
    BY DEF Next, vars, agent, TurnDown, TurnUp, Sync, SyncRead, Scan,
           ScanAnswered,
           SaveFails, Serve, Refuse, ServeFails, Timeout, ServeLate, LoseLate, Crash
  <1> QED BY <1>1, <1>2, <1>3, <1>4

\* No row leaves the buffer of the agent before the service has stored its
\* scan, however many tasks, lost answers and crashes there are.
THEOREM DeletedCorrect == Spec => DeletedOnlyIfStored
  <1>1. Inv /\ [Next]_vars
          => [\A o \in buffer : o \in buffer' \/ stored[o] > 0]_vars
    BY DeleteStep DEF Inv
  <1> QED BY <1>1, Invariance, PTL DEF Spec, DeletedOnlyIfStored

-----------------------------------------------------------------------------
(* The agent and the service implement AtLeastOnce.                        *)

\* Requests that end in nothing drop what only they held.
LEMMA DropStep ==
  ASSUME UnderWay' \subseteq UnderWay, UNCHANGED <<taken, buffer, stored>>
  PROVE  [Delivery!Next]_(Delivery!vars)
  <1>1. Arrived' = Arrived
    BY DEF Arrived
  <1>2. Fresh' \subseteq Fresh /\ Kept' = Kept /\ Fresh \in SUBSET Scans
    BY <1>1 DEF Fresh, Kept, UnderWay
  <1>3. Delivery!Drop(Fresh \ Fresh')
    BY <1>1, <1>2 DEF Delivery!Drop
  <1>4. (Fresh \ Fresh') \in SUBSET Scans
    BY <1>2
  <1> QED BY <1>3, <1>4 DEF Delivery!Next

\* A request that is stored brings its scans to the service.
LEMMA StoreStep ==
  ASSUME TypeOK, NEW S \in SUBSET Scans, Store(S), UNCHANGED <<taken, buffer>>,
         S \subseteq UnderWay, UnderWay' \subseteq UnderWay,
         UnderWay \ S \subseteq UnderWay'
  PROVE  [Delivery!Next]_(Delivery!vars)
  <1>1. Arrived' = Arrived \cup S
    BY StoreArrives
  <1>2. /\ S \subseteq Fresh \cup Kept \cup Arrived
        /\ Fresh' = Fresh \ S /\ Kept' = Kept \ S
    BY <1>1 DEF Fresh, Kept
  <1>3. Delivery!Arrive(S)
    BY <1>1, <1>2 DEF Delivery!Arrive
  <1> QED BY <1>3 DEF Delivery!Next

\* A new scan is produced.
LEMMA ScanStep ==
  ASSUME Shape, Scan
  PROVE  [Delivery!Next]_(Delivery!vars)
  <1>1. /\ taken \in Nat /\ taken + 1 \in Scans /\ taken' = taken + 1
        /\ UNCHANGED <<buffer, stored>>
    BY DEF Shape, TypeOK, Scan
  <1>2. Arrived' = Arrived /\ Kept' = Kept
    BY <1>1 DEF Arrived, Kept
  <1>3. taken + 1 \notin 1 .. taken /\ 1 .. taken' = 1 .. taken \cup {taken + 1}
    BY <1>1
  <1>4. UnderWay' = UnderWay \cup {taken + 1}
    BY UnderWayScan DEF Shape
  <1>5. Fresh' = Fresh \cup {taken + 1}
    BY <1>1, <1>2, <1>3, <1>4 DEF Fresh, Shape, Known
  <1>6. Delivery!Produce(taken + 1)
    BY <1>2, <1>3, <1>5 DEF Delivery!Produce
  <1> QED BY <1>1, <1>6 DEF Delivery!Next

\* A scan that is saved is kept, unless the service has it already.
LEMMA SaveStep ==
  ASSUME Shape, Save
  PROVE  [Delivery!Next]_(Delivery!vars)
  <1>1. /\ batch[Main] = {taken} /\ buffer' = buffer \cup {taken}
        /\ UNCHANGED <<taken, stored>> /\ taken \in UnderWay /\ taken \in Scans
    BY UnderWayContains DEF Shape, TypeOK, MainHolds, Save, UnderWay
  <1>2. Arrived' = Arrived
    BY <1>1 DEF Arrived
  <1>3. Fresh' = Fresh \ {taken}
    BY <1>1, <1>2, UnderWayLetGo DEF Shape, Fresh
  <1>4. CASE taken \in buffer \cup Arrived
    <2>1. Fresh' = Fresh /\ Kept' = Kept
      BY <1>1, <1>2, <1>3, <1>4 DEF Fresh, Kept
    <2> QED BY <1>1, <1>2, <2>1 DEF Delivery!vars
  <1>5. CASE taken \notin buffer \cup Arrived
    <2>1. taken \in Fresh /\ Kept' = Kept \cup {taken}
      BY <1>1, <1>2, <1>5 DEF Fresh, Kept
    <2>2. Delivery!Keep(taken)
      BY <1>1, <1>2, <1>3, <2>1 DEF Delivery!Keep
    <2> QED BY <1>1, <2>2 DEF Delivery!Next
  <1> QED BY <1>4, <1>5

\* Reading the buffer, and deleting what an accepted batch stored, change
\* nothing that AtLeastOnce sees.
LEMMA SyncStep ==
  ASSUME Shape, NEW t \in Syncs, Sync(t)
  PROVE  UNCHANGED Delivery!vars
  <1>1. UNCHANGED <<taken, stored>> /\ Arrived' = Arrived
    BY DEF Sync, SyncRead, SyncEnd, Arrived
  <1>2. CASE SyncRead(t)
    <2>1. buffer' = buffer
      BY <1>2 DEF SyncRead
    <2>2. Fresh' = Fresh /\ Kept' = Kept
      BY <1>1, <1>2, <2>1, UnderWayRead, OldestFromBuffer DEF Shape, Fresh, Kept
    <2> QED BY <1>1, <2>2 DEF Delivery!vars
  <1>3. CASE SyncEnd(t)
    <2>1. UnderWay' = UnderWay
      BY <1>3, UnderWaySame DEF Shape, TypeOK, SyncEnd, Done, Flying, Pc
    <2>2. buffer' \subseteq buffer /\ buffer \subseteq buffer' \cup Arrived
      BY <1>3 DEF SyncEnd, Shape, BatchSafe
    <2>3. Fresh' = Fresh /\ Kept' = Kept
      BY <1>1, <2>1, <2>2 DEF Fresh, Kept
    <2> QED BY <1>1, <2>3 DEF Delivery!vars
  <1> QED BY <1>2, <1>3 DEF Sync

\* Nothing is produced, kept or arrived at the start.
LEMMA DeliveryInit == Init => Delivery!Init
  BY DEF Init, Delivery!Init, Fresh, Kept, Arrived, UnderWay, Flying

\* Every step of agent and service is one of AtLeastOnce or stutters there.
LEMMA DeliveryStep ==
  ASSUME Shape, [Next]_vars
  PROVE  [Delivery!Next]_(Delivery!vars)
  <1> USE DEF Shape
  <1>1. CASE TurnDown \/ \E t \in Syncs : TurnUp(t)
    <2>1. UNCHANGED <<taken, buffer, stored>> /\ UnderWay' = UnderWay
      BY <1>1, UnderWaySame DEF TurnDown, TurnUp, TypeOK, Flying
    <2> QED BY <2>1, DropStep
  <1>2. CASE \E t \in Syncs : Sync(t)
    BY <1>2, SyncStep
  <1>3. CASE Scan
    BY <1>3, ScanStep
  <1>4. CASE ScanAnswered \/ SaveFails
    <2>1. UNCHANGED <<taken, buffer, stored>>
      BY <1>4 DEF ScanAnswered, SaveFails
    <2> QED BY <1>4, <2>1, UnderWayLetGo, DropStep
  <1>5. CASE Save
    BY <1>5, SaveStep
  <1>6. ASSUME NEW x \in Senders, Serve(x) \/ Refuse(x) \/ ServeFails(x)
        PROVE  [Delivery!Next]_(Delivery!vars)
    <2>1. UNCHANGED <<taken, buffer>> /\ batch[x] \in SUBSET Scans
      BY <1>6 DEF Serve, Refuse, ServeFails, TypeOK
    <2>2. UNCHANGED stored \/ Store(batch[x])
      BY <1>6 DEF Serve, Refuse, ServeFails
    <2> QED BY <1>6, <2>1, <2>2, UnderWayAnswered, DropStep, StoreStep
  <1>7. ASSUME NEW x \in Senders, Timeout(x)
        PROVE  [Delivery!Next]_(Delivery!vars)
    <2>1. UNCHANGED <<taken, buffer, stored>>
      BY <1>7 DEF Timeout
    <2> QED BY <1>7, <2>1, UnderWayTimeout, DropStep
  <1>8. ASSUME NEW k \in Fault, NEW x \in Senders, ServeLate(k, x)
        PROVE  [Delivery!Next]_(Delivery!vars)
    <2>1. UNCHANGED <<taken, buffer>> /\ late[k][x] \in SUBSET Scans
      BY <1>8 DEF ServeLate, agent, TypeOK
    <2>2. Store(late[k][x])
      BY <1>8 DEF ServeLate
    <2> QED BY <1>8, <2>1, <2>2, UnderWayLate, StoreStep
  <1>9. ASSUME NEW k \in Fault, NEW x \in Senders, LoseLate(k, x)
        PROVE  [Delivery!Next]_(Delivery!vars)
    <2>1. UNCHANGED <<taken, buffer, stored>>
      BY <1>9 DEF LoseLate, agent
    <2> QED BY <1>9, <2>1, UnderWayLate, DropStep
  <1>10. CASE Crash
    <2>1. UNCHANGED <<taken, buffer, stored>>
      BY <1>10 DEF Crash
    <2> QED BY <1>10, <2>1, UnderWayCrash, DropStep
  <1>11. CASE UNCHANGED vars
    <2>1. UNCHANGED <<taken, buffer, stored>> /\ UnderWay' = UnderWay
      BY <1>11 DEF vars, agent, UnderWay, Flying
    <2> QED BY <2>1, DropStep
  <1> QED
    BY <1>1, <1>2, <1>3, <1>4, <1>5, <1>6, <1>7, <1>8, <1>9, <1>10, <1>11
       DEF Next

\* The edge agent and the observation service implement AtLeastOnce: a scan
\* that was saved leaves the agent only by arriving.
THEOREM Refinement == Spec => BufferKeeps
  <1>1. Init => Delivery!Init
    BY DeliveryInit
  <1>2. Inv /\ [Next]_vars => [Delivery!Next]_(Delivery!vars)
    BY DeliveryStep DEF Inv
  <1> QED BY <1>1, <1>2, Invariance, PTL DEF Spec, BufferKeeps, Delivery!Spec
=============================================================================
