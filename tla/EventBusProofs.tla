--------------------------- MODULE EventBusProofs ---------------------------
(***************************************************************************)
(* Proofs about the consumer of EventBus with the reconciliation engine as *)
(* its handler, for every topic, stock and bound of failures.              *)
(***************************************************************************)
EXTENDS ReconciliationEngine, FiniteSetTheorems, TLAPS

bus == <<producer, consumer, faults>>

\* All that the engine's handler may do to the bus.
HandlerStep ==
    /\ phase = "handle" /\ UNCHANGED producer
    /\ Fault \/ UNCHANGED faults
    /\ Fails \/ Returns \/ UNCHANGED consumer

BusStep ==
    \/ \E m \in Messages : Publish(m)
    \/ Fetch \/ Commit \/ CommitFails \/ DropFails \/ Crash \/ Restart
    \/ HandlerStep

\* Whatever the engine does, the bus sees a handler that fails, returns or is
\* still at work (reconcile_observation).
LEMMA EngineIsHandler == Next => BusStep
<1> SUFFICES ASSUME Next PROVE BusStep
  OBVIOUS
<1>1. ASSUME Handler PROVE HandlerStep
  <2>1. CASE DoCompare
    BY <2>1 DEF DoCompare, Working, Goes, Again, HandlerStep
  <2>2. CASE CommitResult
    BY <2>2 DEF CommitResult, Working, Goes, Again, HandlerStep
  <2>3. CASE CommitAlert
    BY <2>3 DEF CommitAlert, Working, Goes, Again, HandlerStep
  <2>4. CASE PublishOutcome
    BY <2>4 DEF PublishOutcome, Working, Again, HandlerStep, producer, consumer
  <2> QED  BY <1>1, <2>1, <2>2, <2>3, <2>4 DEF Handler
<1> QED  BY <1>1 DEF Next, Consume, BusStep

\* Before anything is published the invariant holds.
LEMMA InitInv == Init => BusInv
BY BusAssumption
   DEF Init, BusInit, BusInv, BusType, NothingSkipped, PositionBound, TriesLeft, Dealt

\* A topic only grows at its end.
LEMMA TopicGrows ==
    ASSUME NEW m \in Messages, log \in Seq(Messages), Publish(m)
    PROVE  log' \in Seq(Messages) /\ Len(log) <= Len(log') /\ DOMAIN log \subseteq DOMAIN log'
BY DEF Publish

\* A step of the bus keeps the types.
LEMMA TypeStep ==
    ASSUME BusInv, BusStep
    PROVE  BusType'
<1> USE BusAssumption DEF BusInv, BusType
<1>1. ASSUME NEW m \in Messages, Publish(m) PROVE BusType'
  <2>1. /\ log' \in Seq(Messages) /\ Len(log) <= Len(log') /\ DOMAIN log \subseteq DOMAIN log'
    BY <1>1, TopicGrows
  <2>2. sends' \in [Messages -> 0 .. SendAttempts]
    BY <1>1 DEF Publish
  <2>3. sending' \subseteq Messages /\ faults' \in 0 .. MaxFaults
    BY <1>1 DEF Publish, Fault
  <2> QED  BY <1>1, <2>1, <2>2, <2>3 DEF Publish, consumer
<1>2. CASE Fetch
  BY <1>2 DEF Fetch, producer
<1>3. CASE Commit
  BY <1>3 DEF Commit, producer
<1>4. ASSUME Fails, UNCHANGED producer, Fault \/ UNCHANGED faults, position \in DOMAIN log
      PROVE  BusType'
  BY <1>4 DEF Fails, TriesLeft, Fault, producer
<1>5. CASE CommitFails
  <2>1. position \in DOMAIN log
    BY <1>5 DEF CommitFails, PositionBound, Dealt
  <2> QED  BY <1>4, <1>5, <2>1 DEF CommitFails
<1>6. CASE DropFails \/ Crash
  BY <1>6 DEF DropFails, Crash, Fault, producer
<1>8. CASE Restart
  BY <1>8 DEF Restart, producer
<1>7. CASE HandlerStep
  <2>1. position \in DOMAIN log
    BY <1>7 DEF HandlerStep, PositionBound
  <2>2. CASE Fails
    BY <1>4, <1>7, <2>1, <2>2 DEF HandlerStep
  <2>3. CASE Returns
    BY <1>7, <2>1, <2>3 DEF HandlerStep, Returns, Fault, producer
  <2>4. CASE UNCHANGED consumer
    BY <1>7, <2>4 DEF HandlerStep, Fault, producer, consumer
  <2> QED  BY <1>7, <2>2, <2>3, <2>4 DEF HandlerStep
<1> QED  BY <1>1, <1>2, <1>3, <1>5, <1>6, <1>7, <1>8 DEF BusStep

\* A step of the bus keeps the positions and the count of tries.
LEMMA PositionStep ==
    ASSUME BusInv, BusStep
    PROVE  NothingSkipped' /\ PositionBound' /\ TriesLeft'
<1> USE BusAssumption DEF BusInv, BusType, NothingSkipped, PositionBound, TriesLeft, Dealt
<1>1. ASSUME NEW m \in Messages, Publish(m) PROVE NothingSkipped' /\ PositionBound' /\ TriesLeft'
  BY <1>1, TopicGrows DEF Publish, consumer
<1>2. CASE Fetch
  BY <1>2 DEF Fetch, producer
<1>3. CASE Commit
  BY <1>3 DEF Commit, producer
<1>4. ASSUME Fails, UNCHANGED producer, position \in 1 .. Len(log)
      PROVE  NothingSkipped' /\ PositionBound' /\ TriesLeft'
  BY <1>4 DEF Fails, producer
<1>5. CASE CommitFails
  BY <1>4, <1>5 DEF CommitFails
<1>6. CASE DropFails
  BY <1>6 DEF DropFails, producer
<1>7. CASE Crash
  BY <1>7 DEF Crash, producer
<1>8. CASE Restart
  BY <1>8 DEF Restart, producer
<1>9. CASE HandlerStep
  <2>1. CASE Fails
    BY <1>4, <1>9, <2>1 DEF HandlerStep
  <2>2. CASE Returns
    BY <1>9, <2>2 DEF HandlerStep, Returns, producer
  <2>3. CASE UNCHANGED consumer
    BY <1>9, <2>3 DEF HandlerStep, producer, consumer
  <2> QED  BY <1>9, <2>1, <2>2, <2>3 DEF HandlerStep
<1> QED  BY <1>1, <1>2, <1>3, <1>5, <1>6, <1>7, <1>8, <1>9 DEF BusStep

-----------------------------------------------------------------------------
(* The engine.                                                             *)

\* What the comparison finds is a verdict, and says of no goods that they
\* belong into the bin they were seen in, unless two kinds lie there.
LEMMA CompareFits ==
    ASSUME NEW m \in Messages, NEW v \in Compare(Observed[m].bin, Observed[m].code),
           v.type # Raised
    PROVE  v \in Verdict /\ Fits(m, v)
<1> DEFINE bin == Observed[m].bin
           code == Observed[m].code
<1> USE EngineAssumption
<1>1. bin \in Bins /\ code \in Skus \cup {None}
  OBVIOUS
<1>2. \A type \in {Correct, "MISSING", "UNKNOWN", "QUANTITY_DISCREPANCY"} :
          Is(type) \in Verdict /\ Fits(m, Is(type))
  BY <1>1 DEF Is, Verdict, Fits, Correct
<1>3. ASSUME Elsewhere(code) = v, \A r \in Here(bin) : r.sku # code \/ \E s \in Here(bin) : s.sku # code
      PROVE  v \in Verdict /\ Fits(m, v)
  <2>1. CASE Rows(code) = {}
    BY <1>2, <1>3, <2>1, FS_EmptySet DEF Elsewhere
  <2>2. CASE Rows(code) # {} /\ Cardinality(Rows(code)) = 1
    <3> DEFINE row == CHOOSE r \in Rows(code) : TRUE
    <3>1. row \in Rows(code)
      BY <2>2
    <3>2. row \in Stock /\ row.sku = code /\ row.bin \in Bins
      BY <3>1 DEF Rows
    <3>3. v = [type |-> "MISPLACED", belongs |-> row.bin]
      BY <1>3, <2>2 DEF Elsewhere
    <3>4. row.bin = bin => row \in Here(bin)
      BY <3>2 DEF Here
    <3>5. Fits(m, v)
      BY <1>3, <3>2, <3>3, <3>4 DEF Fits
    <3> QED  BY <3>2, <3>3, <3>5 DEF Verdict
  <2>3. CASE Rows(code) # {} /\ Cardinality(Rows(code)) # 1
    BY <1>3, <2>3 DEF Elsewhere, Is, Raised
  <2> QED  BY <2>1, <2>2, <2>3
<1>4. CASE Here(bin) = {}
  <2>1. v = IF code = None THEN Is(Correct) ELSE Elsewhere(code)
    BY <1>4 DEF Compare
  <2> QED  BY <1>2, <1>3, <1>4, <2>1
<1>5. CASE Here(bin) # {}
  <2>1. PICK first \in Here(bin) :
            v = CASE code = None -> Is("MISSING")
                  [] code = first.sku -> Is(IF Quantity(bin) = 1 THEN Correct
                                            ELSE "QUANTITY_DISCREPANCY")
                  [] OTHER -> Elsewhere(code)
    BY <1>5 DEF Compare
  <2>2. CASE code = None /\ code # first.sku
    BY <1>2, <2>1, <2>2
  <2>3. CASE code # None /\ code = first.sku
    BY <1>2, <2>1, <2>3
  <2>4. CASE code # None /\ code # first.sku
    BY <1>3, <2>1, <2>4
  <2>5. CASE code = None /\ code = first.sku
    BY <1>2, <2>1, <2>5
  <2> QED  BY <2>2, <2>3, <2>4, <2>5
<1> QED  BY <1>4, <1>5

EngineInv == EngineType /\ HandlerAt /\ HandledToTheEnd /\ MisplacedElsewhere

\* Rows, alerts and events are only added, and messages keep their offsets.
Grows ==
    /\ log' \in Seq(Messages) /\ Len(log) <= Len(log')
    /\ \A o \in DOMAIN log : log'[o] = log[o]
    /\ \A i \in DOMAIN results : i \in DOMAIN results' /\ results'[i] = results[i]
    /\ alerts' \in [Messages -> Nat] /\ outcomes' \in [Messages -> Nat]
    /\ \A m \in Messages : alerts'[m] >= alerts[m] /\ outcomes'[m] >= outcomes[m]

\* An appended row leaves the others where they are.
LEMMA AppendKeeps ==
    ASSUME NEW S, NEW seq \in Seq(S), NEW e \in S
    PROVE  /\ Append(seq, e) \in Seq(S)
           /\ Len(seq) + 1 \in DOMAIN Append(seq, e) /\ Append(seq, e)[Len(seq) + 1] = e
           /\ \A i \in DOMAIN seq : i \in DOMAIN Append(seq, e) /\ Append(seq, e)[i] = seq[i]
           /\ \A i \in DOMAIN Append(seq, e) : i \in DOMAIN seq \/ Append(seq, e)[i] = e
OBVIOUS

\* What has been handled to the end stays so.
LEMMA EndKept ==
    ASSUME BusInv, EngineInv, Grows, handled' \subseteq handled
    PROVE  HandledToTheEnd'
<1> SUFFICES ASSUME NEW o \in handled'
             PROVE  /\ outcomes'[log'[o]] > 0
                    /\ \E i \in DOMAIN results' :
                          /\ results'[i].message = log'[o]
                          /\ results'[i].verdict.type # Correct => alerts'[log'[o]] > 0
  BY DEF HandledToTheEnd
<1>1. o \in DOMAIN log /\ log[o] \in Messages /\ log'[o] = log[o]
  <2>1. o \in DOMAIN log
    BY DEF BusInv, BusType
  <2>2. log[o] \in Messages
    BY <2>1 DEF BusInv, BusType
  <2> QED  BY <2>1, <2>2 DEF Grows
<1>2. outcomes[log[o]] > 0 /\ outcomes'[log[o]] >= outcomes[log[o]]
  BY <1>1 DEF EngineInv, HandledToTheEnd, Grows
<1>3. /\ outcomes[log[o]] \in Nat /\ alerts[log[o]] \in Nat
      /\ outcomes'[log[o]] \in Nat /\ alerts'[log[o]] \in Nat
  BY <1>1 DEF EngineInv, EngineType, Grows
<1>4. PICK i \in DOMAIN results :
          /\ results[i].message = log[o]
          /\ results[i].verdict.type # Correct => alerts[log[o]] > 0
  BY DEF EngineInv, HandledToTheEnd
<1>5. i \in DOMAIN results' /\ results'[i] = results[i] /\ alerts'[log[o]] >= alerts[log[o]]
  BY <1>1, <1>4 DEF Grows
<1> QED  BY <1>1, <1>2, <1>3, <1>4, <1>5

Result == [message : Messages, verdict : Verdict]
Row == [message |-> Current, verdict |-> verdict]

\* The results when the handler writes one, or fails to.
LEMMA ResultAdded ==
    ASSUME BusInv, EngineInv, phase = "handle", step # "compare",
           results' \in {results, Append(results, Row)}
    PROVE  /\ results' \in Seq(Result) /\ MisplacedElsewhere'
           /\ \A i \in DOMAIN results : i \in DOMAIN results' /\ results'[i] = results[i]
<1>1. Current \in Messages
  BY DEF BusInv, BusType, PositionBound, Current
<1>2. results \in Seq(Result) /\ Row \in Result
  BY <1>1 DEF EngineInv, EngineType, Result, Row
<1>3. Fits(Row.message, Row.verdict)
  BY DEF EngineInv, HandlerAt, Row
<1>4. CASE results' = results
  BY <1>2, <1>4 DEF EngineInv, MisplacedElsewhere
<1>5. CASE results' = Append(results, Row)
  <2>1. /\ results' \in Seq(Result)
        /\ \A i \in DOMAIN results : i \in DOMAIN results' /\ results'[i] = results[i]
        /\ \A i \in DOMAIN results' : i \in DOMAIN results \/ results'[i] = Row
    BY <1>2, <1>5, AppendKeeps
  <2>2. MisplacedElsewhere'
    BY <1>3, <2>1 DEF EngineInv, MisplacedElsewhere
  <2> QED  BY <2>1, <2>2
<1> QED  BY <1>4, <1>5

\* Between two runs of the handler nothing rests on what it has done.
LEMMA IdleAt == ASSUME step' = "compare" PROVE HandlerAt'
BY DEF HandlerAt

\* What a step that leaves the engine alone keeps.
LEMMA EngineKept ==
    ASSUME BusInv, EngineInv, UNCHANGED engine, UNCHANGED handled,
           log' \in Seq(Messages), Len(log) <= Len(log'),
           \A o \in DOMAIN log : log'[o] = log[o]
    PROVE  EngineType' /\ HandledToTheEnd' /\ MisplacedElsewhere'
<1>1. Grows
  BY DEF Grows, engine, EngineInv, EngineType
<1>2. HandledToTheEnd'
  BY <1>1, EndKept
<1> QED  BY <1>2 DEF engine, EngineInv, EngineType, MisplacedElsewhere

\* A step of the producer or of the consumer's loop keeps the engine's part.
LEMMA LoopKeepsEngine ==
    ASSUME BusInv, EngineInv, UNCHANGED engine,
           (\E m \in Messages : Publish(m)) \/ Fetch \/ Commit \/ CommitFails \/ DropFails \/ Restart
    PROVE  EngineInv'
<1>1. ASSUME NEW m \in Messages, Publish(m) PROVE EngineInv'
  <2>1. /\ log' \in Seq(Messages) /\ Len(log) <= Len(log')
        /\ \A o \in DOMAIN log : log'[o] = log[o]
    <3>1. log \in Seq(Messages)
      BY DEF BusInv, BusType
    <3>2. CASE log' = log
      BY <3>1, <3>2
    <3>3. CASE log' = Append(log, m)
      BY <3>1, <3>3
    <3> QED  BY <1>1, <3>2, <3>3 DEF Publish
  <2>2. UNCHANGED <<handled, position, phase>>
    BY <1>1 DEF Publish, consumer
  <2>3. EngineType' /\ HandledToTheEnd' /\ MisplacedElsewhere'
    BY <2>1, <2>2, EngineKept
  <2>4. HandlerAt'
    <3>1. CASE step = "compare"
      BY <3>1, IdleAt DEF engine
    <3>2. CASE step # "compare"
      <4>1. position \in DOMAIN log
        BY <3>2 DEF EngineInv, HandlerAt, BusInv, BusType, PositionBound
      <4>2. Current' = Current
        BY <2>1, <2>2, <4>1 DEF Current
      <4> QED  BY <2>2, <4>2 DEF EngineInv, HandlerAt, engine
    <3> QED  BY <3>1, <3>2
  <2> QED  BY <2>3, <2>4 DEF EngineInv
<1>2. CASE Fetch \/ Commit \/ CommitFails \/ DropFails \/ Restart
  <2>1. UNCHANGED <<handled, log>> /\ phase # "handle"
    BY <1>2 DEF Fetch, Commit, CommitFails, Fails, DropFails, Restart, producer
  <2>2. EngineType' /\ HandledToTheEnd' /\ MisplacedElsewhere'
    BY <2>1, EngineKept DEF BusInv, BusType
  <2>3. step' = "compare"
    BY <2>1 DEF EngineInv, HandlerAt, engine
  <2> QED  BY <2>2, <2>3, IdleAt DEF EngineInv
<1> QED  BY <1>1, <1>2

\* A failed attempt begins again with the comparison, whatever it has written.
LEMMA AgainKeeps ==
    ASSUME BusInv, EngineInv, Again, Grows,
           EngineType', MisplacedElsewhere'
    PROVE  EngineInv'
<1>1. step' = "compare" /\ handled' = handled
  BY DEF Again, Fails
<1> QED  BY <1>1, EndKept, IdleAt DEF EngineInv

\* A step of the handler keeps the engine's part.
LEMMA HandlerKeepsEngine ==
    ASSUME BusInv, EngineInv, Handler
    PROVE  EngineInv'
<1> USE DEF Working
<1>1. /\ results \in Seq(Result) /\ verdict \in Verdict
      /\ alerts \in [Messages -> Nat] /\ outcomes \in [Messages -> Nat]
  BY DEF EngineInv, EngineType, Result
<1>2. phase = "handle" /\ log \in Seq(Messages) /\ position \in DOMAIN log /\ Current \in Messages
  <2>1. phase = "handle"
    BY DEF Handler, DoCompare, CommitResult, CommitAlert, PublishOutcome
  <2>2. log \in Seq(Messages) /\ position \in DOMAIN log
    BY <2>1 DEF BusInv, BusType, PositionBound
  <2> QED  BY <2>1, <2>2 DEF Current
<1>3. log' = log
  BY DEF Handler, DoCompare, CommitResult, CommitAlert, PublishOutcome, Goes, Again, Fails, producer
<1>4. ASSUME NEW s, Goes(s) PROVE Current' = Current /\ UNCHANGED <<handled, phase>>
  BY <1>3, <1>4 DEF Goes, consumer, Current
<1>5. CASE DoCompare
  <2>1. PICK v \in Compare(Observed[Current].bin, Observed[Current].code) :
            IF v.type = Raised THEN Again /\ UNCHANGED <<verdict, faults>>
                               ELSE Goes("result") /\ verdict' = v /\ UNCHANGED faults
    BY <1>5 DEF DoCompare
  <2>2. UNCHANGED <<results, alerts, outcomes>>
    BY <1>5 DEF DoCompare
  <2>3. Grows /\ MisplacedElsewhere'
    BY <1>1, <1>2, <1>3, <2>2 DEF Grows, EngineInv, MisplacedElsewhere
  <2>4. CASE v.type = Raised
    <3>1. Again /\ verdict' = verdict
      BY <2>1, <2>4
    <3>2. EngineType'
      BY <2>2, <3>1 DEF EngineInv, EngineType, Again
    <3> QED  BY <2>3, <3>1, <3>2, AgainKeeps
  <2>5. CASE v.type # Raised
    <3>1. Goes("result") /\ verdict' = v
      BY <2>1, <2>5
    <3>2. v \in Verdict /\ Fits(Current, v)
      BY <1>2, <2>5, CompareFits
    <3>3. Current' = Current /\ UNCHANGED <<handled, phase>>
      BY <1>4, <3>1
    <3>4. step' = "result" /\ EngineType'
      BY <2>2, <3>1, <3>2 DEF EngineInv, EngineType, Goes
    <3>5. HandlerAt'
      BY <1>2, <3>1, <3>2, <3>3, <3>4 DEF HandlerAt
    <3> QED  BY <2>3, <3>3, <3>4, <3>5, EndKept DEF EngineInv
  <2> QED  BY <2>4, <2>5
<1>6. CASE CommitResult
  <2>1. results' \in {results, Append(results, Row)} /\ step = "result"
    BY <1>6 DEF CommitResult, Row
  <2>2. UNCHANGED <<verdict, alerts, outcomes>>
    BY <1>6 DEF CommitResult
  <2>3. /\ results' \in Seq(Result) /\ MisplacedElsewhere'
        /\ \A i \in DOMAIN results : i \in DOMAIN results' /\ results'[i] = results[i]
    BY <1>2, <2>1, ResultAdded
  <2>4. Grows
    BY <1>1, <1>2, <1>3, <2>2, <2>3 DEF Grows
  <2>5. step' \in {"compare", "result", "alert", "publish"}
    BY <1>6 DEF CommitResult, Goes, Again
  <2>6. EngineType'
    BY <1>1, <2>2, <2>3, <2>5 DEF EngineType, Result
  <2>7. CASE Again
    BY <2>3, <2>4, <2>6, <2>7, AgainKeeps
  <2>8. ASSUME results' = Append(results, Row),
               Goes(IF verdict.type = Correct THEN "publish" ELSE "alert")
        PROVE  EngineInv'
    <3>1. Current' = Current /\ UNCHANGED <<handled, phase>>
      BY <1>4, <2>8
    <3>2. step' = IF verdict.type = Correct THEN "publish" ELSE "alert"
      BY <2>8 DEF Goes
    <3>3. Len(results) + 1 \in DOMAIN results' /\ results'[Len(results) + 1] = Row
      <4>1. Row \in Result
        BY <1>1, <1>2 DEF Row, Result
      <4> QED  BY <1>1, <2>8, <4>1, AppendKeeps
    <3>4. HandlerAt'
      BY <1>2, <2>1, <2>2, <3>1, <3>2, <3>3 DEF EngineInv, HandlerAt, Row
    <3> QED  BY <2>3, <2>4, <2>6, <3>1, <3>4, EndKept DEF EngineInv
  <2> QED  BY <1>6, <2>7, <2>8 DEF CommitResult, Row
<1>7. CASE CommitAlert
  <2> DEFINE more == [alerts EXCEPT ![Current] = @ + 1]
  <2>1. alerts' \in {alerts, more} /\ step = "alert"
    BY <1>7 DEF CommitAlert
  <2>2. UNCHANGED <<verdict, results, outcomes>>
    BY <1>7 DEF CommitAlert
  <2>3. more \in [Messages -> Nat] /\ \A m \in Messages : more[m] >= alerts[m]
    BY <1>1, <1>2
  <2>4. Grows
    <3>1. alerts' \in [Messages -> Nat] /\ \A m \in Messages : alerts'[m] >= alerts[m]
      <4>1. CASE alerts' = alerts
        BY <1>1, <4>1
      <4>2. CASE alerts' = more
        BY <2>3, <4>2
      <4> QED  BY <2>1, <4>1, <4>2
    <3>2. outcomes' \in [Messages -> Nat] /\ \A m \in Messages : outcomes'[m] >= outcomes[m]
      BY <1>1, <2>2
    <3> QED  BY <1>2, <1>3, <2>2, <3>1, <3>2 DEF Grows
  <2>5. step' \in {"compare", "result", "alert", "publish"}
    BY <1>7 DEF CommitAlert, Goes, Again
  <2>6. EngineType' /\ MisplacedElsewhere'
    <3>1. alerts' \in [Messages -> Nat]
      BY <1>1, <2>1, <2>3
    <3>2. EngineType'
      BY <1>1, <2>2, <2>5, <3>1 DEF EngineType, Result
    <3> QED  BY <2>2, <3>2 DEF EngineInv, MisplacedElsewhere
  <2>7. CASE Again
    BY <2>4, <2>6, <2>7, AgainKeeps
  <2>8. ASSUME alerts' = more, Goes("publish") PROVE EngineInv'
    <3>1. Current' = Current /\ UNCHANGED <<handled, phase>> /\ step' = "publish"
      BY <1>4, <2>8 DEF Goes
    <3>2. alerts'[Current] > 0
      BY <1>1, <1>2, <2>8
    <3>3. HandlerAt'
      BY <1>2, <2>1, <2>2, <3>1, <3>2 DEF EngineInv, HandlerAt
    <3> QED  BY <2>4, <2>6, <3>1, <3>3, EndKept DEF EngineInv
  <2> QED  BY <1>7, <2>7, <2>8 DEF CommitAlert
<1>8. CASE PublishOutcome
  <2> DEFINE more == [outcomes EXCEPT ![Current] = @ + 1]
  <2>1. outcomes' \in {outcomes, more} /\ step = "publish"
    BY <1>8 DEF PublishOutcome
  <2>2. UNCHANGED <<verdict, results, alerts>>
    BY <1>8 DEF PublishOutcome
  <2>3. more \in [Messages -> Nat] /\ more[Current] > 0 /\ \A m \in Messages : more[m] >= outcomes[m]
    BY <1>1, <1>2
  <2>4. Grows
    <3>1. outcomes' \in [Messages -> Nat] /\ \A m \in Messages : outcomes'[m] >= outcomes[m]
      <4>1. CASE outcomes' = outcomes
        BY <1>1, <4>1
      <4>2. CASE outcomes' = more
        BY <2>3, <4>2
      <4> QED  BY <2>1, <4>1, <4>2
    <3>2. alerts' \in [Messages -> Nat] /\ \A m \in Messages : alerts'[m] >= alerts[m]
      BY <1>1, <2>2
    <3> QED  BY <1>2, <1>3, <2>2, <3>1, <3>2 DEF Grows
  <2>5. step' = "compare"
    BY <1>8 DEF PublishOutcome, Again
  <2>6. EngineType' /\ MisplacedElsewhere' /\ HandlerAt'
    <3>1. outcomes' \in [Messages -> Nat]
      BY <1>1, <2>1, <2>3
    <3>2. EngineType'
      BY <1>1, <2>2, <2>5, <3>1 DEF EngineType, Result
    <3> QED  BY <2>2, <2>5, <3>2, IdleAt DEF EngineInv, MisplacedElsewhere
  <2>7. CASE Again
    BY <2>4, <2>6, <2>7, AgainKeeps
  <2>8. ASSUME outcomes' = more, Returns PROVE EngineInv'
    <3>1. PICK i \in DOMAIN results : results[i] = [message |-> Current, verdict |-> verdict]
      BY <2>1 DEF EngineInv, HandlerAt
    <3>2. verdict.type # Correct => alerts[Current] > 0
      BY <2>1 DEF EngineInv, HandlerAt
    <3>3. /\ outcomes'[Current] > 0 /\ i \in DOMAIN results'
          /\ results'[i].message = Current
          /\ results'[i].verdict.type # Correct => alerts'[Current] > 0
      BY <2>2, <2>3, <2>8, <3>1, <3>2
    <3>4. HandledToTheEnd'
      <4> SUFFICES ASSUME NEW o \in handled'
                   PROVE  /\ outcomes'[log'[o]] > 0
                          /\ \E j \in DOMAIN results' :
                                /\ results'[j].message = log'[o]
                                /\ results'[j].verdict.type # Correct => alerts'[log'[o]] > 0
        BY DEF HandledToTheEnd
      <4>1. CASE o = position
        BY <1>3, <3>3, <4>1 DEF Current
      <4>2. CASE o \in handled
        <5>1. o \in DOMAIN log
          BY <4>2 DEF BusInv, BusType
        <5>2. log[o] \in Messages
          BY <1>2, <5>1
        <5>3. outcomes[log[o]] > 0 /\ outcomes'[log[o]] >= outcomes[log[o]]
          BY <2>3, <2>8, <4>2, <5>2 DEF EngineInv, HandledToTheEnd
        <5>4. outcomes'[log[o]] > 0
          BY <1>1, <2>3, <2>8, <5>2, <5>3
        <5>5. \E j \in DOMAIN results : /\ results[j].message = log[o]
                                        /\ results[j].verdict.type # Correct => alerts[log[o]] > 0
          BY <4>2 DEF EngineInv, HandledToTheEnd
        <5> QED  BY <1>3, <2>2, <5>4, <5>5
      <4> QED  BY <2>8, <4>1, <4>2 DEF Returns
    <3> QED  BY <2>6, <3>4 DEF EngineInv
  <2> QED  BY <1>8, <2>7, <2>8 DEF PublishOutcome
<1> QED  BY <1>5, <1>6, <1>7, <1>8 DEF Handler

-----------------------------------------------------------------------------
(* Repetitions.                                                            *)

\* One more message at the end of a stretch of the topic counts once.
LEMMA UptoGrows ==
    ASSUME NEW s, NEW m, NEW p \in Nat
    PROVE  /\ IsFiniteSet(Upto(s, m, p)) /\ Cardinality(Upto(s, m, p)) \in Nat
           /\ Cardinality(Upto(s, m, p + 1)) =
                Cardinality(Upto(s, m, p)) + IF s[p + 1] = m THEN 1 ELSE 0
<1>1. IsFiniteSet(1 .. p)
  BY FS_Interval
<1>2. IsFiniteSet(Upto(s, m, p))
  BY <1>1, FS_Subset DEF Upto
<1>3. Cardinality(Upto(s, m, p)) \in Nat
  BY <1>2, FS_CardinalityType
<1>4. CASE s[p + 1] = m
  <2>1. Upto(s, m, p + 1) = Upto(s, m, p) \cup {p + 1} /\ p + 1 \notin Upto(s, m, p)
    BY <1>4 DEF Upto
  <2> QED  BY <1>2, <1>3, <1>4, <2>1, FS_AddElement
<1>5. CASE s[p + 1] # m
  <2>1. Upto(s, m, p + 1) = Upto(s, m, p)
    BY <1>5 DEF Upto
  <2> QED  BY <1>2, <1>3, <1>5, <2>1
<1> QED  BY <1>4, <1>5

\* A row more for one message.
LEMMA WrittenGrows ==
    ASSUME NEW m, EngineType
    PROVE  /\ Written(m) \in Nat
           /\ UNCHANGED results => Written(m)' = Written(m)
           /\ Current \in Messages /\ results' = Append(results, Row) =>
                Written(m)' = Written(m) + IF Current = m THEN 1 ELSE 0
<1> DEFINE Of(S) == {i \in DOMAIN S : S[i].message = m}
<1>1. results \in Seq(Result) /\ verdict \in Verdict
  BY DEF EngineType, Result
<1>2. IsFiniteSet(Of(results))
  <2>1. IsFiniteSet(1 .. Len(results))
    BY <1>1, FS_Interval
  <2> QED  BY <1>1, <2>1, FS_Subset
<1>3. Cardinality(Of(results)) \in Nat
  BY <1>2, FS_CardinalityType
<1>4. ASSUME Current \in Messages, results' = Append(results, Row)
      PROVE  Cardinality(Of(results')) = Cardinality(Of(results)) + IF Current = m THEN 1 ELSE 0
  <2>1. Row \in Result /\ Row.message = Current
    BY <1>1, <1>4 DEF Row, Result
  <2>2. DOMAIN results' = DOMAIN results \cup {Len(results) + 1}
    BY <1>1, <1>4, <2>1
  <2>3. Len(results) + 1 \notin DOMAIN results /\ results'[Len(results) + 1] = Row
    BY <1>1, <1>4, <2>1
  <2>4. \A i \in DOMAIN results : results'[i] = results[i]
    BY <1>1, <1>4, <2>1
  <2>5. CASE Current = m
    <3>1. Of(results') = Of(results) \cup {Len(results) + 1} /\ Len(results) + 1 \notin Of(results)
      BY <2>1, <2>2, <2>3, <2>4, <2>5
    <3> QED  BY <1>2, <1>3, <2>5, <3>1, FS_AddElement
  <2>6. CASE Current # m
    <3>1. Of(results') = Of(results)
      BY <2>1, <2>2, <2>3, <2>4, <2>6
    <3> QED  BY <1>3, <2>6, <3>1
  <2> QED  BY <2>5, <2>6
<1> QED  BY <1>3, <1>4 DEF Written

\* What is paid for in a state stays so when nothing but the faults has grown.
PaidAt(m) ==
    /\ Written(m) <= Cardinality(Upto(log, m, From)) + faults
    /\ phase = "handle" /\ step \in {"compare", "result"} /\ Current = m
          => Written(m) < Cardinality(Upto(log, m, position)) + faults
    /\ alerts[m] <= Written(m)
    /\ step = "alert" /\ Current = m => alerts[m] < Written(m)

Places == position <= committed + 1 /\ (phase = "fetch" => position = committed)

\* The numbers that are compared.
LEMMA PaidTypes ==
    ASSUME BusInv, EngineInv, NEW m \in Messages
    PROVE  /\ position \in Nat /\ committed \in Nat /\ From \in Nat /\ faults \in Nat
           /\ Written(m) \in Nat /\ alerts[m] \in Nat
           /\ \A p \in Nat : Cardinality(Upto(log, m, p)) \in Nat
<1>1. position \in Nat /\ committed \in Nat /\ faults \in Nat
  BY BusAssumption DEF BusInv, BusType
<1>2. Written(m) \in Nat /\ alerts[m] \in Nat
  BY WrittenGrows DEF EngineInv, EngineType
<1> QED  BY <1>1, <1>2, UptoGrows DEF From

\* The consumer is one message ahead of the group's offset at most.
LEMMA PlacesStep ==
    ASSUME BusInv, Places, Next \/ UNCHANGED vars
    PROVE  Places'
<1>1. committed \in Nat /\ position \in Nat /\ committed <= position
  BY DEF BusInv, BusType, PositionBound
<1>2. CASE Next
  <2>1. CASE Handler
    BY <2>1, <1>1 DEF Places, Handler, DoCompare, CommitResult, CommitAlert, PublishOutcome, Goes, Again,
                 Fails, Returns, consumer, Working
  <2>2. CASE Fetch \/ Commit \/ Restart
    BY <2>2, <1>1 DEF Places, Fetch, Commit, Restart
  <2>3. CASE CommitFails \/ DropFails \/ Crash
    BY <2>3, <1>1 DEF Places, CommitFails, Fails, DropFails, Crash
  <2>4. ASSUME NEW m \in Messages, Publish(m) PROVE Places'
    BY <2>4 DEF Places, Publish, consumer
  <2> QED  BY <1>2, <2>1, <2>2, <2>3, <2>4 DEF Next, Consume
<1>3. CASE UNCHANGED vars
  BY <1>3 DEF Places, vars, consumer
<1> QED  BY <1>2, <1>3

\* At the start nothing is written.
LEMMA InitPaid == Init => Paid
<1> SUFFICES ASSUME Init, NEW m \in Messages
             PROVE  /\ Written(m) = 0 /\ alerts[m] = 0 /\ From = 0 /\ faults = 0
                    /\ Cardinality(Upto(log, m, 0)) \in Nat
  BY DEF Paid, Init, BusInit
<1>1. {i \in DOMAIN results : results[i].message = m} = {}
  BY DEF Init
<1>2. Written(m) = 0
  BY <1>1, FS_EmptySet DEF Written
<1> QED  BY <1>2, UptoGrows DEF Init, BusInit, From

\* A step of the handler: a result or an alert more is paid by its own
\* message, and an attempt that begins again by its fault.
LEMMA HandlerPays ==
    ASSUME BusInv, EngineInv, Handler, NEW m \in Messages, PaidAt(m)
    PROVE  PaidAt(m)'
<1>1. /\ position \in Nat /\ faults \in Nat /\ Written(m) \in Nat /\ alerts[m] \in Nat
      /\ Cardinality(Upto(log, m, position)) \in Nat
  BY PaidTypes
<1>2. phase = "handle" /\ From = position
  BY DEF Handler, DoCompare, CommitResult, CommitAlert, PublishOutcome, Working, From
<1>3. log \in Seq(Messages) /\ position \in DOMAIN log /\ Current \in Messages
  BY <1>2 DEF BusInv, BusType, PositionBound, Current
<1>4. log' = log /\ position' = position /\ phase' # "stopped" /\ Current' = Current /\ From' = position
  BY <1>2 DEF Handler, DoCompare, CommitResult, CommitAlert, PublishOutcome, Working, Goes, Again,
         Fails, Returns, producer, consumer, From, Current
<1>5. Upto(log', m, From') = Upto(log, m, position) /\ Upto(log', m, position') = Upto(log, m, position)
  BY <1>4
<1> DEFINE n == Cardinality(Upto(log, m, position))
           w == Written(m)
<1>6. n \in Nat /\ w \in Nat /\ w <= n + faults /\ alerts[m] <= w
  BY <1>1, <1>2 DEF PaidAt
<1>7. step \in {"compare", "result"} /\ Current = m => w < n + faults
  BY <1>2 DEF PaidAt
<1>8. SUFFICES /\ Written(m)' <= n + faults'
               /\ phase' = "handle" /\ step' \in {"compare", "result"} /\ Current = m
                     => Written(m)' < n + faults'
               /\ alerts'[m] <= Written(m)'
               /\ step' = "alert" /\ Current = m => alerts'[m] < Written(m)'
  BY <1>4, <1>5 DEF PaidAt
<1>9. /\ UNCHANGED results => Written(m)' = w
      /\ results' = Append(results, Row) => Written(m)' = w + IF Current = m THEN 1 ELSE 0
  BY <1>3, WrittenGrows DEF EngineInv
<1> HIDE DEF n, w
<1>10. CASE DoCompare
  <2>1. UNCHANGED <<results, alerts, faults>> /\ step = "compare" /\ step' \in {"compare", "result"}
    BY <1>10 DEF DoCompare, Goes, Again
  <2> QED  BY <1>6, <1>7, <1>9, <2>1
<1>11. CASE CommitResult
  <2>1. step = "result" /\ UNCHANGED alerts
    BY <1>11 DEF CommitResult
  <2>2. CASE results' = Append(results, Row) /\ UNCHANGED faults /\ step' \in {"publish", "alert"}
    BY <1>1, <1>6, <1>7, <1>9, <2>1, <2>2
  <2>3. CASE results' \in {results, Append(results, Row)} /\ faults' = faults + 1 /\ step' = "compare"
    BY <1>1, <1>6, <1>7, <1>9, <2>1, <2>3
  <2> QED  BY <1>11, <2>2, <2>3 DEF CommitResult, Row, Goes, Again, Fault
<1>12. CASE CommitAlert
  <2> DEFINE more == [alerts EXCEPT ![Current] = @ + 1]
  <2>1. step = "alert" /\ UNCHANGED results /\ alerts' \in {alerts, more}
    BY <1>12 DEF CommitAlert
  <2>2. alerts \in [Messages -> Nat]
    BY DEF EngineInv, EngineType
  <2>3. alerts'[m] = alerts[m] \/ (Current = m /\ alerts'[m] = alerts[m] + 1)
    BY <1>3, <2>1, <2>2
  <2>4. Current = m => alerts[m] < w
    BY <2>1 DEF PaidAt, w
  <2>5. (UNCHANGED faults /\ step' = "publish") \/ (faults' = faults + 1 /\ step' = "compare")
    BY <1>12 DEF CommitAlert, Goes, Again, Fault
  <2> QED  BY <1>1, <1>6, <1>9, <2>1, <2>3, <2>4, <2>5
<1>13. CASE PublishOutcome
  <2>1. step = "publish" /\ UNCHANGED <<results, alerts>> /\ step' = "compare"
    BY <1>13 DEF PublishOutcome, Again
  <2>2. (UNCHANGED faults /\ phase' = "commit") \/ faults' = faults + 1
    BY <1>13 DEF PublishOutcome, Returns, Fault
  <2> QED  BY <1>1, <1>6, <1>9, <2>1, <2>2
<1> QED  BY <1>10, <1>11, <1>12, <1>13 DEF Handler

\* A step of the loop, of the producer or of the world: a message fetched may
\* be handled once more, and every other way back costs a fault.
LEMMA LoopPays ==
    ASSUME BusInv, EngineInv, Places, NEW m \in Messages, PaidAt(m),
           UNCHANGED <<results, alerts>>, step' = step \/ step' = "compare",
           \/ \E k \in Messages : Publish(k) /\ step' = step
           \/ Fetch \/ Commit \/ CommitFails \/ DropFails \/ Restart
           \/ Crash /\ step' = "compare"
    PROVE  PaidAt(m)'
<1> DEFINE N(p) == Cardinality(Upto(log, m, p))
           w == Written(m)
<1>1. /\ position \in Nat /\ committed \in Nat /\ From \in Nat /\ faults \in Nat
      /\ w \in Nat /\ alerts[m] \in Nat /\ N(From) \in Nat
  BY PaidTypes
<1>2. Written(m)' = w
  BY WrittenGrows DEF EngineInv
<1>3. committed <= position /\ position <= committed + 1
  BY DEF BusInv, PositionBound, Places
<1>4. \A p \in Nat : N(p) \in Nat /\ N(p + 1) = N(p) + IF log[p + 1] = m THEN 1 ELSE 0
  BY UptoGrows
<1>5. w <= N(From) + faults /\ alerts[m] <= w
  BY DEF PaidAt
<1>6. phase # "handle" => step = "compare"
  BY DEF EngineInv, HandlerAt
<1>7. phase = "fetch" => position = committed
  BY DEF Places
<1> HIDE DEF w
<1>8. CASE \E k \in Messages : Publish(k) /\ step' = step
  <2>1. PICK k \in Messages : Publish(k) /\ step' = step
    BY <1>8
  <2>2. log' \in {log, Append(log, k)} /\ (faults' = faults \/ faults' = faults + 1)
    BY <2>1 DEF Publish, Fault
  <2>3. UNCHANGED consumer
    BY <2>1 DEF Publish
  <2>4. log \in Seq(Messages) /\ position \in 0 .. Len(log) /\ committed \in 0 .. Len(log)
    BY DEF BusInv, BusType
  <2>5. \A o \in 1 .. Len(log) : log'[o] = log[o]
    BY <2>2, <2>4
  <2>6. \A p \in 0 .. Len(log) : Upto(log', m, p) = Upto(log, m, p)
    BY <2>4, <2>5 DEF Upto
  <2>7. From' = From /\ From \in 0 .. Len(log) /\ position' = position /\ phase' = phase
    BY <2>3, <2>4 DEF From, consumer
  <2>8. Upto(log', m, From') = Upto(log, m, From) /\ Upto(log', m, position') = Upto(log, m, position)
    BY <2>4, <2>6, <2>7
  <2>9. phase = "handle" => Current' = Current
    BY <2>5, <2>7 DEF BusInv, PositionBound, Current
  <2>10. N(position) \in Nat
    BY <1>1, <1>4
  <2>11. w <= N(From) + faults'
    BY <1>1, <1>5, <2>2
  <2>12. phase = "handle" /\ step \in {"compare", "result"} /\ Current = m => w < N(position) + faults'
    BY <1>1, <2>2, <2>10 DEF PaidAt, w
  <2>13. step = "alert" /\ Current = m => alerts[m] < w
    BY DEF PaidAt, w
  <2> HIDE DEF N
  <2>14. step \in {"alert"} => phase = "handle"
    BY <1>6
  <2> QED  BY <1>2, <1>5, <2>1, <2>7, <2>8, <2>9, <2>11, <2>12, <2>13, <2>14 DEF PaidAt, N
<1>9. ASSUME log' = log,
             step' = "compare",
             w <= N(From') + faults',
             phase' = "handle" /\ Current' = m => w < N(position') + faults'
      PROVE  PaidAt(m)'
  BY <1>2, <1>5, <1>9 DEF PaidAt
<1>10. CASE Fetch
  <2>1. log' = log /\ faults' = faults /\ position' = position + 1 /\ position = committed /\ phase = "fetch"
        /\ phase' = "handle"
    BY <1>7, <1>10 DEF Fetch, producer
  <2>2. From' = position + 1 /\ From = position /\ Current' = log[position + 1] /\ step' = "compare"
    BY <1>6, <2>1 DEF From, Current
  <2>3. N(position) \in Nat /\ N(position + 1) = N(position) + IF log[position + 1] = m THEN 1 ELSE 0
    BY <1>1, <1>4
  <2>4. w <= N(From') + faults'
    BY <1>1, <1>5, <2>1, <2>2, <2>3
  <2>5. Current' = m => w < N(position') + faults'
    BY <1>1, <1>5, <2>1, <2>2, <2>3
  <2> QED  BY <1>9, <2>1, <2>2, <2>4, <2>5
<1>11. CASE Commit \/ Restart
  <2>1. log' = log /\ faults' = faults /\ phase' = "fetch" /\ From' = From /\ phase # "handle"
    BY <1>11 DEF Commit, Restart, producer, From
  <2> QED  BY <1>5, <1>6, <1>9, <2>1
<1>12. CASE CommitFails \/ DropFails
  <2>1. log' = log /\ faults' = faults + 1 /\ position' = position /\ From' = From /\ From = position
        /\ phase # "handle"
    BY <1>12 DEF CommitFails, DropFails, Fault, Fails, producer, From
  <2>2. w < N(position) + faults'
    BY <1>1, <1>5, <2>1
  <2>3. N(position) \in Nat
    BY <1>1, <1>4
  <2> QED  BY <1>1, <1>6, <1>9, <2>1, <2>2, <2>3
<1>13. CASE Crash /\ step' = "compare"
  <2>1. log' = log /\ faults' = faults + 1 /\ phase' = "stopped" /\ From' = committed /\ From = position
    BY <1>13 DEF Crash, Fault, producer, From
  <2>2. N(committed) \in Nat /\ N(committed + 1) \in Nat /\ N(committed + 1) <= N(committed) + 1
    BY <1>1, <1>4
  <2>3. position = committed \/ position = committed + 1
    BY <1>1, <1>3
  <2>4. w <= N(committed) + faults'
    <3>1. CASE position = committed
      BY <1>1, <1>5, <2>1, <2>2, <3>1
    <3>2. CASE position = committed + 1
      BY <1>1, <1>5, <2>1, <2>2, <3>2
    <3> QED  BY <2>3, <3>1, <3>2
  <2> QED  BY <1>9, <1>13, <2>1, <2>4
<1> QED  BY <1>8, <1>10, <1>11, <1>12, <1>13

\* Every row is paid for by a copy in the topic or by a fault.
LEMMA PaidStep ==
    ASSUME BusInv, EngineInv, Paid, Next \/ UNCHANGED vars
    PROVE  Paid'
<1>1. Places /\ \A m \in Messages : PaidAt(m)
  BY DEF Paid, Places, PaidAt
<1>2. Places'
  BY <1>1, PlacesStep
<1>3. ASSUME NEW m \in Messages PROVE PaidAt(m)'
  <2>1. PaidAt(m)
    BY <1>1
  <2>2. CASE Handler
    BY <2>1, <2>2, HandlerPays
  <2>3. CASE Crash /\ step' = "compare" /\ UNCHANGED <<verdict, results, alerts, outcomes>>
    BY <1>1, <2>1, <2>3, LoopPays
  <2>4. CASE /\ UNCHANGED engine
             /\ \/ \E k \in Messages : Publish(k)
                \/ Fetch \/ Commit \/ CommitFails \/ DropFails \/ Restart
    BY <1>1, <2>1, <2>4, LoopPays DEF engine
  <2>5. CASE UNCHANGED vars
    BY <2>1, <2>5 DEF vars, producer, consumer, engine, PaidAt, Written, From, Current
  <2> QED  BY <2>2, <2>3, <2>4, <2>5 DEF Next, Consume
<1> QED  BY <1>2, <1>3 DEF Paid, Places, PaidAt

-----------------------------------------------------------------------------
(* The theorems.                                                           *)

\* The inductive invariant of the engine behind the bus: nothing is passed
\* over, what has been handled has its result, its alert and its event, every
\* row is paid for, and no goods are sent to the bin they were seen in -- for
\* every topic, stock, number of tries and of failures.
THEOREM InvCorrect == Spec => []Inv
<1>1. Init => Inv
  <2>1. Init => EngineInv
    BY DEF Init, BusInit, EngineInv, EngineType, HandlerAt, HandledToTheEnd,
           MisplacedElsewhere, Verdict, Correct
  <2> QED  BY <2>1, InitInv, InitPaid DEF Inv, EngineInv
<1>2. Inv /\ [Next]_vars => Inv'
  <2> SUFFICES ASSUME BusInv, EngineInv, Paid, [Next]_vars PROVE BusInv' /\ EngineInv' /\ Paid'
    BY DEF Inv, EngineInv
  <2>1. BusInv'
    <3>1. CASE Next
      BY <3>1, EngineIsHandler, TypeStep, PositionStep DEF BusInv
    <3>2. CASE UNCHANGED vars
      BY <3>2 DEF vars, producer, consumer, BusInv, BusType, NothingSkipped, PositionBound, TriesLeft, Dealt
    <3> QED  BY <3>1, <3>2
  <2>2. EngineInv'
    <3>1. CASE Handler
      BY <3>1, HandlerKeepsEngine
    <3>2. ASSUME UNCHANGED engine,
                 (\E m \in Messages : Publish(m)) \/ Fetch \/ Commit \/ CommitFails \/ DropFails \/ Restart
          PROVE  EngineInv'
      BY <3>2, LoopKeepsEngine
    <3>3. CASE Crash /\ step' = "compare" /\ UNCHANGED <<verdict, results, alerts, outcomes>>
      <4>1. Grows /\ UNCHANGED handled
        BY <3>3 DEF Crash, producer, Grows, BusInv, BusType, EngineInv, EngineType
      <4>2. HandledToTheEnd' /\ HandlerAt'
        BY <3>3, <4>1, EndKept, IdleAt
      <4> QED  BY <3>3, <4>2 DEF EngineInv, EngineType, MisplacedElsewhere
    <3>4. CASE UNCHANGED vars
      BY <3>4 DEF vars, producer, consumer, engine, EngineInv, EngineType, HandlerAt,
                  HandledToTheEnd, MisplacedElsewhere, Current
    <3> QED  BY <3>1, <3>2, <3>3, <3>4 DEF Next, Consume
  <2>3. Paid'
    BY PaidStep
  <2> QED  BY <2>1, <2>2, <2>3
<1> QED  BY <1>1, <1>2, PTL DEF Spec

\* Whatever fails or crashes and however often, the group's offset covers only
\* messages that have been handled or have used up their tries.
THEOREM NothingSkippedCorrect == Spec => []NothingSkipped
<1>1. Inv => NothingSkipped
  BY DEF Inv, BusInv
<1> QED  BY <1>1, InvCorrect, PTL

\* However often the consumer fails or crashes, each result beyond the first
\* of a copy has a fault of its own, and each alert a result.
THEOREM ExtraCorrect == Spec => []ExtraNeedFaults
<1>1. Inv => ExtraNeedFaults
  <2> SUFFICES ASSUME Inv, NEW m \in Messages
               PROVE  Written(m) <= Count(m, log) + faults /\ alerts[m] <= Written(m)
    BY DEF ExtraNeedFaults
  <2>1. BusInv /\ EngineInv /\ PaidAt(m)
    BY DEF Inv, EngineInv, Paid, PaidAt
  <2>2. From \in 0 .. Len(log) /\ log \in Seq(Messages)
    BY <2>1 DEF BusInv, BusType, From
  <2>3. IsFiniteSet(1 .. Len(log))
    BY <2>2, FS_Interval
  <2>4. {i \in DOMAIN log : log[i] = m} \subseteq 1 .. Len(log)
    BY <2>2
  <2>5. IsFiniteSet({i \in DOMAIN log : log[i] = m})
    BY <2>3, <2>4, FS_Subset
  <2>6. Upto(log, m, From) \subseteq {i \in DOMAIN log : log[i] = m}
    BY <2>2 DEF Upto
  <2>7. /\ Cardinality(Upto(log, m, From)) <= Count(m, log)
        /\ Count(m, log) \in Nat
    BY <2>5, <2>6, FS_Subset, FS_CardinalityType DEF Count
  <2>8. From \in Nat /\ faults \in Nat /\ Written(m) \in Nat /\ Cardinality(Upto(log, m, From)) \in Nat
    BY <2>1, PaidTypes
  <2>9. Written(m) <= Cardinality(Upto(log, m, From)) + faults /\ alerts[m] <= Written(m)
    BY <2>1 DEF PaidAt
  <2> QED  BY <2>7, <2>8, <2>9
<1> QED  BY <1>1, InvCorrect, PTL
=============================================================================
