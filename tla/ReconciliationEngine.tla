------------------------- MODULE ReconciliationEngine -------------------------
(***************************************************************************)
(* reconciliation_engine.py as the handler of an event bus consumer: it    *)
(* compares an observation with the stock, commits a result, commits an    *)
(* alert when they differ and publishes the outcome.  Each of the three    *)
(* may fail on its own, and the consumer then runs the handler again from  *)
(* the start.                                                              *)
(***************************************************************************)
EXTENDS EventBus

CONSTANTS
    Bins, Skus,
    Observed, \* per message [bin, code]; code None for an empty bin
    Stock,    \* the active inventory rows: a set of [sku, bin, qty]
    None

ASSUME EngineAssumption ==
    /\ Observed \in [Messages -> [bin : Bins, code : Skus \cup {None}]]
    /\ Stock \subseteq [sku : Skus, bin : Bins, qty : Nat] /\ IsFiniteSet(Stock)
    /\ None \notin Bins

VARIABLES
    step,    \* where reconcile_observation is
    verdict, \* what it has found
    results, \* rows of reconciliation_results
    alerts,  \* per message, rows of alerts
    outcomes \* per message, events published

engine == <<step, verdict, results, alerts, outcomes>>
vars   == <<producer, consumer, faults, engine>>

Correct == "CORRECT_PLACEMENT"
Verdict == [type : {Correct, "MISPLACED", "MISSING", "UNKNOWN", "QUANTITY_DISCREPANCY"},
            belongs : Bins \cup {None}]
Raised  == "raised"

EngineType ==
    /\ step \in {"compare", "result", "alert", "publish"}
    /\ verdict \in Verdict
    /\ results \in Seq([message : Messages, verdict : Verdict])
    /\ alerts \in [Messages -> Nat] /\ outcomes \in [Messages -> Nat]

Init ==
    /\ BusInit /\ step = "compare" /\ verdict = [type |-> Correct, belongs |-> None]
    /\ results = <<>>
    /\ alerts = [m \in Messages |-> 0] /\ outcomes = [m \in Messages |-> 0]

-----------------------------------------------------------------------------
Here(bin)  == {r \in Stock : r.bin = bin}
Rows(code) == {r \in Stock : r.sku = code}
Quantity(bin) == MapThenSumSet(LAMBDA r : r.qty, Here(bin))
Is(type)   == [type |-> type, belongs |-> None]

\* A code that is not the expected one: scalar_one_or_none raises when it has
\* several rows.
Elsewhere(code) ==
    CASE Rows(code) = {} -> Is("UNKNOWN")
      [] Cardinality(Rows(code)) = 1 ->
            [type |-> "MISPLACED", belongs |-> (CHOOSE r \in Rows(code) : TRUE).bin]
      [] OTHER -> Is(Raised)

\* The first of the bin's rows, in no given order, is the one expected, the
\* sum of them all its quantity; one code seen counts as one piece.
Compare(bin, code) ==
    IF Here(bin) = {}
    THEN {IF code = None THEN Is(Correct) ELSE Elsewhere(code)}
    ELSE {CASE code = None -> Is("MISSING")
            [] code = first.sku -> Is(IF Quantity(bin) = 1 THEN Correct
                                      ELSE "QUANTITY_DISCREPANCY")
            [] OTHER -> Elsewhere(code) : first \in Here(bin)}

Working == phase = "handle"
Goes(s) == step' = s /\ UNCHANGED <<consumer, producer>>
Again   == step' = "compare" /\ Fails /\ UNCHANGED producer

\* The lookup, and its exceptions.
DoCompare ==
    /\ Working /\ step = "compare"
    /\ \E v \in Compare(Observed[Current].bin, Observed[Current].code) :
        IF v.type = Raised THEN Again /\ UNCHANGED <<verdict, faults>>
                           ELSE Goes("result") /\ verdict' = v /\ UNCHANGED faults
    /\ UNCHANGED <<results, alerts, outcomes>>

\* A commit that raises may have reached the database all the same.
CommitResult ==
    /\ Working /\ step = "result"
    /\ LET more == Append(results, [message |-> Current, verdict |-> verdict])
       IN  \/ /\ results' = more
              /\ Goes(IF verdict.type = Correct THEN "publish" ELSE "alert")
              /\ UNCHANGED faults
           \/ Fault /\ Again /\ results' \in {results, more}
    /\ UNCHANGED <<verdict, alerts, outcomes>>

CommitAlert ==
    /\ Working /\ step = "alert"
    /\ LET more == [alerts EXCEPT ![Current] = @ + 1]
       IN  \/ alerts' = more /\ Goes("publish") /\ UNCHANGED faults
           \/ Fault /\ Again /\ alerts' \in {alerts, more}
    /\ UNCHANGED <<verdict, results, outcomes>>

\* Mismatch or verified; publish's own attempts are taken together.
PublishOutcome ==
    /\ Working /\ step = "publish"
    /\ LET more == [outcomes EXCEPT ![Current] = @ + 1]
       IN  \/ outcomes' = more /\ step' = "compare" /\ Returns /\ UNCHANGED <<producer, faults>>
           \/ Fault /\ Again /\ outcomes' \in {outcomes, more}
    /\ UNCHANGED <<verdict, results, alerts>>

-----------------------------------------------------------------------------
Handler == DoCompare \/ CommitResult \/ CommitAlert \/ PublishOutcome

Consume == Handler \/ ((Fetch \/ Commit \/ CommitFails) /\ UNCHANGED engine)

Next ==
    \/ Consume
    \/ (\E m \in Messages : Publish(m)) /\ UNCHANGED engine
    \/ (DropFails \/ Restart) /\ UNCHANGED engine
    \/ Crash /\ step' = "compare" /\ UNCHANGED <<verdict, results, alerts, outcomes>>

\* run() goes on while it runs; that the process is started again is not
\* asked.
Spec == Init /\ [][Next]_vars /\ WF_vars(Consume)

-----------------------------------------------------------------------------
(* Properties.                                                             *)

Count(m, S) == Cardinality({i \in DOMAIN S : S[i] = m})
Written(m)  == Cardinality({i \in DOMAIN results : results[i].message = m})

\* The handler is not idempotent, so a repetition leaves a second result and a
\* second alert; but each needs a failure of its own, or a second copy in the
\* topic (reconcile_observation, run).
ExtraNeedFaults ==
    \A m \in Messages : /\ Written(m) <= Count(m, log) + faults
                        /\ alerts[m] <= Written(m)

\* A message handled is handled to the end: it has its result, its alert if
\* the two differ, and its event, whatever was repeated on the way.
HandledToTheEnd ==
    \A o \in handled :
        /\ outcomes[log[o]] > 0
        /\ \E i \in DOMAIN results : /\ results[i].message = log[o]
                                     /\ results[i].verdict.type # Correct => alerts[log[o]] > 0

\* Where a bin has one kind of goods, goods are not said to belong into the
\* bin they were seen in.
Fits(m, v) ==
    LET bin == Observed[m].bin
    IN  (\A r, s \in Here(bin) : r.sku = s.sku) => v.belongs # bin
MisplacedElsewhere ==
    \A i \in DOMAIN results : Fits(results[i].message, results[i].verdict)

\* Why HandledToTheEnd holds: what a step of the handler rests on has been
\* committed for this very message.
HandlerAt ==
    /\ phase # "handle" => step = "compare"
    /\ step # "compare" => Fits(Current, verdict)
    /\ step \in {"alert", "publish"} =>
          \E i \in DOMAIN results : results[i] = [message |-> Current, verdict |-> verdict]
    /\ step = "publish" /\ verdict.type # Correct => alerts[Current] > 0

\* Why ExtraNeedFaults holds: each copy of a message that a consumer has come
\* to, counted from where the next one would begin, pays for one result, each
\* fault for one more, and each result for one alert.
Upto(s, m, p) == {o \in 1 .. p : s[o] = m}
From == IF phase = "stopped" THEN committed ELSE position
Paid ==
    /\ position <= committed + 1 /\ (phase = "fetch" => position = committed)
    /\ \A m \in Messages :
        /\ Written(m) <= Cardinality(Upto(log, m, From)) + faults
        /\ phase = "handle" /\ step \in {"compare", "result"} /\ Current = m
              => Written(m) < Cardinality(Upto(log, m, position)) + faults
        /\ alerts[m] <= Written(m)
        /\ step = "alert" /\ Current = m => alerts[m] < Written(m)

\* The inductive invariant.
Inv == BusInv /\ EngineType /\ HandlerAt /\ HandledToTheEnd /\ MisplacedElsewhere /\ Paid

\* A message that cannot be handled does not hold up those behind it: as long
\* as the consumer lives it comes to the end of the topic, with every message
\* handled or given up (run).
CatchesUp == []<>(DOMAIN log \subseteq handled \cup givenUp \/ phase \in {"ended", "stopped"})
=============================================================================
