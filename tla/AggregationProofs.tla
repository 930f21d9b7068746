------------------------- MODULE AggregationProofs -------------------------
(* Theorems about Aggregation, for any events, processes and clock. *)
EXTENDS Aggregation, FiniteSetTheorems, TLAPS

USE AggregationAssumption

-----------------------------------------------------------------------------
(* What can be counted *)

\* A SELECT counts no more rows than were ever ingested, and ingesting another
\* event makes no count too large.
LEMMA Counts ==
    ASSUME NEW S \in SUBSET Events
    PROVE  /\ Cardinality(S) \in Nat
           /\ \A T \in SUBSET S : Cardinality(T) \in Nat /\ Cardinality(T) <= Cardinality(S)
           /\ \A e \in Events : Cardinality(S) <= Cardinality(S \union {e})
<1>1. \A T \in SUBSET Events : IsFiniteSet(T) /\ Cardinality(T) \in Nat
  BY FS_Subset, FS_CardinalityType
<1>2. \A T \in SUBSET S : Cardinality(T) <= Cardinality(S)
  BY <1>1, FS_Subset
<1>3. ASSUME NEW e \in Events PROVE Cardinality(S) <= Cardinality(S \union {e})
  <2>1. IsFiniteSet(S \union {e}) /\ S \subseteq S \union {e}
    BY <1>1, <1>3
  <2>2. QED
    BY <2>1, FS_Subset
<1>4. QED
  BY <1>1, <1>2, <1>3

\* Every record a process's run is replaced by is one.
LEMMA RunValues ==
    ASSUME NEW r \in Run, NEW m \in Marks, NEW t \in Marks, NEW n \in Nat
    PROVE  /\ NoRun \in Run
           /\ [r EXCEPT !.since = m, !.stamp = t] \in Run
           /\ [r EXCEPT !.seen = n] \in Run
BY DEF Run, NoRun, Marks

-----------------------------------------------------------------------------
(* The invariant *)

LEMMA IInvInit == Init => IInv
<1> SUFFICES ASSUME Init PROVE IInv
  OBVIOUS
<1>1. 0 \in Times /\ NoRun \in Run
  BY DEF Times, Run, NoRun, Marks
<1>2. TypeOK
  BY <1>1 DEF Init, TypeOK, Steps
<1>3. Cardinality(ingested) = 0
  BY FS_EmptySet DEF Init
<1>4. QED
  BY <1>2, <1>3 DEF Init, IInv, NeverInflated, At, NoRun

LEMMA IInvStep == IInv /\ [Next]_vars => IInv'
<1> SUFFICES ASSUME IInv, [Next]_vars PROVE IInv'
  OBVIOUS
<1>0. /\ ingested \in SUBSET Events /\ stored \in SUBSET ingested
      /\ \A p \in Processes : run[p] \in Run /\ run[p].seen \in Nat
  BY DEF IInv, TypeOK, Run
<1>a. /\ Cardinality(ingested) \in Nat
      /\ \A T \in SUBSET ingested : Cardinality(T) \in Nat /\ Cardinality(T) <= Cardinality(ingested)
      /\ \A e \in Events : Cardinality(ingested) <= Cardinality(ingested \union {e})
      /\ \A e \in Events : Cardinality(ingested \union {e}) \in Nat
  BY <1>0, Counts
<1> USE DEF IInv, TypeOK, NeverInflated, At, dbVars, localVars, Goto
<1>1. ASSUME NEW w \in Workers, NEW e \in Events, Ingest(w, e) PROVE IInv'
  <2>1. created' \in [Events -> Times] /\ pc' \in [Processes -> Steps]
    BY <1>1 DEF Ingest, Trigger, Processes, Steps
  <2>2. QED
    BY <1>0, <1>1, <1>a, <2>1 DEF Ingest, Trigger, Processes
<1>2. ASSUME NEW w \in Workers, Redeliver(w) PROVE IInv'
  BY <1>2 DEF Redeliver, Trigger, Processes, Steps
<1>3. ASSUME NEW p \in Processes, End(p), UNCHANGED <<clock, dbVars, ingested>> PROVE IInv'
  <2>1. run' \in [Processes -> Run]
    BY <1>3 DEF End, Run, NoRun, Marks
  <2>2. QED
    BY <1>3, <1>a, <2>1 DEF End, Steps, NoRun
<1>4. ASSUME NEW w \in Workers, BeginAggregate(w) PROVE IInv'
  <2> DEFINE since == IF Incremental THEN watermark ELSE Null
             stamp == IF since = Null THEN Null ELSE clock
             r == [run[w] EXCEPT !.since = since, !.stamp = stamp]
  <2>1. since \in Marks /\ stamp \in Marks /\ (watermark = Null => since = Null)
    BY DEF Marks
  <2>2. w \in Processes /\ run' = [run EXCEPT ![w] = r] /\ pc' = [pc EXCEPT ![w] = "select"]
    BY <1>4 DEF BeginAggregate, Processes
  <2>3. r \in Run /\ r.since = since /\ r.stamp = stamp /\ r.seen = run[w].seen
    BY <1>0, <2>1, <2>2 DEF Run
  <2>4. since # Null => stamp # Null
    OBVIOUS
  <2>5. UNCHANGED <<clock, stored, created, total, watermark, ingested>>
    BY <1>4 DEF BeginAggregate
  <2> HIDE DEF since, stamp, r
  <2>6. TypeOK'
    BY <2>2, <2>3, <2>5 DEF Steps
  <2>7. QED
    BY <2>1, <2>2, <2>3, <2>4, <2>5, <2>6
<1>5. ASSUME NEW s \in Sweepers, BeginSweep(s) PROVE IInv'
  BY <1>5 DEF BeginSweep, Steps, Processes
<1>6. ASSUME NEW p \in Processes, SelectEvents(p) PROVE IInv'
  <2> DEFINE window == {e \in stored : run[p].since = Null \/ created[e] > run[p].since}
             r == [run[p] EXCEPT !.seen = Cardinality(window)]
  <2>1. Cardinality(window) \in Nat /\ Cardinality(window) <= Cardinality(ingested)
    BY <1>0, <1>a
  <2>2. run' = [run EXCEPT ![p] = r] /\ pc' = [pc EXCEPT ![p] = "upsert"]
    BY <1>6 DEF SelectEvents
  <2>3. r \in Run /\ r.since = run[p].since /\ r.stamp = run[p].stamp /\ r.seen = Cardinality(window)
    BY <1>0, <2>1 DEF Run
  <2> HIDE DEF window, r
  <2>4. QED
    BY <1>6, <2>1, <2>2, <2>3 DEF SelectEvents, Steps
<1>7. ASSUME NEW p \in Processes, UpsertVisitors(p) PROVE IInv'
  <2>1. total' \in Nat
    BY <1>0, <1>7 DEF UpsertVisitors
  <2>2. NeverInflated'
    BY <1>0, <1>7, <1>a DEF UpsertVisitors
  <2>3. QED
    BY <1>7, <2>1, <2>2 DEF UpsertVisitors, Steps
<1>8. ASSUME NEW p \in Processes, AdvanceWatermark(p) PROVE IInv'
  \* Only an incremental run gets here, so the site was stamped before.
  <2>1. watermark # Null
    BY <1>8 DEF AdvanceWatermark
  <2>2. watermark' \in Marks /\ watermark' # Null
    BY <1>8, <2>1 DEF AdvanceWatermark, Run
  <2>3. \A q \in Processes : run[q].since = Null => ~(pc'[q] = "advance")
    BY <1>8 DEF AdvanceWatermark
  <2>4. QED
    BY <1>8, <2>1, <2>2, <2>3 DEF AdvanceWatermark, Steps
<1>9. CASE Tick \/ (\E e \in Events : Purge(e)) \/ UNCHANGED vars
  <2>1. clock' \in Times /\ stored' \subseteq ingested
    BY <1>9 DEF Tick, Purge, vars, Times
  <2>2. QED
    BY <1>9, <2>1 DEF Tick, Purge, vars
<1>10. QED
  BY <1>1, <1>2, <1>3, <1>4, <1>5, <1>6, <1>7, <1>8, <1>9
     DEF Next, RunStep, StandDown, Return, Fail, Processes

\* IInv of Aggregation is inductive, hence an invariant.
THEOREM Invariance == Spec => []IInv
BY IInvInit, IInvStep, PTL DEF Spec

\* While the watermark is NULL, no interleaving of recomputes, redeliveries, failures
\* and purges makes a total exceed the events ingested: NeverInflated.
THEOREM NoInflation == Spec => []NeverInflated
<1>1. IInv => NeverInflated
  BY DEF IInv
<1>2. QED
  BY Invariance, <1>1, PTL

\* The code never gives a site its first stamp: StaysNull.
THEOREM NeverStamped == Spec => StaysNull
<1>1. IInv /\ [Next]_vars => [watermark = Null => watermark' = Null]_vars
  <2> SUFFICES ASSUME IInv, Next, watermark = Null PROVE watermark' = Null
    BY DEF vars, dbVars
  <2>1. ASSUME NEW p \in Processes, AdvanceWatermark(p) PROVE FALSE
    BY <2>1 DEF AdvanceWatermark, IInv
  <2>2. QED
    BY <2>1 DEF Next, RunStep, Ingest, Redeliver, StandDown, BeginAggregate, BeginSweep,
       SelectEvents, UpsertVisitors, Return, Fail, Purge, Tick, dbVars
<1>2. QED
  BY Invariance, <1>1, PTL DEF Spec, StaysNull
=============================================================================
