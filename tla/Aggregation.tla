---------------------------- MODULE Aggregation ----------------------------
(***************************************************************************)
(* How one visitor's total_pageviews is kept in step with the events table  *)
(* (services/visitor_aggregator.py).  Runs of two kinds write it: a full    *)
(* recompute counts every stored event and SETs the total; an incremental    *)
(* run counts the events after the site's watermark and ADDs them.  Ingest   *)
(* starts runs of either kind, the repair sweep full ones only; retention    *)
(* deletes old events underneath them.                                       *)
(*                                                                          *)
(* Which runs may overlap is decided by keys in Redis that nobody owns and   *)
(* that expire under a slow holder, and that ingest does without when Redis   *)
(* is down: here a trigger may start its run or stand down, whatever the     *)
(* others are doing.  A run is one transaction up to its commit; each await   *)
(* on Postgres is a step.  The row lock makes upsert and commit one step.     *)
(***************************************************************************)
EXTENDS Naturals, FiniteSets

CONSTANTS
    Events,         \* pageviews of the visitor, by event_id
    Workers,        \* API processes: one background aggregation each (_aggregating)
    Sweepers,       \* repair sweep jobs
    Incremental,    \* settings.aggregation_incremental_enabled
    MaxClock,       \* bound: instants told apart
    MaxTotal,       \* bound: how far repeated merging may carry the total
    Null,           \* SQL NULL
    StartMarks      \* what sites.last_aggregated_at may hold to begin with: Null, as
                    \* the migration leaves it, or a time somebody wrote in by hand

Times == 0..MaxClock
Marks == Times \union {Null}
Processes == Workers \union Sweepers

ASSUME AggregationAssumption ==
    /\ IsFiniteSet(Events)
    /\ Workers \intersect Sweepers = {}
    /\ Incremental \in BOOLEAN
    /\ MaxClock \in Nat
    /\ MaxTotal \in Nat
    /\ Null \notin Times
    /\ StartMarks \subseteq Marks

VARIABLES
    clock,          \* the database's
    stored,         \* rows of the events table
    created,        \* events.created_at: the client's clock, not the server's
    total,          \* visitors.total_pageviews; 0 also while there is no row
    watermark,      \* sites.last_aggregated_at
    pc,             \* the step each process is at
    run,            \* its local state
    ingested        \* history: every event that was ever stored

dbVars == <<stored, created, total, watermark>>
localVars == <<pc, run>>

vars == <<clock, dbVars, localVars, ingested>>

Steps == {"idle", "begin", "select", "upsert", "advance", "return"}

\* since: None is a full recompute.  stamp: now() of the run's transaction.
\* seen: the rows its SELECT counted.
Run == [since: Marks, stamp: Marks, seen: Nat]

NoRun == [since |-> Null, stamp |-> Null, seen |-> 0]

TypeOK ==
    /\ clock \in Times
    /\ stored \subseteq ingested
    /\ ingested \subseteq Events
    /\ created \in [Events -> Times]
    /\ total \in Nat
    /\ watermark \in Marks
    /\ pc \in [Processes -> Steps]
    /\ run \in [Processes -> Run]

Init ==
    /\ clock = 0
    /\ stored = {}
    /\ created = [e \in Events |-> 0]
    /\ total = 0
    /\ watermark \in StartMarks
    /\ pc = [p \in Processes |-> "idle"]
    /\ run = [p \in Processes |-> NoRun]
    /\ ingested = {}

-----------------------------------------------------------------------------
(* Events come and go *)

At(p, step) == pc[p] = step

\* A process that is already aggregating the site starts no second task.
Trigger(w) == pc' = [pc EXCEPT ![w] = IF @ = "idle" THEN "begin" ELSE @]

\* A batch with a new event.  Its time may lie in the past (it was queued in the
\* browser) or in the future (the visitor's clock is fast).
Ingest(w, e) ==
    /\ e \notin ingested
    /\ stored' = stored \union {e}
    /\ ingested' = ingested \union {e}
    /\ \E t \in Times : created' = [created EXCEPT ![e] = t]
    /\ Trigger(w)
    /\ UNCHANGED <<clock, total, watermark, run>>

\* A batch delivered again: ON CONFLICT DO NOTHING, but it triggers a run.
Redeliver(w) ==
    /\ stored # {}
    /\ At(w, "idle")
    /\ Trigger(w)
    /\ UNCHANGED <<clock, dbVars, run, ingested>>

\* Retention: one batch of the DELETE of old events.
Purge(e) ==
    /\ e \in stored
    /\ created[e] < clock
    /\ stored' = stored \ {e}
    /\ UNCHANGED <<clock, created, total, watermark, localVars, ingested>>

Tick ==
    /\ clock < MaxClock
    /\ clock' = clock + 1
    /\ UNCHANGED <<dbVars, localVars, ingested>>

-----------------------------------------------------------------------------
(* One aggregation run *)

Goto(p, step) == pc' = [pc EXCEPT ![p] = step]

End(p) ==
    /\ Goto(p, "idle")
    /\ run' = [run EXCEPT ![p] = NoRun]

\* The sweep is pending or the debounce key is taken: another run covers this.
StandDown(w) ==
    /\ At(w, "begin")
    /\ End(w)
    /\ UNCHANGED <<clock, dbVars, ingested>>

\* Reads the watermark, which opens the transaction that now() is the time of.
BeginAggregate(w) ==
    LET since == IF Incremental THEN watermark ELSE Null IN
    /\ At(w, "begin")
    /\ Goto(w, "select")
    /\ run' = [run EXCEPT ![w].since = since,
                          ![w].stamp = IF since = Null THEN Null ELSE clock]
    /\ UNCHANGED <<clock, dbVars, ingested>>

\* Bug: the repair sweep passes the watermark like everybody else.
BeginSweepBug(s) ==
    LET since == IF Incremental THEN watermark ELSE Null IN
    /\ At(s, "idle")
    /\ Goto(s, "select")
    /\ run' = [run EXCEPT ![s].since = since,
                          ![s].stamp = IF since = Null THEN Null ELSE clock]
    /\ UNCHANGED <<clock, dbVars, ingested>>

\* The repair sweep passes since=None whatever the flag says.
BeginSweep(s) ==
    /\ At(s, "idle")
    /\ Goto(s, "select")
    /\ UNCHANGED <<clock, dbVars, run, ingested>>

\* The aggregate SELECT: what is committed by now, and younger than the
\* watermark if there is one; the window has no upper end.
SelectEvents(p) ==
    LET since == run[p].since
        window == {e \in stored : since = Null \/ created[e] > since}
    IN  /\ At(p, "select")
        /\ Goto(p, "upsert")
        /\ run' = [run EXCEPT ![p].seen = Cardinality(window)]
        /\ UNCHANGED <<clock, dbVars, ingested>>

\* Bug: the full recompute merges its count as the incremental one does.
UpsertVisitorsAdds(p) ==
    /\ At(p, "upsert")
    /\ total + run[p].seen <= MaxTotal
    /\ total' = total + run[p].seen
    /\ Goto(p, IF run[p].since = Null THEN "return" ELSE "advance")
    /\ UNCHANGED <<clock, stored, created, watermark, run, ingested>>

\* Bug: the full recompute keeps the larger count, as it does for scroll depth.
UpsertVisitorsGreatest(p) ==
    /\ At(p, "upsert")
    /\ total' = IF run[p].seen > total THEN run[p].seen ELSE total
    /\ Goto(p, IF run[p].since = Null THEN "return" ELSE "advance")
    /\ UNCHANGED <<clock, stored, created, watermark, run, ingested>>

\* Bug: the watermark step is not kept to incremental runs.
UpsertVisitorsAdvances(p) ==
    LET full == run[p].since = Null IN
    /\ At(p, "upsert")
    /\ \/ ~full /\ total + run[p].seen <= MaxTotal /\ total' = total + run[p].seen
       \/ full /\ total' = IF run[p].seen > 0 THEN run[p].seen ELSE total
    /\ Goto(p, "advance")
    /\ UNCHANGED <<clock, stored, created, watermark, run, ingested>>

\* SET or ADD, and commit.  A visitor none of whose events were selected is in
\* no row of the result and keeps its total.
UpsertVisitors(p) ==
    LET full == run[p].since = Null IN
    /\ At(p, "upsert")
    /\ \/ ~full /\ total + run[p].seen <= MaxTotal /\ total' = total + run[p].seen
       \/ full /\ total' = IF run[p].seen > 0 THEN run[p].seen ELSE total
    /\ Goto(p, IF full THEN "return" ELSE "advance")
    /\ UNCHANGED <<clock, stored, created, watermark, run, ingested>>

\* In a transaction of its own, after an incremental run; an error is swallowed.
AdvanceWatermark(p) ==
    /\ At(p, "advance")
    /\ watermark' = run[p].stamp \/ UNCHANGED watermark
    /\ Goto(p, "return")
    /\ UNCHANGED <<clock, stored, created, total, run, ingested>>

Return(p) ==
    /\ At(p, "return")
    /\ End(p)
    /\ UNCHANGED <<clock, dbVars, ingested>>

\* A database error, a deadlock between two recomputes, or a restart: what was
\* not committed is rolled back, and the run is not resumed.
Fail(p) ==
    /\ ~At(p, "idle")
    /\ End(p)
    /\ UNCHANGED <<clock, dbVars, ingested>>

-----------------------------------------------------------------------------

RunStep(p) == SelectEvents(p) \/ UpsertVisitors(p) \/ AdvanceWatermark(p) \/ Return(p)

Next ==
    \/ \E w \in Workers, e \in Events : Ingest(w, e)
    \/ \E w \in Workers : Redeliver(w) \/ StandDown(w) \/ BeginAggregate(w)
    \/ \E s \in Sweepers : BeginSweep(s)
    \/ \E p \in Processes : RunStep(p) \/ Fail(p)
    \/ \E e \in Events : Purge(e)
    \/ Tick

Spec == Init /\ [][Next]_vars

\* A coroutine that has begun is scheduled until it ends.  The sweep job recurs,
\* and is not killed or refused in each and every pass before its commit.
FairSpec ==
    /\ Spec
    /\ \A p \in Processes : WF_vars(RunStep(p))
    /\ \A w \in Workers : WF_vars(StandDown(w) \/ BeginAggregate(w))
    /\ \A s \in Sweepers :
          WF_vars(BeginSweep(s)) /\ SF_vars(SelectEvents(s)) /\ SF_vars(UpsertVisitors(s))

-----------------------------------------------------------------------------
(* Properties *)

\* What the visitor's page should show.
Settled == stored # {} => total = Cardinality(stored)

\* The staleness contract: however runs overlap, fail, merge twice or miss late
\* events, the repair sweep makes the total right again and again.
Freshness == []<>Settled

\* While the watermark is NULL every run is a full recompute, and then totals
\* become right and stay right once no more events come in.
FullOnlyConverges == <>[](watermark = Null => Settled)

\* Redelivered batches and overlapping recomputes never count a pageview twice
\* while the watermark is NULL.
NeverInflated == watermark = Null => total <= Cardinality(ingested)

\* Why NeverInflated holds: an incremental run exists only under a watermark, and
\* leaves one; what a run has counted was ingested.
IInv ==
    /\ TypeOK
    /\ watermark = Null => \A p \in Processes : run[p].since = Null
    /\ \A p \in Processes : run[p].since # Null => run[p].stamp # Null
    /\ \A p \in Processes : run[p].since = Null => ~At(p, "advance")
    /\ \A p \in Processes : run[p].seen <= Cardinality(ingested)
    /\ NeverInflated

\* Nothing the code does ends the state of a site that was never stamped.
StaysNull == [][watermark = Null => watermark' = Null]_vars
=============================================================================
