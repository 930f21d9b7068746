-------------------------- MODULE AggregationKeys --------------------------
(***************************************************************************)
(* Who may aggregate one site: the Redis keys of                             *)
(* services/aggregation_debounce.py, as the ingest trigger of                *)
(* routers/events.py and the repair sweep of jobs/scheduler.py use them.     *)
(* A busy site takes the debounce key the moment it expires; the sweep's     *)
(* yield marker is there so that the repair still gets its turn.             *)
(*                                                                          *)
(* Time is counted in ticks of five seconds, the timeout of a Redis call and *)
(* the slack the sweep adds to the key's lifetime when it waits for it.  A   *)
(* Redis call that was begun ends before the tick does, and a sweep that     *)
(* waits (it polls every second) sees a free key in each tick there is one.  *)
(* Module Aggregation has what the runs themselves do.                       *)
(***************************************************************************)
EXTENDS Naturals

CONSTANTS
    Containers,     \* API processes: an ingest task and a sweep job each
    TTL,            \* settings.aggregation_min_interval_seconds, in ticks
    Interval,       \* least time from the end of one pass to the next, in ticks
                    \* (settings.aggregation_sweep_interval_minutes)
    MaxRest,        \* bound: how long the rest of a pass, the other sites, may take
    MaxFaults,      \* bound: Redis failures and restarts
    Incremental     \* settings.aggregation_incremental_enabled

ASSUME KeysAssumption ==
    /\ TTL \in Nat \ {0}
    /\ Interval \in Nat
    /\ MaxRest \in Nat
    /\ MaxFaults \in Nat
    /\ Incremental \in BOOLEAN

MarkerTTL == 3 * TTL
Patience == TTL + 1

VARIABLES
    key,        \* agg:debounce: ticks to live, 0 when nobody holds it
    marker,     \* agg:sweep_pending: ticks to live, 0 when unset
    ingest,     \* the step of each container's background aggregation; "done" until
                \* the tick is over (bound: one per container and tick)
    sweep,      \* the step of its sweep job, for this site
    left,       \* ticks before that job begins a pass, turns to the site again, or gives
                \* up on it
    faults      \* Redis failures and restarts so far

vars == <<key, marker, ingest, sweep, left, faults>>

TypeOK ==
    /\ key \in Nat
    /\ marker \in Nat
    /\ ingest \in [Containers -> {"idle", "acquire", "run", "done"}]
    /\ sweep \in [Containers -> {"idle", "try", "mark", "rest", "retry", "run", "release"}]
    /\ left \in [Containers -> Nat]
    /\ faults \in Nat

Init ==
    /\ key = 0
    /\ marker = 0
    /\ ingest = [c \in Containers |-> "idle"]
    /\ sweep = [c \in Containers |-> "idle"]
    /\ left = [c \in Containers |-> 0]
    /\ faults = 0

IngestGoto(c, step) == ingest' = [ingest EXCEPT ![c] = step]
SweepGoto(c, step) == sweep' = [sweep EXCEPT ![c] = step]

\* The helper logs the error and returns None (or nothing).
RedisFails == faults < MaxFaults /\ faults' = faults + 1
RedisAnswers == UNCHANGED faults

-----------------------------------------------------------------------------
(* The ingest trigger *)

\* Bug: the trigger does not look at the marker.
CheckMarkerBug(c) ==
    /\ ingest[c] = "idle"
    /\ IngestGoto(c, "acquire")
    /\ RedisAnswers
    /\ UNCHANGED <<key, marker, sweep, left>>

\* A batch has been stored.  Its task stands down, and nothing changes, while a
\* sweep is pending; it fails open.
CheckMarker(c) ==
    /\ ingest[c] = "idle"
    /\ (RedisAnswers /\ marker = 0) \/ RedisFails
    /\ IngestGoto(c, "acquire")
    /\ UNCHANGED <<key, marker, sweep, left>>

\* SET NX EX; fails open.  Nobody deletes this key: it expires, used or not.
AcquireIngest(c) ==
    /\ ingest[c] = "acquire"
    /\ \/ RedisAnswers /\ key = 0 /\ key' = TTL /\ IngestGoto(c, "run")
       \/ RedisAnswers /\ key > 0 /\ UNCHANGED key /\ IngestGoto(c, "done")
       \/ RedisFails /\ UNCHANGED key /\ IngestGoto(c, "run")
    /\ UNCHANGED <<marker, sweep, left>>

FinishIngest(c) ==
    /\ ingest[c] = "run"
    /\ IngestGoto(c, "done")
    /\ UNCHANGED <<key, marker, sweep, left, faults>>

-----------------------------------------------------------------------------
(* The repair sweep *)

BeginPass(c) ==
    /\ sweep[c] = "idle"
    /\ left[c] = 0
    /\ SweepGoto(c, "try")
    /\ UNCHANGED <<key, marker, ingest, left, faults>>

\* The job is done with the site until the next pass.
Leave(c) ==
    /\ SweepGoto(c, "idle")
    /\ left' = [left EXCEPT ![c] = Interval]

Recompute(c) ==
    /\ SweepGoto(c, "run")
    /\ left' = [left EXCEPT ![c] = 0]

\* The job takes the key and runs.  Without Redis it runs only if all runs are
\* full recomputes, and otherwise skips the site.
TryAcquire(c) ==
    /\ \/ RedisAnswers /\ key = 0 /\ key' = TTL /\ Recompute(c)
       \/ RedisFails /\ UNCHANGED key /\ (IF Incremental THEN Leave(c) ELSE Recompute(c))
    /\ UNCHANGED <<marker, ingest>>

FirstTry(c) ==
    /\ sweep[c] = "try"
    /\ \/ TryAcquire(c)
       \/ key > 0 /\ SweepGoto(c, "mark") /\ UNCHANGED <<key, marker, ingest, left, faults>>

\* SET NX EX of the yield marker; the site is put off to the end of the pass.
Defer(c) ==
    /\ sweep[c] = "mark"
    /\ \/ RedisAnswers /\ marker' = IF marker = 0 THEN MarkerTTL ELSE marker
       \/ RedisFails /\ UNCHANGED marker
    /\ SweepGoto(c, "rest")
    /\ \E t \in 0..MaxRest : left' = [left EXCEPT ![c] = t]
    /\ UNCHANGED <<key, ingest>>

EndOfPass(c) ==
    /\ sweep[c] = "rest"
    /\ left[c] = 0
    /\ SweepGoto(c, "retry")
    /\ left' = [left EXCEPT ![c] = Patience]
    /\ UNCHANGED <<key, marker, ingest, faults>>

Poll(c) ==
    /\ sweep[c] = "retry"
    /\ TryAcquire(c)

\* The deadline has passed with the key still held: "contended", until next time.
GiveUp(c) ==
    /\ sweep[c] = "retry"
    /\ left[c] = 0
    /\ key > 0
    /\ SweepGoto(c, "release")
    /\ UNCHANGED <<key, marker, ingest, left, faults>>

\* The full recompute ends, well or badly.
FinishRecompute(c) ==
    /\ sweep[c] = "run"
    /\ SweepGoto(c, "release")
    /\ UNCHANGED <<key, marker, ingest, left, faults>>

\* DEL of the marker, whoever set it.
ReleaseMarker(c) ==
    /\ sweep[c] = "release"
    /\ \/ RedisAnswers /\ marker' = 0
       \/ RedisFails /\ UNCHANGED marker
    /\ Leave(c)
    /\ UNCHANGED <<key, ingest>>

-----------------------------------------------------------------------------
(* Restarts and time *)

Restart(c) ==
    /\ ingest[c] \in {"acquire", "run"} \/ sweep[c] # "idle"
    /\ faults < MaxFaults
    /\ faults' = faults + 1
    /\ IngestGoto(c, "idle")
    /\ SweepGoto(c, "idle")
    /\ left' = [left EXCEPT ![c] = 0]
    /\ UNCHANGED <<key, marker>>

InRedisCall(c) == ingest[c] = "acquire" \/ sweep[c] \in {"try", "mark", "release"}

\* The sweep job of c has something to do before time goes on.
Due(c) ==
    \/ sweep[c] \in {"rest", "retry"} /\ left[c] = 0
    \/ sweep[c] = "retry" /\ key = 0

Minus1(n) == IF n > 0 THEN n - 1 ELSE 0

Tick ==
    /\ \A c \in Containers : ~InRedisCall(c) /\ ~Due(c)
    /\ key' = Minus1(key)
    /\ marker' = Minus1(marker)
    /\ left' = [c \in Containers |-> Minus1(left[c])]
    /\ ingest' = [c \in Containers |-> IF ingest[c] = "done" THEN "idle" ELSE ingest[c]]
    /\ UNCHANGED <<sweep, faults>>

-----------------------------------------------------------------------------

IngestStep(c) == AcquireIngest(c) \/ FinishIngest(c)

SweepStep(c) ==
    \/ BeginPass(c) \/ FirstTry(c) \/ Defer(c) \/ EndOfPass(c) \/ Poll(c) \/ GiveUp(c)
    \/ FinishRecompute(c) \/ ReleaseMarker(c)

Next ==
    \/ \E c \in Containers : CheckMarker(c) \/ IngestStep(c) \/ SweepStep(c) \/ Restart(c)
    \/ Tick

Spec == Init /\ [][Next]_vars

\* Coroutines are scheduled, the sweep job recurs, and time passes.  Nothing is
\* assumed of the race for a free key: ingest may win it every time.
FairSpec ==
    /\ Spec
    /\ WF_vars(Tick)
    /\ \A c \in Containers : WF_vars(IngestStep(c)) /\ WF_vars(SweepStep(c))

-----------------------------------------------------------------------------
(* Properties *)

\* tests/integration/test_aggregation_sweep_priority.py:1 - the repair sweep cannot
\* be starved by a hot site: however ingest and the other sweeps interleave with
\* it, and once faults have ceased, the site is recomputed again and again.
RepairNotStarved == []<>(\E c \in Containers : sweep[c] = "run")

\* No pass leaves the marker behind, to hold every trigger of the site off for
\* nothing, unless Redis failed or the process died.
MarkerCleared ==
    (\A c \in Containers : sweep[c] \notin {"rest", "retry", "run", "release"}) /\ faults = 0
        => marker = 0

KeysInv == TypeOK /\ MarkerCleared
=============================================================================
