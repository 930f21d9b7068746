------------------------------- MODULE Usage -------------------------------
(***************************************************************************)
(* The monthly plan limit of one owner (services/billing.py) as the           *)
(* resolution sweep (services/resolution_runner.py) and the per-row Identify   *)
(* button (routers/visitors.py) use it.                                       *)
(*                                                                          *)
(* A sweep reads the owner's row before every check (nothing keeps the copy    *)
(* alive in its session); a click checks the copy that its authentication     *)
(* loaded.  The read, the check with its reset, the resolution of the visitor *)
(* (external calls) and the increment are separate steps.                     *)
(***************************************************************************)
EXTENDS Integers, FiniteSets

CONSTANTS
    Sweepers,       \* resolution sweeps, over all replicas
    Clicks,         \* Identify requests
    Visitors,       \* visitors of the owner
    SiteOf,         \* the site of each
    Limit,          \* get_effective_limit of the owner's plan
    Batch,          \* SWEEP_MAX_RESOLVE_PER_SITE
    LastMonth,      \* bound: months are 0..LastMonth
    MaxLapses       \* bound: lost increments, crashes, failed lock queries

Workers == Sweepers \union Clicks

ASSUME UsageAssumption ==
    /\ Limit \in Nat /\ Batch \in Nat \ {0}
    /\ LastMonth \in Nat /\ MaxLapses \in Nat
    /\ IsFiniteSet(Workers) /\ Workers # {}

OwnSites == {SiteOf[v] : v \in Visitors}
NoMonth == -1
Free == "free"

VARIABLES
    month,      \* the calendar month
    usage,      \* monthly_identified_count, billing_cycle_reset_at of the row
    known,      \* visitors who are no longer anonymous
    worker,     \* each worker: step, its copy of the row, visitors and sites to do
    sweepLock,  \* the sweep that holds the advisory lock
    \* history
    made,       \* identifications made this month
    resets,     \* monthly resets written this month
    lapses      \* identifications that were never counted, and crashes

usageVars == <<month, usage, known, worker, sweepLock, made, resets, lapses>>

UsageRow == [count : Nat, anchor : 0..LastMonth \union {NoMonth}]
Steps == {"off", "open", "read", "check", "resolve", "count"}

UsageTypeOK ==
    /\ month \in 0..LastMonth
    /\ usage \in UsageRow
    /\ known \subseteq Visitors
    /\ worker \in [Workers -> [at : Steps, copy : UsageRow,
                               batch : SUBSET Visitors, sites : SUBSET OwnSites]]
    /\ sweepLock \in Sweepers \union {Free}
    /\ made \in Nat /\ resets \in Nat /\ lapses \in 0..MaxLapses

NoCopy == [count |-> 0, anchor |-> NoMonth]

UsageInit ==
    /\ month = 0
    /\ usage = [count |-> 0, anchor |-> NoMonth]
    /\ known = {}
    /\ worker = [w \in Workers |-> [at |-> "off", copy |-> NoCopy, batch |-> {}, sites |-> {}]]
    /\ sweepLock = Free
    /\ made = 0 /\ resets = 0 /\ lapses = 0

-----------------------------------------------------------------------------
(* Helpers *)

\* Bug: the sweep checks the limit once for a batch.
NextVisitorBug(w) == IF w \in Sweepers THEN "resolve" ELSE "check"

NextVisitor(w) == IF w \in Sweepers THEN "read" ELSE "check"
Lapse == lapses < MaxLapses /\ lapses' = lapses + 1
Anonymous(s) == {v \in Visitors \ known : SiteOf[v] = s}
Stopped(w) == [at |-> IF worker[w].sites = {} THEN "off" ELSE "open", copy |-> NoCopy,
               batch |-> {}, sites |-> worker[w].sites]

\* The sweep's lock is released when it ends; a click holds none.
Stop(w) ==
    /\ worker' = [worker EXCEPT ![w] = Stopped(w)]
    /\ sweepLock' = IF sweepLock = w /\ worker[w].sites = {} THEN Free ELSE sweepLock

-----------------------------------------------------------------------------
(* The workers *)

\* run_resolution_sweep: the lock, or its query failed (None) and no lock.
StartResolutionSweep(w) ==
    /\ w \in Sweepers /\ worker[w].at = "off"
    /\ \/ sweepLock = Free /\ sweepLock' = w /\ UNCHANGED lapses
       \/ Lapse /\ UNCHANGED sweepLock
    /\ worker' = [worker EXCEPT ![w].at = "open", ![w].sites = OwnSites]
    /\ UNCHANGED <<month, usage, known, made, resets>>

\* run_resolution_for_site in a session of its own: the site's batch.
OpenSite(w) ==
    /\ worker[w].at = "open"
    /\ \E s \in worker[w].sites : \E B \in SUBSET Anonymous(s) :
          /\ Cardinality(B) <= Batch
          /\ (B = {} <=> Anonymous(s) = {})
          /\ worker' = [worker EXCEPT ![w] = [at |-> "read", copy |-> NoCopy, batch |-> B,
                                              sites |-> @.sites \ {s}]]
    /\ UNCHANGED <<month, usage, known, sweepLock, made, resets, lapses>>

\* resolve_visitor (the Identify button) of a visitor not yet processed.
Click(w) ==
    /\ w \in Clicks /\ worker[w].at = "off"
    /\ \E v \in Visitors \ known :
          worker' = [worker EXCEPT ![w] = [at |-> "check", copy |-> usage, batch |-> {v},
                                           sites |-> {}]]
    /\ UNCHANGED <<month, usage, known, sweepLock, made, resets, lapses>>

ReadOwner(w) ==
    /\ worker[w].at = "read" /\ worker[w].batch # {}
    /\ worker' = [worker EXCEPT ![w].at = "check", ![w].copy = usage]
    /\ UNCHANGED <<month, usage, known, sweepLock, made, resets, lapses>>

\* check_usage_allowed, with the anchoring and the lazy monthly reset.
Check(w) ==
    LET copy == worker[w].copy
        stale == copy.anchor # NoMonth /\ copy.anchor # month
        seen == IF stale THEN 0 ELSE copy.count IN
    /\ worker[w].at = "check" /\ worker[w].batch # {}
    /\ usage' = IF stale THEN [count |-> 0, anchor |-> month]
                ELSE IF copy.anchor = NoMonth THEN [usage EXCEPT !.anchor = month]
                ELSE usage
    /\ resets' = IF stale THEN resets + 1 ELSE resets
    /\ IF seen < Limit
       THEN /\ worker' = [worker EXCEPT ![w].at = "resolve", ![w].copy = NoCopy]
            /\ UNCHANGED sweepLock
       ELSE Stop(w)
    /\ UNCHANGED <<month, known, made, lapses>>

Finish(w) ==
    /\ worker[w].at = NextVisitor(w) /\ worker[w].batch = {}
    /\ Stop(w)
    /\ UNCHANGED <<month, usage, known, made, resets, lapses>>

\* IdentityResolver.resolve: no match; or a row is saved.  A visitor someone
\* else identified meanwhile is saved again (the conflict is an upsert).
Resolve(w) ==
    /\ worker[w].at = "resolve"
    /\ \E v \in worker[w].batch :
          \/ /\ worker' = [worker EXCEPT ![w].at = NextVisitor(w), ![w].batch = @ \ {v}]
             /\ UNCHANGED <<known, made>>
          \/ /\ worker' = [worker EXCEPT ![w].at = "count", ![w].batch = @ \ {v}]
             /\ known' = known \union {v}
             /\ made' = made + 1
    /\ UNCHANGED <<month, usage, sweepLock, resets, lapses>>

\* Bug: counts what is left of the batch along with the identification.
CountBug(w) ==
    /\ worker[w].at = "count"
    /\ usage' = [usage EXCEPT !.count = @ + 1 + Cardinality(worker[w].batch)]
    /\ worker' = [worker EXCEPT ![w].at = NextVisitor(w)]
    /\ UNCHANGED <<month, known, sweepLock, made, resets, lapses>>

\* increment_usage: one atomic UPDATE.
Count(w) ==
    /\ worker[w].at = "count"
    /\ usage' = [usage EXCEPT !.count = @ + 1]
    /\ worker' = [worker EXCEPT ![w].at = NextVisitor(w)]
    /\ UNCHANGED <<month, known, sweepLock, made, resets, lapses>>

\* The increment fails and is logged, and the batch goes on.
CountFails(w) ==
    /\ worker[w].at = "count" /\ Lapse
    /\ worker' = [worker EXCEPT ![w].at = NextVisitor(w)]
    /\ UNCHANGED <<month, usage, known, sweepLock, made, resets>>

\* The process dies; its sweep lock goes with its connection.
WorkerDies(w) ==
    /\ worker[w].at # "off" /\ Lapse
    /\ worker' = [worker EXCEPT ![w] = [at |-> "off", copy |-> NoCopy, batch |-> {}, sites |-> {}]]
    /\ sweepLock' = IF sweepLock = w THEN Free ELSE sweepLock
    /\ UNCHANGED <<month, usage, known, made, resets>>

\* Bound: no identification straddles the turn of the month, nor does a check
\* of a copy read before the first anchor was set.
NewMonth ==
    /\ month < LastMonth
    /\ \A w \in Workers : /\ worker[w].at \notin {"resolve", "count"}
                          /\ worker[w].at = "check" => worker[w].copy.anchor # NoMonth
    /\ month' = month + 1
    /\ made' = 0 /\ resets' = 0
    /\ UNCHANGED <<usage, known, worker, sweepLock, lapses>>

UsageNext ==
    \/ NewMonth
    \/ \E w \in Sweepers : StartResolutionSweep(w) \/ OpenSite(w) \/ ReadOwner(w)
    \/ \E w \in Clicks : Click(w)
    \/ \E w \in Workers : Check(w) \/ Finish(w) \/ Resolve(w) \/ Count(w) \/ CountFails(w) \/ WorkerDies(w)

UsageSpec == UsageInit /\ [][UsageNext]_usageVars

-----------------------------------------------------------------------------
(* Properties *)

\* Once the owner's month has begun (and was reset at most once), the counter is
\* the number of identifications made, less those whose increment is still to
\* come or was lost: no increment overwrites another.
Uncounted == Cardinality({w \in Workers : worker[w].at = "count"})
CountExact ==
    resets <= 1 /\ usage.anchor = month =>
        /\ usage.count + Uncounted <= made
        /\ made <= usage.count + Uncounted + lapses

\* The check comes before the resolution, so a month goes past the plan limit,
\* but only by one identification for each other session that was let through
\* meanwhile (docstring of billing.py: the cap is soft by what is in flight).
OverrunBounded ==
    resets <= 1 => made <= Limit + lapses + Cardinality(Workers) - 1

\* The month is counted right and ends near its limit.
MonthAccounted == CountExact /\ OverrunBounded
=============================================================================
