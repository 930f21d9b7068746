---------------------------- MODULE SiteAnalysis ----------------------------
(***************************************************************************)
(* The company-profile analysis of one site (routers/sites.py,                *)
(* services/site_analysis.py): a POST starts a background task in its own      *)
(* replica, guarded by the row's status and by a set in the process; the task  *)
(* spends the daily budget (services/usage_limits.py) and writes a candidate; *)
(* a PUT promotes or dismisses it.                                            *)
(*                                                                          *)
(* A request acts on the row it loaded, and its session writes the columns     *)
(* that differ from it.  The site itself is not deleted here (SiteLifecycle).  *)
(***************************************************************************)
EXTENDS Integers, FiniteSets

CONSTANTS
    Replicas, Posts, Puts,
    Runs,           \* bound: analysis tasks alive at once
    Stale,          \* site_analysis_stale_seconds, in ticks
    Budget,         \* site_analysis_daily_budget
    MaxLapses       \* bound: Redis errors

ASSUME AnalysisAssumption ==
    /\ IsFiniteSet(Runs) /\ Replicas # {}
    /\ Stale \in Nat /\ Budget \in Nat \ {0} /\ MaxLapses \in Nat

VARIABLES
    row,            \* site_profile_status, ticks since site_profile_started_at,
                    \* whether there is a candidate and a confirmed profile
    spent,          \* site_analysis:count:<site>:<day>
    inflight,       \* replicas with the site in _analysis_inflight
    run, post, put, \* each task and request: its step, its replica, the row it loaded
    \* history
    started,        \* analyses that went past the budget check today
    lapses          \* Redis errors

analysisVars == <<row, spent, inflight, run, post, put, started, lapses>>

AnalysisRow == [status : {"none", "pending", "ready", "failed"}, ticks : 0..(Stale + 1),
        candidate : BOOLEAN, profile : BOOLEAN]

AnalysisTypeOK ==
    /\ row \in AnalysisRow
    /\ spent \in Nat /\ started \in Nat /\ lapses \in 0..MaxLapses
    /\ inflight \subseteq Replicas
    /\ run \in [Runs -> [at : {"off", "new", "spend", "work", "failing", "done"},
                         home : Replicas, sawReady : BOOLEAN]]
    /\ post \in [Posts -> [at : {"off", "budget", "commit", "fire"}, home : Replicas,
                           sawPending : BOOLEAN]]
    /\ put \in [Puts -> [at : {"off", "loaded"}, loaded : AnalysisRow]]

Unanalysed == [status |-> "none", ticks |-> 0, candidate |-> FALSE, profile |-> FALSE]
SomeReplica == CHOOSE r \in Replicas : TRUE
NoRun == [at |-> "off", home |-> SomeReplica, sawReady |-> FALSE]
NoPost == [at |-> "off", home |-> SomeReplica, sawPending |-> FALSE]
NoPut == [at |-> "off", loaded |-> Unanalysed]

AnalysisInit ==
    /\ row = Unanalysed
    /\ spent = 0 /\ started = 0 /\ lapses = 0
    /\ inflight = {}
    /\ run = [t \in Runs |-> NoRun]
    /\ post = [p \in Posts |-> NoPost]
    /\ put = [p \in Puts |-> NoPut]

-----------------------------------------------------------------------------
(* Helpers *)

\* derive_status: a pending run that is too old reads as failed.
Derived(r) == IF r.status = "pending" /\ r.ticks > Stale THEN "failed" ELSE r.status

\* Bug: one more than the budget.
AllowedBug == \/ spent <= Budget /\ UNCHANGED lapses
              \/ lapses < MaxLapses /\ lapses' = lapses + 1

\* check_site_analysis_budget; a Redis error reads as nothing spent.
Allowed == \/ spent < Budget /\ UNCHANGED lapses
           \/ lapses < MaxLapses /\ lapses' = lapses + 1

RunGoto(t, step) == run' = [run EXCEPT ![t].at = step]
PostGoto(p, step) == post' = [post EXCEPT ![p].at = step]

AgeRow ==
    /\ row.status = "pending" /\ row.ticks <= Stale
    /\ row' = [row EXCEPT !.ticks = @ + 1]
    /\ UNCHANGED <<spent, inflight, run, post, put, started, lapses>>

\* The process restarts: its tasks, its requests and its set are gone.
RestartReplica(r) ==
    /\ inflight' = inflight \ {r}
    /\ run' = [t \in Runs |-> IF run[t].home = r THEN NoRun ELSE run[t]]
    /\ post' = [p \in Posts |-> IF post[p].home = r THEN NoPost ELSE post[p]]
    /\ UNCHANGED <<row, spent, put, started, lapses>>

-----------------------------------------------------------------------------
(* rerun_site_analysis; create_site's automatic start is its last two steps. *)

\* In flight here, or pending: already_running.
LoadPost(p, r) ==
    /\ post[p].at = "off"
    /\ Derived(row) # "pending" /\ r \notin inflight
    /\ post' = [post EXCEPT ![p] = [at |-> "budget", home |-> r,
                                       sawPending |-> row.status = "pending"]]
    /\ UNCHANGED <<row, spent, inflight, run, put, started, lapses>>

CheckPost(p) ==
    /\ post[p].at = "budget"
    /\ \/ Allowed /\ PostGoto(p, "commit")
       \/ spent >= Budget /\ post' = [post EXCEPT ![p] = NoPost] /\ UNCHANGED lapses
    /\ UNCHANGED <<row, spent, inflight, run, put, started>>

CommitPost(p) ==
    /\ post[p].at = "commit"
    /\ row' = [row EXCEPT !.status = IF post[p].sawPending THEN @ ELSE "pending", !.ticks = 0]
    /\ PostGoto(p, "fire")
    /\ UNCHANGED <<spent, inflight, run, put, started, lapses>>

\* _fire_site_analysis
FireRun(p, t) ==
    /\ post[p].at = "fire" /\ run[t].at = "off"
    /\ inflight' = inflight \union {post[p].home}
    /\ run' = [run EXCEPT ![t] = [NoRun EXCEPT !.at = "new", !.home = post[p].home]]
    /\ post' = [post EXCEPT ![p] = NoPost]
    /\ UNCHANGED <<row, spent, put, started, lapses>>

-----------------------------------------------------------------------------
(* run_site_analysis *)

\* The row is loaded, and the budget checked.  Refused: failed at once.
CheckRun(t) ==
    /\ run[t].at = "new"
    /\ \/ /\ Allowed /\ UNCHANGED row
          /\ run' = [run EXCEPT ![t] = [at |-> "spend", home |-> @.home,
                                        sawReady |-> row.status = "ready"]]
       \/ /\ spent >= Budget /\ RunGoto(t, "done")
          /\ row' = [row EXCEPT !.status = "failed"]
          /\ UNCHANGED lapses
    /\ UNCHANGED <<spent, inflight, post, put, started>>

SpendRun(t) ==
    /\ run[t].at = "spend"
    /\ \/ spent' = spent + 1 /\ UNCHANGED lapses
       \/ lapses < MaxLapses /\ lapses' = lapses + 1 /\ UNCHANGED spent
    /\ started' = started + 1
    /\ RunGoto(t, "work")
    /\ UNCHANGED <<row, inflight, post, put>>

\* Fetch, research and structuring; then the candidate, or the failure of any.
FinishRun(t) ==
    /\ run[t].at = "work"
    /\ \/ /\ row' = [row EXCEPT !.candidate = TRUE,
                               !.status = IF run[t].sawReady THEN @ ELSE "ready"]
          /\ RunGoto(t, "done")
       \/ RunGoto(t, "failing") /\ UNCHANGED row
    /\ UNCHANGED <<spent, inflight, post, put, started, lapses>>

RecordFailure(t) ==
    /\ run[t].at = "failing"
    /\ row' = [row EXCEPT !.status = "failed"]
    /\ RunGoto(t, "done")
    /\ UNCHANGED <<spent, inflight, post, put, started, lapses>>

\* The task is cancelled or dies of an error nobody catches.
CancelRun(t) ==
    /\ run[t].at \in {"new", "spend", "work", "failing"}
    /\ RunGoto(t, "done")
    /\ UNCHANGED <<row, spent, inflight, post, put, started, lapses>>

\* The done-callback, on every outcome; it discards the site, not the task.
RunDone(t) ==
    /\ run[t].at = "done"
    /\ inflight' = inflight \ {run[t].home}
    /\ run' = [run EXCEPT ![t] = NoRun]
    /\ UNCHANGED <<row, spent, post, put, started, lapses>>

-----------------------------------------------------------------------------
(* confirm_site_analysis *)

LoadPut(p) ==
    /\ put[p].at = "off"
    /\ put' = [put EXCEPT ![p] = [at |-> "loaded", loaded |-> row]]
    /\ UNCHANGED <<row, spent, inflight, run, post, started, lapses>>

\* The columns that differ from the loaded row are written.
ClearedBy(loaded) == [row EXCEPT !.candidate = @ /\ ~loaded.candidate]

DismissPut(p) ==
    /\ put[p].at = "loaded"
    /\ row' = ClearedBy(put[p].loaded)
    /\ put' = [put EXCEPT ![p] = NoPut]
    /\ UNCHANGED <<spent, inflight, run, post, started, lapses>>

PromotePut(p) ==
    LET loaded == put[p].loaded
        ready == Derived(loaded) # "pending" /\ loaded.status # "ready" IN
    /\ put[p].at = "loaded"
    /\ row' = [ClearedBy(loaded) EXCEPT !.profile = TRUE,
                                        !.status = IF ready THEN "ready" ELSE @]
    /\ put' = [put EXCEPT ![p] = NoPut]
    /\ UNCHANGED <<spent, inflight, run, post, started, lapses>>

RunStep(t) ==
    CheckRun(t) \/ SpendRun(t) \/ FinishRun(t) \/ RecordFailure(t) \/ CancelRun(t) \/ RunDone(t)

AnalysisNext ==
    \/ AgeRow
    \/ \E r \in Replicas : RestartReplica(r)
    \/ \E p \in Posts : \/ \E r \in Replicas : LoadPost(p, r)
                        \/ CheckPost(p) \/ CommitPost(p)
                        \/ \E t \in Runs : FireRun(p, t)
    \/ \E t \in Runs : RunStep(t)
    \/ \E p \in Puts : LoadPut(p) \/ DismissPut(p) \/ PromotePut(p)

AnalysisSpec == AnalysisInit /\ [][AnalysisNext]_analysisVars

-----------------------------------------------------------------------------
(* Properties *)

\* The check and the increment are separate: a day's analyses go past the
\* budget by the tasks that overlapped and the Redis errors, and no further
\* (the docstring's one unit per run).
RunsBudgeted == started <= Budget + Cardinality(Runs) - 1 + lapses
=============================================================================
