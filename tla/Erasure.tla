------------------------------- MODULE Erasure -------------------------------
(***************************************************************************)
(* Erasing one person from the tables all tenants share                       *)
(* (services/graph_erasure.py): the tenant's DELETE request queues the keys it *)
(* can still read and writes a tombstone; sweeps claim queued requests and     *)
(* delete; resolvers and mail-open events write the same tables after looking  *)
(* at the suppression list (an open that is late in doing so is not modelled:  *)
(* it asks for another scope).                                                *)
(*                                                                          *)
(* A step is one transaction, or one query where a later one depends on it.    *)
(* Sweeps may overlap: their advisory lock is held by a pooled connection.     *)
(***************************************************************************)
EXTENDS Integers, FiniteSets

CONSTANTS
    Erasures,       \* the DELETE requests, in the order they arrive
    Purgers,        \* sweeps
    Resolvers,      \* _upsert_beam_identity
    MaxAttempts,    \* graph_erasure_max_attempts
    StaleAfter,     \* graph_erasure_stale_processing_minutes, in ticks
    MaxErrors       \* bound: failing transactions and dying sweeps

ASSUME ErasureAssumption ==
    /\ Erasures \subseteq Nat /\ Erasures # {} /\ IsFiniteSet(Erasures)
    /\ MaxAttempts \in Nat \ {0} /\ StaleAfter \in Nat /\ MaxErrors \in Nat

VARIABLES
    local,          \* what the tenant's own rows tell of the person
    listed,         \* the tombstone is on the suppression list
    unsubscribed,   \* the person opted out of e-mail
    graph,          \* who wrote the person's rows of beam_identity_graph
    signals,        \* whether identity_signals has rows of the person
    queue,          \* erasure_requests, and the endpoint that fills it
    purger,         \* each sweep: its step, request and captured attempts
    past,           \* resolvers between their check and their write
    \* history
    overtaken,      \* resolvers that were past their check at the tombstone
    errors

erasureVars == <<local, listed, unsubscribed, graph, signals, queue, purger, past,
                 overtaken, errors>>

Keys == {"none", "device", "email"}     \* email: and the device

ErasureTypeOK ==
    /\ local \in Keys
    /\ listed \in BOOLEAN /\ unsubscribed \in BOOLEAN
    /\ graph \subseteq Resolvers /\ signals \in BOOLEAN
    /\ queue \in [Erasures -> [at : {"off", "collected", "deleting", "over"},
                               status : {"none", "pending", "processing", "done", "failed"},
                               keys : Keys, attempts : Nat, age : 0..(StaleAfter + 1)]]
    /\ purger \in [Purgers -> [at : {"off", "pick", "claim", "work", "mark", "fail"},
                               of : Erasures, attempts : Nat]]
    /\ past \subseteq Resolvers
    /\ overtaken \subseteq Resolvers
    /\ errors \in 0..MaxErrors

SomeErasure == CHOOSE q \in Erasures : TRUE
NotAsked == [at |-> "off", status |-> "none", keys |-> "none", attempts |-> 0, age |-> 0]
Idle == [at |-> "off", of |-> SomeErasure, attempts |-> 0]

ErasureInit ==
    /\ local = "device"
    /\ listed = FALSE /\ unsubscribed = FALSE
    /\ graph = {} /\ signals = FALSE
    /\ queue = [q \in Erasures |-> NotAsked]
    /\ purger = [w \in Purgers |-> Idle]
    /\ past = {} /\ overtaken = {}
    /\ errors = 0

-----------------------------------------------------------------------------
(* Helpers *)

tableVars == <<graph, signals>>

Failing == errors < MaxErrors /\ errors' = errors + 1

\* _tombstone_stmt: ON CONFLICT DO NOTHING.
Tombstone ==
    /\ listed' = TRUE
    /\ overtaken' = IF listed THEN overtaken ELSE past

PurgerGoto(w, step) == purger' = [purger EXCEPT ![w].at = step]

-----------------------------------------------------------------------------
(* The tenant's rows *)

Visit ==
    /\ local = "none"
    /\ local' = "device"
    /\ UNCHANGED <<listed, unsubscribed, tableVars, queue, purger, past, overtaken, errors>>

Identify ==
    /\ local = "device"
    /\ local' = "email"
    /\ UNCHANGED <<listed, unsubscribed, tableVars, queue, purger, past, overtaken, errors>>

OptOutOfMail ==
    /\ ~unsubscribed
    /\ unsubscribed' = TRUE
    /\ UNCHANGED <<local, listed, tableVars, queue, purger, past, overtaken, errors>>

-----------------------------------------------------------------------------
(* delete_visitor_data *)

\* _collect_match_keys; created_at is the start of this transaction.
CollectKeys(q) ==
    /\ queue[q].at = "off" /\ \A p \in Erasures : p < q => queue[p].at # "off"
    /\ queue' = [queue EXCEPT ![q].at = "collected", ![q].keys = local]
    /\ UNCHANGED <<local, listed, unsubscribed, tableVars, purger, past, overtaken, errors>>

\* enqueue_erasure: the tombstone has a savepoint of its own.
Enqueue(q) ==
    /\ queue[q].at = "collected"
    /\ queue' = [queue EXCEPT ![q].at = "deleting", ![q].status = "pending"]
    /\ \/ queue[q].keys = "email" /\ Tombstone /\ UNCHANGED errors
       \/ queue[q].keys = "email" /\ Failing /\ UNCHANGED <<listed, overtaken>>
       \/ queue[q].keys # "email" /\ UNCHANGED <<listed, overtaken, errors>>
    /\ UNCHANGED <<local, unsubscribed, tableVars, purger, past>>

\* The endpoint goes on to delete the tenant's rows.
EnqueueFails(q) ==
    /\ queue[q].at = "collected"
    /\ Failing
    /\ queue' = [queue EXCEPT ![q].at = "deleting"]
    /\ UNCHANGED <<local, listed, unsubscribed, tableVars, purger, past, overtaken>>

DeleteLocal(q) ==
    /\ queue[q].at = "deleting"
    /\ queue' = [queue EXCEPT ![q].at = "over"]
    /\ local' = "none"
    /\ UNCHANGED <<listed, unsubscribed, tableVars, purger, past, overtaken, errors>>

-----------------------------------------------------------------------------
(* run_graph_erasure_sweep *)

\* Bug: requests claimed by a sweep that died are not taken back.
StartErasureSweepBug(w) ==
    /\ purger[w].at = "off"
    /\ PurgerGoto(w, "pick")
    /\ UNCHANGED <<local, listed, unsubscribed, tableVars, queue, past, overtaken, errors>>

\* _reclaim_stale
StartErasureSweep(w) ==
    /\ purger[w].at = "off"
    /\ queue' = [q \in Erasures |->
                    IF queue[q].status = "processing" /\ queue[q].age > StaleAfter
                    THEN [queue[q] EXCEPT !.status = "pending", !.age = 0] ELSE queue[q]]
    /\ PurgerGoto(w, "pick")
    /\ UNCHANGED <<local, listed, unsubscribed, tableVars, past, overtaken, errors>>

\* _claim_next: the oldest pending request, and no pass without one.
PickErasure(w) ==
    LET pending == {q \in Erasures : queue[q].status = "pending"} IN
    /\ purger[w].at = "pick"
    /\ \/ pending = {} /\ PurgerGoto(w, "off")
       \/ \E q \in pending :
             /\ \A p \in pending : q <= p
             /\ purger' = [purger EXCEPT ![w] = [@ EXCEPT !.at = "claim", !.of = q]]
    /\ UNCHANGED <<local, listed, unsubscribed, tableVars, queue, past, overtaken, errors>>

\* The guarded UPDATE, committed alone; whoever loses the race ends its pass.
ClaimErasure(w) ==
    LET q == purger[w].of IN
    /\ purger[w].at = "claim"
    /\ \/ /\ queue[q].status = "pending"
          /\ queue' = [queue EXCEPT ![q] = [@ EXCEPT !.status = "processing", !.age = 0,
                                                     !.attempts = queue[q].attempts + 1]]
          /\ purger' = [purger EXCEPT ![w] = [@ EXCEPT !.at = "work",
                                                       !.attempts = queue[q].attempts + 1]]
       \/ queue[q].status # "pending" /\ PurgerGoto(w, "off") /\ UNCHANGED queue
    /\ UNCHANGED <<local, listed, unsubscribed, tableVars, past, overtaken, errors>>

\* Bug: relies on the tombstone of the endpoint.
PurgeBug(w) ==
    LET keys == queue[purger[w].of].keys IN
    /\ purger[w].at = "work"
    /\ PurgerGoto(w, "mark")
    /\ graph' = IF keys = "none" THEN graph ELSE {}
    /\ signals' = (signals /\ keys # "email")
    /\ UNCHANGED <<local, listed, unsubscribed, queue, past, overtaken, errors>>

\* Tombstone and deletions, in one transaction.
Purge(w) ==
    LET keys == queue[purger[w].of].keys IN
    /\ purger[w].at = "work"
    /\ PurgerGoto(w, "mark")
    /\ graph' = IF keys = "none" THEN graph ELSE {}
    /\ signals' = (signals /\ keys # "email")
    /\ IF keys = "email" THEN Tombstone ELSE UNCHANGED <<listed, overtaken>>
    /\ UNCHANGED <<local, unsubscribed, queue, past, errors>>

MarkDone(w) ==
    /\ purger[w].at = "mark"
    /\ queue' = [queue EXCEPT ![purger[w].of].status = "done"]
    /\ PurgerGoto(w, "pick")
    /\ UNCHANGED <<local, listed, unsubscribed, tableVars, past, overtaken, errors>>

\* Either transaction fails and is rolled back.
ErasureError(w) ==
    /\ purger[w].at \in {"work", "mark"}
    /\ Failing
    /\ PurgerGoto(w, "fail")
    /\ UNCHANGED <<local, listed, unsubscribed, tableVars, queue, past, overtaken>>

\* By the attempts captured at the claim, and whatever the status is by now.
MarkFailed(w) ==
    /\ purger[w].at = "fail"
    /\ \/ /\ queue' = [queue EXCEPT ![purger[w].of].status =
                          IF purger[w].attempts >= MaxAttempts THEN "failed" ELSE "pending"]
          /\ UNCHANGED errors
       \/ Failing /\ UNCHANGED queue
    /\ PurgerGoto(w, "pick")
    /\ UNCHANGED <<local, listed, unsubscribed, tableVars, past, overtaken>>

ErasureSweepDies(w) ==
    /\ purger[w].at # "off"
    /\ Failing
    /\ PurgerGoto(w, "off")
    /\ UNCHANGED <<local, listed, unsubscribed, tableVars, queue, past, overtaken>>

AgeClaims ==
    /\ \E q \in Erasures : queue[q].status = "processing" /\ queue[q].age <= StaleAfter
    /\ queue' = [q \in Erasures |->
                    IF queue[q].status = "processing" /\ queue[q].age <= StaleAfter
                    THEN [queue[q] EXCEPT !.age = @ + 1] ELSE queue[q]]
    /\ UNCHANGED <<local, listed, unsubscribed, tableVars, purger, past, overtaken, errors>>

-----------------------------------------------------------------------------
(* Writers of the shared tables, at any tenant: a check, then a write. *)

\* GRAPH_WRITE_BLOCKING_SCOPES
CheckGraphWrite(r) ==
    /\ r \notin past /\ ~listed
    /\ past' = past \union {r}
    /\ UNCHANGED <<local, listed, unsubscribed, tableVars, queue, purger, overtaken, errors>>

UpsertGraph(r) ==
    /\ r \in past
    /\ past' = past \ {r}
    /\ graph' = graph \union {r}
    /\ UNCHANGED <<local, listed, unsubscribed, signals, queue, purger, overtaken, errors>>

\* record_signal asks for do_not_email, and for do_not_resolve on known visitors.
RecordSignal ==
    /\ ~unsubscribed
    /\ signals' = TRUE
    /\ UNCHANGED <<local, listed, unsubscribed, graph, queue, purger, past, overtaken, errors>>

\* The write fails.
DropWrite(r) ==
    /\ r \in past
    /\ past' = past \ {r}
    /\ UNCHANGED <<local, listed, unsubscribed, tableVars, queue, purger, overtaken, errors>>

PurgerStep(w) ==
    \/ StartErasureSweep(w) \/ PickErasure(w) \/ ClaimErasure(w) \/ Purge(w)
    \/ MarkDone(w) \/ ErasureError(w) \/ MarkFailed(w) \/ ErasureSweepDies(w)

ErasureNext ==
    \/ Visit \/ Identify \/ OptOutOfMail \/ RecordSignal \/ AgeClaims
    \/ \E q \in Erasures : CollectKeys(q) \/ Enqueue(q) \/ EnqueueFails(q) \/ DeleteLocal(q)
    \/ \E w \in Purgers : PurgerStep(w)
    \/ \E r \in Resolvers : CheckGraphWrite(r) \/ UpsertGraph(r) \/ DropWrite(r)

ErasureSpec == ErasureInit /\ [][ErasureNext]_erasureVars

-----------------------------------------------------------------------------
(* Properties *)

Erased(q) == queue[q].status = "done" /\ queue[q].keys = "email"

\* After an erasure reads done the person is in the graph only by the hand of a
\* resolver that had looked for the tombstone before it was there, however many
\* sweeps claimed the request, died or failed on the way (the transaction
\* boundaries of graph_erasure.py, the guard of _upsert_beam_identity).
GraphStaysErased == \A q \in Erasures : Erased(q) => graph \subseteq overtaken

\* The same of identity_signals, the other target: "otherwise decryptable PII for
\* an erased person survives the erasure" (models/erasure_request.py).
SignalsStayErased == \A q \in Erasures : Erased(q) => ~signals

\* A queued request is carried out or parked as failed, though sweeps die and
\* others take over (_reclaim_stale).
RequestSettles ==
    \A q \in Erasures : queue[q].status = "pending" ~> queue[q].status \in {"done", "failed"}

ErasureFairness ==
    /\ WF_erasureVars(AgeClaims)
    /\ \A w \in Purgers : WF_erasureVars(PurgerStep(w))
=============================================================================
