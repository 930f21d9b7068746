------------------------------ MODULE IpOrgSwap ------------------------------
(***************************************************************************)
(* The table ip_org_prefixes and the jobs that rebuild it, each from its own   *)
(* source (services/ip_org_ingest.py, services/ip_org_rir_ingest.py): download *)
(* and check, take the advisory lock, build a staging twin with the rows of     *)
(* the other sources copied over, and rename it into place.                   *)
(*                                                                          *)
(* Postgres is modelled as far as the swap relies on it: DDL is transactional; *)
(* the staging table's name admits one uncommitted creator, a second one       *)
(* waits, with a shared lock on the live table if it came before the creator   *)
(* asked to drop that; and of two that wait for each other one is aborted.     *)
(* The lock belongs to a session of its own, which may be lost.               *)
(***************************************************************************)
EXTENDS Naturals

CONSTANTS
    Sources,
    Refreshes,      \* job runs, over all replicas
    SourceOf,       \* the source of each
    MaxVersion,     \* bound: datasets a source publishes
    MaxHitches      \* bound: failed lock queries, lost lock sessions, deaths

Nobody == "nobody"

ASSUME SwapAssumption ==
    /\ SourceOf \in [Refreshes -> Sources] /\ Nobody \notin Refreshes
    /\ MaxVersion \in Nat \ {0} /\ MaxHitches \in Nat

Versions == 0..MaxVersion

VARIABLES
    published,      \* the newest dataset of each source
    rows,           \* of each source, the dataset the live table's rows are from; 0 is none
    staging,        \* the run whose transaction has created the staging table
    writeLock,      \* the run whose session holds IP_ORG_WRITE_LOCK_KEY
    refresh,        \* each run: its step, its dataset, what it copied over
    \* history
    overtaken,      \* runs during which another one swapped the same source in
    hitches

swapVars == <<published, rows, staging, writeLock, refresh, overtaken, hitches>>

SwapTypeOK ==
    /\ published \in [Sources -> 1..MaxVersion]
    /\ rows \in [Sources -> Versions]
    /\ staging \in Refreshes \union {Nobody} /\ writeLock \in Refreshes \union {Nobody}
    /\ refresh \in [Refreshes -> [at : {"off", "lock", "create", "blocked", "copy", "swap",
                                        "unlock", "over"},
                                  has : Versions, others : [Sources -> Versions]]]
    /\ overtaken \subseteq Refreshes /\ hitches \in 0..MaxHitches

Nothing == [s \in Sources |-> 0]

SwapInit ==
    /\ published = [s \in Sources |-> 1]
    /\ rows = Nothing
    /\ staging = Nobody /\ writeLock = Nobody
    /\ refresh = [r \in Refreshes |-> [at |-> "off", has |-> 0, others |-> Nothing]]
    /\ overtaken = {} /\ hitches = 0

RefreshGoto(r, step) == refresh' = [refresh EXCEPT ![r].at = step]
Hitch == hitches < MaxHitches /\ hitches' = hitches + 1

-----------------------------------------------------------------------------

PublishDataset(s) ==
    /\ published[s] < MaxVersion
    /\ published' = [published EXCEPT ![s] = @ + 1]
    /\ UNCHANGED <<rows, staging, writeLock, refresh, overtaken, hitches>>

\* Fetch and parse the newest dataset.  A failed fetch, a high skip ratio, too
\* few registries or an empty join end the run here, and nothing has changed.
Download(r) ==
    /\ refresh[r].at = "off"
    /\ \/ refresh' = [refresh EXCEPT ![r] = [@ EXCEPT !.at = "lock", !.has = published[SourceOf[r]]]]
       \/ RefreshGoto(r, "over")
    /\ UNCHANGED <<published, rows, staging, writeLock, overtaken, hitches>>

\* pg_try_advisory_lock: held; busy, so the run ends; or the query failed, and
\* it goes on without.
TryWriteLock(r) ==
    /\ refresh[r].at = "lock"
    /\ \/ /\ writeLock = Nobody /\ writeLock' = r
          /\ RefreshGoto(r, "create") /\ UNCHANGED hitches
       \/ /\ writeLock # Nobody /\ UNCHANGED <<writeLock, hitches>>
          /\ RefreshGoto(r, "over")
       \/ /\ Hitch /\ UNCHANGED writeLock
          /\ RefreshGoto(r, "create")
    /\ UNCHANGED <<published, rows, staging, overtaken>>

\* DROP TABLE IF EXISTS; CREATE TABLE .. (LIKE live).
CreateStaging(r) ==
    /\ refresh[r].at = "create"
    /\ \/ staging = Nobody /\ staging' = r /\ RefreshGoto(r, "copy")
       \/ staging # Nobody /\ RefreshGoto(r, "blocked") /\ UNCHANGED staging
    /\ UNCHANGED <<published, rows, writeLock, overtaken, hitches>>

\* The creator it waits for has rolled back.
Unblock(r) ==
    /\ refresh[r].at = "blocked" /\ staging = Nobody
    /\ staging' = r
    /\ RefreshGoto(r, "copy")
    /\ UNCHANGED <<published, rows, writeLock, overtaken, hitches>>

\* Bug: a run loads its own rows alone (carry_over=False).
CarryOverBug(r) ==
    /\ refresh[r].at = "copy"
    /\ RefreshGoto(r, "swap")
    /\ UNCHANGED <<published, rows, staging, writeLock, overtaken, hitches>>

\* INSERT .. SELECT of the other sources' rows, then its own.
CarryOver(r) ==
    /\ refresh[r].at = "copy"
    /\ refresh' = [refresh EXCEPT ![r].at = "swap", ![r].others = rows]
    /\ UNCHANGED <<published, rows, staging, writeLock, overtaken, hitches>>

\* DROP live, RENAME, commit: nobody else has a lock on the live table.
Swap(r) ==
    /\ refresh[r].at = "swap"
    /\ \A q \in Refreshes : refresh[q].at # "blocked"
    /\ rows' = [refresh[r].others EXCEPT ![SourceOf[r]] = refresh[r].has]
    /\ staging' = Nobody
    /\ overtaken' = overtaken \union
          {q \in Refreshes \ {r} : SourceOf[q] = SourceOf[r] /\ refresh[q].at \notin {"off", "over"}}
    /\ refresh' = [refresh EXCEPT ![r] = [at |-> "unlock", has |-> 0, others |-> Nothing]]
    /\ UNCHANGED <<published, writeLock, hitches>>

\* A statement failed, or the run was chosen to break a deadlock.
LoadFails(r) ==
    /\ \/ refresh[r].at \in {"create", "copy", "swap"} /\ Hitch
       \/ /\ refresh[r].at = "blocked" \/ (refresh[r].at = "swap" /\ staging = r)
          /\ \E q \in Refreshes : refresh[q].at = "swap"
          /\ \E q \in Refreshes : refresh[q].at = "blocked"
          /\ UNCHANGED hitches
    /\ staging' = IF staging = r THEN Nobody ELSE staging
    /\ refresh' = [refresh EXCEPT ![r] = [at |-> "unlock", has |-> 0, others |-> Nothing]]
    /\ UNCHANGED <<published, rows, writeLock, overtaken>>

ReleaseWriteLock(r) ==
    /\ refresh[r].at = "unlock"
    /\ writeLock' = IF writeLock = r THEN Nobody ELSE writeLock
    /\ RefreshGoto(r, "over")
    /\ UNCHANGED <<published, rows, staging, overtaken, hitches>>

\* The connection that holds the lock is cut; the load goes on in its own.
LockSessionLost(r) ==
    /\ writeLock = r /\ Hitch
    /\ writeLock' = Nobody
    /\ UNCHANGED <<published, rows, staging, refresh, overtaken>>

RefreshDies(r) ==
    /\ refresh[r].at \notin {"off", "over"} /\ Hitch
    /\ staging' = IF staging = r THEN Nobody ELSE staging
    /\ writeLock' = IF writeLock = r THEN Nobody ELSE writeLock
    /\ refresh' = [refresh EXCEPT ![r] = [at |-> "over", has |-> 0, others |-> Nothing]]
    /\ UNCHANGED <<published, rows, overtaken>>

SwapNext ==
    \/ \E s \in Sources : PublishDataset(s)
    \/ \E r \in Refreshes : \/ Download(r) \/ TryWriteLock(r) \/ CreateStaging(r) \/ Unblock(r)
                            \/ CarryOver(r) \/ Swap(r) \/ LoadFails(r) \/ ReleaseWriteLock(r)
                            \/ LockSessionLost(r) \/ RefreshDies(r)

SwapSpec == SwapInit /\ [][SwapNext]_swapVars

-----------------------------------------------------------------------------
(* Properties *)

\* A swap changes the rows of its own source alone, whoever else is at work and
\* whatever became of the lock (_load_staging_and_swap: "if another writer's swap
\* commits in between, this RENAME silently discards their freshly loaded rows");
\* and it puts a source back to an older dataset only if another swap of the
\* source overtook it between its download, which comes before the lock, and its
\* own.
SwapKeepsOthers ==
    [][\A s \in Sources : rows'[s] # rows[s] =>
          \E r \in Refreshes :
             /\ SourceOf[r] = s /\ refresh[r].at = "swap" /\ refresh'[r].at = "unlock"
             /\ rows'[s] < rows[s] => r \in overtaken]_swapVars
=============================================================================
