----------------------------- MODULE CoopLedger -----------------------------
(***************************************************************************)
(* The co-op credits of one site (services/identity_coop.py,                  *)
(* coop_expiry_sweep.py): a resolve that wrote the shared graph records an     *)
(* event and, once per person, a lot of credit; sweeps expire lapsed lots;     *)
(* deleting the site deletes both tables, and its id may be issued again.      *)
(*                                                                          *)
(* A step is one statement of a READ COMMITTED transaction: it sees what was   *)
(* committed when it began, so a row that commits after a DELETE began         *)
(* survives it, and a row that a DELETE took is there until that commits.  A   *)
(* unique index makes a writer wait for a transaction that holds its key, or   *)
(* is deleting it.  One delete at a time; nothing in the code writes a SPEND.  *)
(***************************************************************************)
EXTENDS Naturals

CONSTANTS
    Persons,
    Resolves,       \* record_contribution calls; also the lots they create
    Expirers,       \* sweeps (their advisory lock may be lost with its connection)
    LastDate,       \* bound on the days
    MaxDeaths       \* bound: transactions that fail or die

ASSUME CoopAssumption ==
    /\ Persons # {} /\ Resolves # {}
    /\ LastDate \in Nat /\ MaxDeaths \in Nat

VARIABLES
    date,
    events,         \* identity_contribution_events
    lots,           \* ACCRUE rows of identity_credit_ledger
    expires,        \* how many EXPIRE rows each lot has
    tx,             \* each call: its step, person and day
    expirer,        \* each sweep: its step, the lots it selected, the one in hand
    removal,        \* delete_site: the statement or commit it is at, the rows it has deleted
    \* history
    caught,         \* lots whose EXPIRE statement ran while the site's were being deleted
    split,          \* persons credited between the DELETE of the events and of the ledger
    deaths

coopVars == <<date, events, lots, expires, tx, expirer, removal, caught, split, deaths>>

Event == [person : Persons, day : 0..LastDate, accrued : BOOLEAN]

CoopTypeOK ==
    /\ date \in 0..LastDate
    /\ events \subseteq Event /\ lots \subseteq Resolves
    /\ expires \in [Resolves -> Nat]
    /\ tx \in [Resolves -> [at : {"off", "event", "credit", "over"}, person : Persons,
                            day : 0..LastDate]]
    /\ expirer \in [Expirers -> [at : {"off", "next", "insert", "place", "commit"},
                                 left : SUBSET Resolves, lot : Resolves]]
    /\ removal \in [at : {"events", "ledger", "commit"}, events : SUBSET Event,
                    lots : SUBSET Resolves, expires : SUBSET Resolves]
    /\ caught \subseteq Resolves /\ split \subseteq Persons
    /\ deaths \in 0..MaxDeaths

NoRemoval == [at |-> "events", events |-> {}, lots |-> {}, expires |-> {}]

CoopInit ==
    /\ date = 0
    /\ events = {} /\ lots = {}
    /\ expires = [r \in Resolves |-> 0]
    /\ tx = [r \in Resolves |-> [at |-> "off", person |-> CHOOSE p \in Persons : TRUE, day |-> 0]]
    /\ expirer = [x \in Expirers |-> [at |-> "off", left |-> {}, lot |-> CHOOSE r \in Resolves : TRUE]]
    /\ removal = NoRemoval /\ caught = {} /\ split = {}
    /\ deaths = 0

-----------------------------------------------------------------------------
(* record_contribution: one transaction *)

TxGoto(r, step) == tx' = [tx EXCEPT ![r].at = step]

\* uq_coop_contrib_site_email_day: the same person on the same day.
InsertEvent(r, p) ==
    /\ tx[r].at = "off"
    /\ \A s \in Resolves : tx[s].at \in {"event", "credit"} => <<tx[s].person, tx[s].day>> # <<p, date>>
    /\ \A e \in removal.events : <<e.person, e.day>> # <<p, date>>
    /\ tx' = [tx EXCEPT ![r] = [at |-> IF \E e \in events : e.person = p /\ e.day = date
                                       THEN "over" ELSE "event",
                                person |-> p, day |-> date]]
    /\ UNCHANGED <<date, events, lots, expires, expirer, removal, caught, split, deaths>>

CommitEvent(r, accrued) ==
    /\ events' = events \union {[person |-> tx[r].person, day |-> tx[r].day, accrued |-> accrued]}
    /\ TxGoto(r, "over")

\* A suspect visitor: the event is kept, without credit.
Exclude(r) ==
    /\ tx[r].at = "event"
    /\ CommitEvent(r, FALSE)
    /\ UNCHANGED <<date, lots, expires, expirer, removal, caught, split, deaths>>

\* uq_coop_accrued_site_email, for any day.
Accrue(r) ==
    /\ tx[r].at = "event"
    /\ \A s \in Resolves : tx[s].at = "credit" => tx[s].person # tx[r].person
    /\ \A e \in removal.events : e.accrued => e.person # tx[r].person
    /\ IF \E e \in events : e.person = tx[r].person /\ e.accrued
       THEN CommitEvent(r, FALSE)
       ELSE TxGoto(r, "credit") /\ UNCHANGED events
    /\ UNCHANGED <<date, lots, expires, expirer, removal, caught, split, deaths>>

CommitCredit(r) ==
    /\ tx[r].at = "credit"
    /\ CommitEvent(r, TRUE)
    /\ lots' = lots \union {r}
    /\ split' = IF removal.at = "ledger" THEN split \union {tx[r].person} ELSE split
    /\ UNCHANGED <<date, expires, expirer, removal, caught, deaths>>

ContributionFails(r) ==
    /\ tx[r].at \in {"event", "credit"} /\ deaths < MaxDeaths
    /\ deaths' = deaths + 1
    /\ TxGoto(r, "over")
    /\ UNCHANGED <<date, events, lots, expires, expirer, removal, caught, split>>

NextDate ==
    /\ date < LastDate
    /\ date' = date + 1
    /\ UNCHANGED <<events, lots, expires, tx, expirer, removal, caught, split, deaths>>

-----------------------------------------------------------------------------
(* expire_lapsed_lots: one transaction for each lot *)

ExpirerGoto(x, step) == expirer' = [expirer EXCEPT ![x].at = step]

\* Which lots have lapsed is left open.
SelectLapsed(x) ==
    /\ expirer[x].at = "off"
    /\ \E lapsed \in SUBSET lots :
          expirer' = [expirer EXCEPT ![x] = [at |-> "next", left |-> lapsed, lot |-> @.lot]]
    /\ UNCHANGED <<date, events, lots, expires, tx, removal, caught, split, deaths>>

\* _lot_remaining: the sum over the rows of the lot, the ACCRUE row among them.
Remains(l) == l \in lots /\ expires[l] = 0

NextLot(x) ==
    /\ expirer[x].at = "next"
    /\ \/ expirer[x].left = {} /\ ExpirerGoto(x, "off")
       \/ \E l \in expirer[x].left :
             expirer' = [expirer EXCEPT ![x] =
                            [at |-> IF Remains(l) THEN "insert" ELSE "next",
                             left |-> expirer[x].left \ {l}, lot |-> l]]
    /\ UNCHANGED <<date, events, lots, expires, tx, removal, caught, split, deaths>>

\* Bug: an INSERT without WHERE EXISTS.
InsertExpireBug(x) ==
    LET l == expirer[x].lot IN
    /\ expirer[x].at = "insert"
    /\ ExpirerGoto(x, "place")
    /\ caught' = IF l \in removal.lots THEN caught \union {l} ELSE caught
    /\ UNCHANGED <<date, events, lots, expires, tx, removal, split, deaths>>

\* _EXPIRE_INSERT_SQL, as it begins: WHERE EXISTS the ACCRUE row.
InsertExpire(x) ==
    LET l == expirer[x].lot IN
    /\ expirer[x].at = "insert"
    /\ ExpirerGoto(x, IF l \in lots THEN "place" ELSE "next")
    /\ caught' = IF l \in removal.lots THEN caught \union {l} ELSE caught
    /\ UNCHANGED <<date, events, lots, expires, tx, removal, split, deaths>>

\* And as it ends: ON CONFLICT (uq_coop_ledger_expire_per_lot) DO NOTHING.
PlaceExpire(x) ==
    LET l == expirer[x].lot IN
    /\ expirer[x].at = "place"
    /\ \A y \in Expirers : expirer[y].at = "commit" => expirer[y].lot # l
    /\ l \notin removal.expires
    /\ ExpirerGoto(x, IF expires[l] = 0 THEN "commit" ELSE "next")
    /\ UNCHANGED <<date, events, lots, expires, tx, removal, caught, split, deaths>>

CommitExpire(x) ==
    /\ expirer[x].at = "commit"
    /\ expires' = [expires EXCEPT ![expirer[x].lot] = @ + 1]
    /\ ExpirerGoto(x, "next")
    /\ UNCHANGED <<date, events, lots, tx, removal, caught, split, deaths>>

\* The lot's transaction fails and the sweep goes on, or the sweep dies.
ExpireFails(x) ==
    /\ expirer[x].at \in {"insert", "place", "commit"} /\ deaths < MaxDeaths
    /\ deaths' = deaths + 1
    /\ \E step \in {"next", "off"} : ExpirerGoto(x, step)
    /\ UNCHANGED <<date, events, lots, expires, tx, removal, caught, split>>

-----------------------------------------------------------------------------
(* delete_site: the two tables in the order of its list, then the commit *)

DeleteEvents ==
    /\ removal.at = "events"
    /\ lots # {} \/ events # {}
    /\ removal' = [removal EXCEPT !.at = "ledger", !.events = events]
    /\ UNCHANGED <<date, events, lots, expires, tx, expirer, caught, split, deaths>>

DeleteLedger ==
    /\ removal.at = "ledger"
    /\ removal' = [removal EXCEPT !.at = "commit", !.lots = lots,
                                  !.expires = {l \in Resolves : expires[l] > 0}]
    /\ caught' = caught \union
          {expirer[x].lot : x \in {y \in Expirers : expirer[y].at \in {"place", "commit"}}}
    /\ UNCHANGED <<date, events, lots, expires, tx, expirer, split, deaths>>

CommitDelete ==
    /\ removal.at = "commit"
    /\ events' = events \ removal.events /\ lots' = lots \ removal.lots
    /\ expires' = [l \in Resolves |-> IF l \in removal.expires THEN 0 ELSE expires[l]]
    /\ removal' = NoRemoval
    /\ UNCHANGED <<date, tx, expirer, caught, split, deaths>>

\* A statement after it or the commit fails.
RollbackDelete ==
    /\ removal.at # "events"
    /\ removal' = NoRemoval
    /\ UNCHANGED <<date, events, lots, expires, tx, expirer, caught, split, deaths>>

CoopNext ==
    \/ NextDate \/ DeleteEvents \/ DeleteLedger \/ CommitDelete \/ RollbackDelete
    \/ \E r \in Resolves : \/ \E p \in Persons : InsertEvent(r, p)
                           \/ Exclude(r) \/ Accrue(r) \/ CommitCredit(r) \/ ContributionFails(r)
    \/ \E x \in Expirers : \/ SelectLapsed(x) \/ NextLot(x) \/ InsertExpire(x)
                           \/ PlaceExpire(x) \/ CommitExpire(x) \/ ExpireFails(x)

CoopSpec == CoopInit /\ [][CoopNext]_coopVars

-----------------------------------------------------------------------------
(* Properties *)

\* The ledger a site's balance is summed from: one credit for a person, never
\* without the event that is marked accrued; that event keeps its credit, unless
\* it was committed between the two DELETEs of a deletion of the site; no lot is
\* taken below zero; and no EXPIRE without its ACCRUE, which a site created
\* again would inherit, but for one whose statement ran while the site was being
\* deleted (the comment on _EXPIRE_INSERT_SQL; models/identity_coop.py).
LedgerSound ==
    LET credited == {tx[r].person : r \in lots}
        accrued == {e.person : e \in {f \in events : f.accrued}} IN
    /\ \A r, s \in lots : tx[r].person = tx[s].person => r = s
    /\ credited \subseteq accrued /\ accrued \subseteq credited \union split
    /\ \A r \in Resolves : expires[r] <= 1 /\ (expires[r] = 1 => r \in lots \union caught)
=============================================================================
