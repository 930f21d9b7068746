------------------------------- MODULE OptOut -------------------------------
(***************************************************************************)
(* Opt-outs of one person, on one site: the suppression list and what it     *)
(* cascades to (services/suppression.py, routers/unsubscribe.py,             *)
(* routers/webhooks.py, routers/privacy.py), against those who write the     *)
(* records it speaks about: the resolver and the Leadpipe webhook            *)
(* (services/identity_resolver.py, leadpipe_webhook.py), contact uploads     *)
(* (services/contact_importer.py), the owner, and the pixel's privacy signal. *)
(*                                                                          *)
(* Addresses are told apart as this person's and others.  An opt-out and its *)
(* cascade are one transaction; a job's reads and its commit are steps.      *)
(***************************************************************************)
EXTENDS Naturals, FiniteSets

CONSTANTS
    Scopes,         \* of the suppressions in use, out of VALID_SCOPES
    Tracked,        \* visitors the pixel has seen
    Contacts,       \* ids uploads may mint
    Jobs,           \* resolver jobs and webhooks in progress
    Uploads,        \* uploads of a file that names this person
    MaxImported     \* MAX_IMPORTED_CONTACTS_PER_SITE

ValidScopes == {"all", "do_not_sell", "do_not_process", "do_not_email", "erased"}

ASSUME OptOutAssumption ==
    /\ Scopes \subseteq ValidScopes
    /\ Tracked \intersect Contacts = {} /\ Jobs \intersect Uploads = {}
    /\ IsFiniteSet(Contacts) /\ MaxImported \in Nat

Everyone == Tracked \union Contacts

\* What an identified_visitors row says of its address.
Absent == [mail |-> "none", doNotEmail |-> FALSE]
Identities == {Absent} \union [mail: {"this", "other"}, doNotEmail: BOOLEAN]

VARIABLES
    listed,         \* scopes of this person's suppressions
    held,           \* visitors.do_not_resolve
    linked,         \* visitor_emails: visitors who gave this address
    identity,       \* identified_visitors
    resolver,       \* what each job has read and is about to do
    upload,         \* the step of each upload
    clicked,        \* an unsubscribe request is about to set flags itself
    \* history
    flagged,        \* rows an opt-out flagged, as long as they hold the address
    lifted,         \* a suppression against mail was removed
    overtaken,      \* rows whose flag fell to a job that had read them before the opt-out
    looked,         \* jobs and uploads that others have overtaken since they looked
    crossed,        \* one of these wrote the address
    disregarded     \* visitors resolved by a job that found them held

optOutVars == <<listed, held, linked, identity, resolver, upload, clicked, flagged,
                lifted, overtaken, looked, crossed, disregarded>>
records == <<listed, held, linked, identity, clicked>>
optOutHistory == <<flagged, lifted, overtaken, looked, crossed, disregarded>>

Resolutions ==
    [at : {"off", "gate", "match", "dedupe", "save", "check", "overwrite"},
     who : Tracked \union {"nobody"}, held : BOOLEAN, mail : {"none", "this", "other"},
     stored : Identities, changed : BOOLEAN, clear : BOOLEAN, late : BOOLEAN]

NoJob == [at |-> "off", who |-> "nobody", held |-> FALSE, mail |-> "none",
          stored |-> Absent, changed |-> FALSE, clear |-> FALSE, late |-> FALSE]

OptOutTypeOK ==
    /\ listed \subseteq Scopes /\ held \subseteq Everyone /\ linked \subseteq Tracked
    /\ identity \in [Everyone -> Identities]
    /\ resolver \in [Jobs -> Resolutions]
    /\ upload \in [Uploads -> {"off", "gate", "commit"}]
    /\ clicked \in BOOLEAN /\ lifted \in BOOLEAN /\ crossed \in BOOLEAN
    /\ flagged \union overtaken \union disregarded \subseteq Everyone
    /\ looked \subseteq Jobs \union Uploads

OptOutInit ==
    /\ listed = {} /\ held = {} /\ linked = {}
    /\ \E P \in {{}} \union {{p} : p \in Tracked}, row \in Identities :
          identity = [p \in Everyone |-> IF p \in P THEN row ELSE Absent]   \* at most one has a row
    /\ resolver = [j \in Jobs |-> NoJob] /\ upload = [u \in Uploads |-> "off"]
    /\ clicked = FALSE /\ lifted = FALSE /\ crossed = FALSE
    /\ flagged = {} /\ overtaken = {} /\ looked = {} /\ disregarded = {}

-----------------------------------------------------------------------------
(* The list *)

RowsWithAddress == {p \in Everyone : identity[p].mail = "this"}

\* is_email_suppressed_any
Suppressed(scopes) == listed \intersect (scopes \union {"all"}) # {}

Flag(P) == [p \in Everyone |-> IF p \in P /\ identity[p] # Absent
                               THEN [identity[p] EXCEPT !.doNotEmail = TRUE] ELSE identity[p]]

\* Rows a job has flushed and not committed: other writers of these wait.
Locked == {resolver[j].who : j \in {i \in Jobs : resolver[i].at = "overwrite" /\
                                                 resolver[i].changed}}

\* add_suppression and _cascade_suppress. History: a job that has read its row is late.
Suppress(scope) ==
    /\ scope \in {"all", "do_not_email", "do_not_sell"} => RowsWithAddress \intersect Locked = {}
    /\ listed' = listed \union {scope}
    /\ identity' = IF scope \in {"all", "do_not_email", "do_not_sell"}
                   THEN Flag(RowsWithAddress) ELSE identity
    /\ held' = IF scope \in {"all", "do_not_process"}
               THEN held \union RowsWithAddress \union linked ELSE held
    /\ flagged' = IF scope \in {"all", "do_not_email"}
                  THEN flagged \union RowsWithAddress ELSE flagged
    /\ resolver' = [j \in Jobs |->
           IF resolver[j].at \in {"check", "overwrite"}
           THEN [resolver[j] EXCEPT !.late = TRUE] ELSE resolver[j]]

\* An administrator; the mail provider reports a hard bounce or a complaint.
AddSuppression(scope) ==
    /\ Suppress(scope)
    /\ UNCHANGED <<linked, upload, clicked, lifted, overtaken, looked, crossed, disregarded>>

Unsubscribe ==
    /\ "do_not_email" \in Scopes
    /\ Suppress("do_not_email")
    /\ clicked' = TRUE
    /\ UNCHANGED <<linked, upload, lifted, overtaken, looked, crossed, disregarded>>

\* The same request, after its commit: the rows with the address, or if there
\* is none, those of the visitors who gave it. It may die of an error instead.
FlagRows ==
    /\ clicked
    /\ clicked' = FALSE
    /\ LET found == IF RowsWithAddress # {} THEN RowsWithAddress ELSE linked
       IN  \/ found \intersect Locked = {} /\ identity' = Flag(found)
           \/ UNCHANGED identity
    /\ UNCHANGED <<listed, held, linked, resolver, upload, optOutHistory>>

\* remove_suppression leaves the flags and holds alone.
RemoveSuppression(scope) ==
    /\ scope \in listed
    /\ listed' = listed \ {scope}
    /\ lifted' = (lifted \/ scope \in {"all", "do_not_email"})
    /\ UNCHANGED <<held, linked, identity, resolver, upload, clicked, flagged, overtaken,
                   looked, crossed, disregarded>>

-----------------------------------------------------------------------------
(* The visitor and the owner *)

\* Global Privacy Control; the aggregation ORs it into the visitor's row.
Signal(p) ==
    /\ p \in Tracked \ held
    /\ held' = held \union {p}
    /\ UNCHANGED <<listed, linked, identity, resolver, upload, clicked, optOutHistory>>

\* clear_privacy_hold
ClearHold(p) ==
    /\ p \in held
    /\ held' = held \ {p}
    /\ UNCHANGED <<listed, linked, identity, resolver, upload, clicked, optOutHistory>>

GiveAddress(p) ==
    /\ p \in Tracked \ linked
    /\ linked' = linked \union {p}
    /\ UNCHANGED <<listed, held, identity, resolver, upload, clicked, optOutHistory>>

\* reject_candidate
RejectMatch(p) ==
    /\ p \in Tracked \ Locked /\ identity[p] # Absent
    /\ identity' = Flag({p})
    /\ UNCHANGED <<listed, held, linked, resolver, upload, clicked, optOutHistory>>

-----------------------------------------------------------------------------
(* The resolver *)

Continue(j, x) == resolver' = [resolver EXCEPT ![j] = x]
StepTo(j, at) == Continue(j, [resolver[j] EXCEPT !.at = at])
ReadOnly == UNCHANGED <<records, upload, optOutHistory>>

\* j writes the address: who looked before has been overtaken, and j itself
\* crosses another if it had been.
Wrote(me, this) ==
    /\ looked' = (IF this
                  THEN {j \in Jobs : resolver[j].at \in {"save", "check", "overwrite"}} \union
                       {u \in Uploads : upload[u] # "off"} \union looked
                  ELSE looked) \ {me}
    /\ crossed' = (crossed \/ (this /\ me \in looked))

\* resolve() and its callers go by the visitor's row as it was loaded. Whom
\* they take by status is IdentityTier's.
StartResolve(j, p) ==
    /\ resolver[j].at = "off"
    /\ p \in Tracked \ held
    /\ Continue(j, [NoJob EXCEPT !.at = "gate", !.who = p])
    /\ ReadOnly

\* _is_email_opted_out asks for the addresses the visitor gave.
CheckOptedOut(j) ==
    /\ resolver[j].at = "gate"
    /\ IF resolver[j].who \in linked /\ Suppressed({"do_not_process"})
       THEN Continue(j, NoJob) ELSE StepTo(j, "match")
    /\ ReadOnly

\* ingest_identification saves without going through resolve().
StartWebhook(j, p) ==
    /\ resolver[j].at = "off"
    /\ p \in Tracked
    /\ Continue(j, [NoJob EXCEPT !.at = "match", !.who = p, !.held = p \in held])
    /\ ReadOnly

FindMatch(j, mail) ==
    /\ resolver[j].at = "match"
    /\ Continue(j, [resolver[j] EXCEPT !.at = "dedupe", !.mail = mail])
    /\ ReadOnly

\* Bug: no deduplication.
LookForHolderBug(j) == resolver[j].at = "dedupe" /\ StepTo(j, "save") /\ ReadOnly

\* One other holder: merged into it. Several: the query raises.
LookForHolder(j) ==
    /\ resolver[j].at = "dedupe"
    /\ IF resolver[j].mail = "this" /\ RowsWithAddress \ {resolver[j].who} # {}
       THEN Continue(j, NoJob) ELSE StepTo(j, "save")
    /\ ReadOnly

\* A write of the visitor's row; the history goes by what it holds then.
SaveRow(j, row) ==
    LET p == resolver[j].who
        fell == resolver[j].late /\ identity[p].doNotEmail /\ ~row.doNotEmail
    IN  /\ identity' = [identity EXCEPT ![p] = row]
        /\ Continue(j, NoJob)
        /\ Wrote(j, row.mail = "this")
        /\ flagged' = IF row.mail = "this" THEN flagged ELSE flagged \ {p}
        /\ overtaken' = IF fell /\ row.mail = "this"
                        THEN overtaken \union {p} ELSE overtaken
        /\ disregarded' = IF resolver[j].held THEN disregarded \union {p} ELSE disregarded
        /\ UNCHANGED <<listed, held, linked, clicked, upload, lifted>>

InsertRow(j) ==
    /\ resolver[j].at = "save"
    /\ identity[resolver[j].who] = Absent
    /\ SaveRow(j, [mail |-> resolver[j].mail, doNotEmail |-> FALSE])

\* The unique index is violated: the row is read.
ReadRow(j) ==
    /\ resolver[j].at = "save"
    /\ identity[resolver[j].who] # Absent
    /\ Continue(j, [resolver[j] EXCEPT !.at = "check",
                                       !.stored = identity[resolver[j].who]])
    /\ ReadOnly

\* What the fresh match changes (always if the address is another) is flushed
\* by the query about the suppression, and locks the row.
Flush(j, clear) ==
    /\ resolver[j].at = "check"
    /\ \E changed \in BOOLEAN :
          /\ resolver[j].mail # resolver[j].stored.mail => changed
          /\ changed => resolver[j].who \notin Locked
          /\ Continue(j, [resolver[j] EXCEPT !.at = "overwrite", !.changed = changed,
                                             !.clear = clear])
    /\ ReadOnly

\* Bug: a rejection is taken back, and an opt-out with it.
CheckSuppressedBug(j) == Flush(j, TRUE)

\* The flag is to be cleared unless the address is suppressed.
CheckSuppressed(j) == Flush(j, ~(resolver[j].mail = "this" /\ Suppressed({"do_not_email"})))

\* Columns that differ from what was read are written.
OverwriteRow(j) ==
    /\ resolver[j].at = "overwrite"
    /\ resolver[j].changed \/ resolver[j].who \notin Locked
    /\ LET now == identity[resolver[j].who]
           was == resolver[j].stored
       IN  SaveRow(j, [mail |-> IF resolver[j].mail = was.mail THEN now.mail
                                ELSE resolver[j].mail,
                       doNotEmail |-> IF resolver[j].clear /\ was.doNotEmail THEN FALSE
                                      ELSE now.doNotEmail])

\* Nobody matches, an error, a restart.
EndResolve(j) ==
    /\ resolver[j].at # "off"
    /\ Continue(j, NoJob)
    /\ looked' = looked \ {j}
    /\ UNCHANGED <<records, upload, flagged, lifted, overtaken, crossed, disregarded>>

-----------------------------------------------------------------------------
(* Uploads *)

Imported == {c \in Contacts : identity[c] # Absent}

\* The cap is counted and the addresses already there are read.
StartUpload(u) ==
    /\ upload[u] = "off"
    /\ Cardinality(Imported) + 1 <= MaxImported
    /\ RowsWithAddress = {}
    /\ upload' = [upload EXCEPT ![u] = "gate"]
    /\ UNCHANGED <<records, resolver, optOutHistory>>

\* SUPPRESSED_SCOPES
CheckUpload(u) ==
    /\ upload[u] = "gate"
    /\ upload' = [upload EXCEPT ![u] =
           IF Suppressed({"erased", "do_not_process", "do_not_email", "do_not_sell"})
           THEN "off" ELSE "commit"]
    /\ looked' = IF upload'[u] = "off" THEN looked \ {u} ELSE looked
    /\ UNCHANGED <<records, resolver, flagged, lifted, overtaken, crossed, disregarded>>

ImportContact(u, c) ==
    /\ upload[u] = "commit"
    /\ c \in Contacts \ Imported
    /\ identity' = [identity EXCEPT ![c] = [mail |-> "this", doNotEmail |-> FALSE]]
    /\ upload' = [upload EXCEPT ![u] = "off"]
    /\ Wrote(u, TRUE)
    /\ UNCHANGED <<listed, held, linked, clicked, resolver, flagged, lifted, overtaken,
                   disregarded>>

FailUpload(u) ==
    /\ upload[u] # "off"
    /\ upload' = [upload EXCEPT ![u] = "off"]
    /\ looked' = looked \ {u}
    /\ UNCHANGED <<records, resolver, flagged, lifted, overtaken, crossed, disregarded>>

-----------------------------------------------------------------------------
(* What begins, and how it goes on. *)

OptOutEvent ==
    \/ \E scope \in Scopes : AddSuppression(scope) \/ RemoveSuppression(scope)
    \/ Unsubscribe
    \/ \E p \in Everyone : Signal(p) \/ ClearHold(p) \/ GiveAddress(p) \/ RejectMatch(p)
    \/ \E j \in Jobs, p \in Tracked : StartResolve(j, p) \/ StartWebhook(j, p)
    \/ \E u \in Uploads : StartUpload(u)

OptOutStep ==
    \/ FlagRows
    \/ \E j \in Jobs :
          \/ CheckOptedOut(j) \/ LookForHolder(j) \/ InsertRow(j) \/ ReadRow(j)
          \/ CheckSuppressed(j) \/ OverwriteRow(j) \/ EndResolve(j)
          \/ \E mail \in {"this", "other"} : FindMatch(j, mail)
    \/ \E u \in Uploads :
          \/ CheckUpload(u) \/ FailUpload(u)
          \/ \E c \in Contacts : ImportContact(u, c)

OptOutNext == OptOutEvent \/ OptOutStep

OptOutSpec == OptOutInit /\ [][OptOutNext]_optOutVars

-----------------------------------------------------------------------------
(* Properties *)

\* A row that an opt-out from mail has flagged keeps the flag, although a later
\* resolution takes flags back: it loses it only if the suppression is removed,
\* or to a job that had read the row before the opt-out.
FlagsKept ==
    \A p \in flagged : identity[p].doNotEmail \/ lifted \/ p \in overtaken

\* One row per address, and no more contacts than the limit, unless two of
\* those who looked first and wrote later have overlapped.
AddressOnce ==
    crossed \/ (Cardinality(RowsWithAddress) <= 1 /\ Cardinality(Imported) <= MaxImported)

OptOutSound == FlagsKept /\ AddressOnce

\* A visitor with a privacy hold is not resolved by a job that began under it:
\* "A visitor who signaled Global Privacy Control / Do Not Track must NEVER be
\* resolved to a real identity, regardless of caller" (identity_resolver.py:590).
HeldNeverResolved == disregarded = {}
=============================================================================
