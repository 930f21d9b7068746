---------------------------- MODULE CampaignSend ----------------------------
(***************************************************************************)
(* The send loop of one e-mail campaign (services/campaign_sender.py) and   *)
(* everything that runs beside it: other /send and /start requests, the     *)
(* owner editing the campaign's status or deleting it, recipients who        *)
(* unsubscribe, candidates a human confirms or rejects, the Gmail grant      *)
(* dying, the process being restarted.                                       *)
(*                                                                          *)
(* A run is one request.  Every await on Postgres, Redis or a mail provider  *)
(* is a step of its own.  A touchpoint a run has flushed but not committed   *)
(* is in `claim`; committed rows are in `touchpoint`.  The unique index on   *)
(* (campaign, visitor, channel) makes a second insert wait while the first   *)
(* is uncommitted and fail once it is committed.                             *)
(***************************************************************************)
EXTENDS Naturals, FiniteSets

CONSTANTS
    Runs,               \* requests that may be in the send path at once
    Recipients,         \* members of the campaign's segment
    Cap,                \* settings.max_emails_per_hour_per_site
    MaxLost,            \* bound: messages per recipient whose outcome is lost
    CandidateOutreach,  \* settings.candidate_outreach_enabled
    NoRun,              \* no run holds the claim
    Nobody              \* a run that is between recipients

ASSUME SendAssumption ==
    /\ Cap \in Nat \ {0}
    /\ MaxLost \in Nat
    /\ CandidateOutreach \in BOOLEAN
    /\ NoRun \notin Runs
    /\ Nobody \notin Recipients

VARIABLES
    status,         \* campaigns.status, or "deleted"
    edit,           \* an owner's status change between its read and its commit
    touchpoint,     \* committed campaign_touchpoints row of each recipient
    claim,          \* run holding an uncommitted touchpoint row
    contact,        \* the identity tier on the recipient's visitor record
    doNotEmail,     \* recipients with identified_visitors.do_not_email
    suppressed,     \* recipients whose address has a do_not_email suppression row
    gmailActive,    \* the owner has a connected, active Gmail account
    used,           \* Redis counter of the site's current clock hour
    pc,             \* the step each request is at
    at,             \* the recipient it is working on
    job,            \* the rest of its local state
    \* history
    mailed,         \* messages delivered to each recipient
    lost,           \* those whose outcome no committed row and no live run knows
    late            \* runs whose recipient had opted out when the loop took them up

dbVars == <<status, edit, touchpoint, claim>>
peopleVars == <<contact, doNotEmail, suppressed>>
siteVars == <<gmailActive, used>>
localVars == <<pc, at, job, late>>
worldVars == <<mailed, lost>>

vars == <<dbVars, peopleVars, siteVars, localVars, worldVars>>

Statuses == {"draft", "approved", "active", "paused", "completed", "archived"}

ValidTransitions ==
    [s \in Statuses |->
        CASE s = "draft"    -> {"approved"}
          [] s = "approved" -> {"active", "draft"}
          [] s = "active"   -> {"paused", "completed"}
          [] s = "paused"   -> {"active", "completed"}
          [] OTHER          -> {}]

\* "guess": no identified row, a company-level guess or a rejected candidate.
Tiers == {"guess", "candidate", "person"}

NoEdit == "none"

Steps == {"idle", "activate", "loop", "suppression", "existing", "reserve", "claim",
          "token", "gmail", "sendgrid", "mark", "raced", "failed", "release"}

\* seen: what campaign.status, as the session last read it, means to the request
\* (a start will activate it; it needs no write to be "completed").  mail: the
\* Gmail account object - in use, set to None, or expired by a rollback.
Job ==
    [todo: SUBSET Recipients, seen: {"startable", "completed", "other"},
     mail: {"on", "off", "expired"}, sent: BOOLEAN, throttled: BOOLEAN]

NoJob == [todo |-> {}, seen |-> "other", mail |-> "off", sent |-> FALSE, throttled |-> FALSE]

TypeOK ==
    /\ status \in Statuses \union {"deleted"}
    /\ edit \in Statuses \union {NoEdit}
    /\ touchpoint \in [Recipients -> {"none", "pending", "sent"}]
    /\ claim \in [Recipients -> Runs \union {NoRun}]
    /\ contact \in [Recipients -> Tiers]
    /\ doNotEmail \subseteq Recipients
    /\ suppressed \subseteq Recipients
    /\ gmailActive \in BOOLEAN
    /\ used \in Nat
    /\ pc \in [Runs -> Steps]
    /\ at \in [Runs -> Recipients \union {Nobody}]
    /\ job \in [Runs -> Job]
    /\ mailed \in [Recipients -> Nat]
    /\ lost \in [Recipients -> Nat]
    /\ late \subseteq Runs

\* Addresses may have been suppressed, on this or another site, before the
\* visitor was identified here: such a row has no do_not_email flag beside it.
Init ==
    /\ status = "draft"
    /\ edit = NoEdit
    /\ touchpoint = [v \in Recipients |-> "none"]
    /\ claim = [v \in Recipients |-> NoRun]
    /\ contact \in [Recipients -> Tiers]
    /\ doNotEmail = {}
    /\ suppressed \in SUBSET Recipients
    /\ gmailActive \in BOOLEAN
    /\ used = 0
    /\ pc = [r \in Runs |-> "idle"]
    /\ at = [r \in Runs |-> Nobody]
    /\ job = [r \in Runs |-> NoJob]
    /\ mailed = [v \in Recipients |-> 0]
    /\ lost = [v \in Recipients |-> 0]
    /\ late = {}

-----------------------------------------------------------------------------
(* Helpers *)

At(r, step) == pc[r] = step
Exists == status # "deleted"
Seen(now) == IF now = "completed" THEN "completed" ELSE "other"

\* Request r moves on, with nothing else of its own changed.
Goto(r, step) ==
    /\ pc' = [pc EXCEPT ![r] = step]
    /\ UNCHANGED <<at, job, late>>

\* The loop is done with this recipient; the job's totals become j.
NextRecipient(r, j) ==
    /\ pc' = [pc EXCEPT ![r] = "loop"]
    /\ at' = [at EXCEPT ![r] = Nobody]
    /\ job' = [job EXCEPT ![r] = j]
    /\ late' = late \ {r}

\* The request is over: it returned, died, or failed on an exception nobody
\* catches (HTTP 500, and the session rolls back as it closes).
End(r) ==
    /\ pc' = [pc EXCEPT ![r] = "idle"]
    /\ at' = [at EXCEPT ![r] = Nobody]
    /\ job' = [job EXCEPT ![r] = NoJob]
    /\ late' = late \ {r}

\* Gmail is given up for the rest of the run.
FallBack(r) ==
    /\ pc' = [pc EXCEPT ![r] = "sendgrid"]
    /\ job' = [job EXCEPT ![r].mail = "off"]
    /\ UNCHANGED <<at, late>>

\* The uncommitted insert of run r, if any, is gone after its rollback.
DropClaim(r) == claim' = [v \in Recipients |-> IF claim[v] = r THEN NoRun ELSE claim[v]]

\* COMMIT: the row run r has flushed becomes visible and durable.
CommitClaim(r) ==
    /\ touchpoint' = [v \in Recipients |-> IF claim[v] = r THEN "pending" ELSE touchpoint[v]]
    /\ DropClaim(r)

-----------------------------------------------------------------------------
(* Requests that start a run *)

\* The session loads the send list and the owner's Gmail account.
Begin(r, now) ==
    /\ pc' = [pc EXCEPT ![r] = "loop"]
    /\ job' = [job EXCEPT ![r] =
                  [NoJob EXCEPT !.todo = Recipients, !.seen = Seen(now),
                                !.mail = IF gmailActive THEN "on" ELSE "off"]]
    /\ UNCHANGED <<at, late>>

\* POST /send: 400 unless the campaign is active.
SendCampaign(r) ==
    /\ At(r, "idle")
    /\ status = "active"
    /\ Begin(r, status)
    /\ UNCHANGED <<dbVars, peopleVars, siteVars, worldVars>>

\* POST /start reads the campaign: 409 when it is completed.
LoadForStart(r) ==
    /\ At(r, "idle")
    /\ Exists
    /\ status # "completed"
    /\ pc' = [pc EXCEPT ![r] = "activate"]
    /\ job' = [job EXCEPT ![r].seen =
                  IF status \in {"draft", "approved", "paused"} THEN "startable" ELSE "other"]
    /\ UNCHANGED <<dbVars, peopleVars, siteVars, at, late, worldVars>>

\* ... and activates it on the strength of that read, then sends.
StartCampaign(r) ==
    LET after == IF job[r].seen = "startable" THEN "active" ELSE status IN
    /\ At(r, "activate")
    /\ \/ Exists /\ status' = after /\ Begin(r, after)
       \/ ~Exists /\ UNCHANGED status /\ End(r)
    /\ UNCHANGED <<edit, touchpoint, claim, peopleVars, siteVars, worldVars>>

-----------------------------------------------------------------------------
(* The loop over recipients *)

\* Bug: a candidate is as good as a person, whatever the setting.
EmailableBug(v) == contact[v] \in {"person", "candidate"}

Emailable(v) ==
    \/ contact[v] = "person"
    \/ contact[v] = "candidate" /\ CandidateOutreach

\* The identified-visitor row: its address, do_not_email and identity tier.
TakeRecipient(r, v) ==
    /\ At(r, "loop")
    /\ v \in job[r].todo
    /\ job' = [job EXCEPT ![r].todo = @ \ {v}]
    /\ \/ /\ v \notin doNotEmail
          /\ Emailable(v)
          /\ pc' = [pc EXCEPT ![r] = "suppression"]
          /\ at' = [at EXCEPT ![r] = v]
          /\ late' = IF v \in suppressed \union doNotEmail THEN late \union {r} ELSE late
       \/ /\ v \in doNotEmail \/ ~Emailable(v)
          /\ UNCHANGED <<pc, at, late>>
    /\ UNCHANGED <<dbVars, peopleVars, siteVars, worldVars>>

\* Bug: trusts the do_not_email flag, which earlier opt-outs never set.
CheckSuppressionBug(r) ==
    /\ At(r, "suppression")
    /\ Goto(r, "existing")
    /\ UNCHANGED <<dbVars, peopleVars, siteVars, worldVars>>

CheckSuppression(r) ==
    /\ At(r, "suppression")
    /\ \/ at[r] \in suppressed /\ NextRecipient(r, job[r])
       \/ at[r] \notin suppressed /\ Goto(r, "existing")
    /\ UNCHANGED <<dbVars, peopleVars, siteVars, worldVars>>

\* Fast path: a committed row with status "sent".
CheckExisting(r) ==
    /\ At(r, "existing")
    /\ \/ touchpoint[at[r]] = "sent" /\ NextRecipient(r, job[r])
       \/ touchpoint[at[r]] # "sent" /\ Goto(r, "reserve")
    /\ UNCHANGED <<dbVars, peopleVars, siteVars, worldVars>>

\* Module EmailCap has the Redis calls this stands for.  A slot may be refused
\* below the cap, while refused increments of others wait to be undone; a Redis
\* error lets the message through uncounted.
ReserveSlot(r) ==
    /\ At(r, "reserve")
    /\ \/ used < Cap /\ used' = used + 1 /\ Goto(r, "claim")
       \/ UNCHANGED used /\ NextRecipient(r, [job[r] EXCEPT !.throttled = TRUE])
       \/ UNCHANGED used /\ Goto(r, "claim")
    /\ UNCHANGED <<dbVars, peopleVars, gmailActive, worldVars>>

\* Bug: no unique index, so only a row already marked sent stops a claim.
ClaimRecipientBug(r) ==
    /\ At(r, "claim")
    /\ claim' = [claim EXCEPT ![at[r]] = r]
    /\ Goto(r, "sendgrid")
    /\ UNCHANGED <<status, edit, touchpoint, peopleVars, siteVars, worldVars>>

\* INSERT of the pending touchpoint.  It waits while another run's insert for
\* the same recipient is uncommitted; it fails on a committed row, and on the
\* foreign key when the campaign is gone.
ClaimRecipient(r) ==
    LET v == at[r]
        free == Exists /\ touchpoint[v] = "none"
    IN  /\ At(r, "claim")
        /\ claim[v] = NoRun
        /\ \/ /\ free
              /\ claim' = [claim EXCEPT ![v] = r]
              /\ Goto(r, IF job[r].mail = "off" THEN "sendgrid" ELSE "token")
           \/ /\ ~free
              /\ UNCHANGED claim
              /\ Goto(r, "raced")
        /\ UNCHANGED <<status, edit, touchpoint, peopleVars, siteVars, worldVars>>

\* _ensure_fresh_access_token.  The stored token is good, or is refreshed and the
\* session COMMITTED, the claim with it ...
TokenReady(r) ==
    /\ At(r, "token")
    /\ job[r].mail = "on"
    /\ CommitClaim(r) \/ UNCHANGED <<touchpoint, claim>>
    /\ Goto(r, "gmail")
    /\ UNCHANGED <<status, edit, peopleVars, siteVars, worldVars>>

\* ... or the grant is dead, which commits too; or Google cannot be reached ...
TokenRefused(r) ==
    /\ At(r, "token")
    /\ job[r].mail = "on"
    /\ \/ CommitClaim(r) /\ gmailActive' = FALSE
       \/ UNCHANGED <<touchpoint, claim, gmailActive>>
    /\ FallBack(r)
    /\ UNCHANGED <<status, edit, peopleVars, used, worldVars>>

\* ... or the account object was expired by an earlier rollback and reading it
\* raises an error the loop does not catch.
TokenUnreadable(r) ==
    /\ At(r, "token")
    /\ job[r].mail = "expired"
    /\ DropClaim(r)
    /\ End(r)
    /\ UNCHANGED <<status, edit, touchpoint, peopleVars, siteVars, worldVars>>

Deliver(v) == mailed' = [mailed EXCEPT ![v] = @ + 1]
Lose(v) == lost' = [lost EXCEPT ![v] = @ + 1]

\* Gmail takes the message; or refuses it; or takes it and the answer never
\* arrives.  After the last two the run gives Gmail up and falls through.
GmailSend(r) ==
    LET v == at[r] IN
    /\ At(r, "gmail")
    /\ \/ Deliver(v) /\ UNCHANGED lost /\ Goto(r, "mark")
       \/ UNCHANGED worldVars /\ FallBack(r)
       \/ lost[v] < MaxLost /\ Deliver(v) /\ Lose(v) /\ FallBack(r)
    /\ UNCHANGED <<dbVars, peopleVars, siteVars>>

\* Bug: the branch of a failed send falls through to the marking.
SendGridSendBug(r) ==
    /\ At(r, "sendgrid")
    /\ Deliver(at[r]) \/ UNCHANGED mailed
    /\ Goto(r, "mark")
    /\ UNCHANGED <<dbVars, peopleVars, siteVars, lost>>

\* EmailSender.send, called without a session: no suppression check of its own.
SendGridSend(r) ==
    LET v == at[r] IN
    /\ At(r, "sendgrid")
    /\ \/ Deliver(v) /\ UNCHANGED lost /\ Goto(r, "mark")
       \/ UNCHANGED worldVars /\ Goto(r, "failed")
       \/ lost[v] < MaxLost /\ Deliver(v) /\ Lose(v) /\ Goto(r, "failed")
    /\ UNCHANGED <<dbVars, peopleVars, siteVars>>

\* The row becomes "sent" and the transaction commits ...
MarkSent(r) ==
    LET v == at[r] IN
    /\ At(r, "mark")
    /\ claim[v] = r \/ touchpoint[v] = "pending"
    /\ touchpoint' = [touchpoint EXCEPT ![v] = "sent"]
    /\ DropClaim(r)
    /\ NextRecipient(r, [job[r] EXCEPT !.sent = TRUE])
    /\ UNCHANGED <<status, edit, peopleVars, siteVars, worldVars>>

\* ... unless it went with a deleted campaign: the UPDATE matches nothing.
MarkVanished(r) ==
    LET v == at[r] IN
    /\ At(r, "mark")
    /\ claim[v] # r /\ touchpoint[v] # "pending"
    /\ Lose(v)
    /\ End(r)
    /\ UNCHANGED <<dbVars, peopleVars, siteVars, mailed>>

\* Rollback, then refresh(campaign): after a lost claim or a failed send.  The
\* rollback expires the Gmail account object too; refreshing a deleted campaign
\* raises.
RollBack(r) ==
    /\ At(r, "raced") \/ At(r, "failed")
    /\ DropClaim(r)
    /\ \/ /\ Exists
          /\ pc' = [pc EXCEPT ![r] = "release"]
          /\ job' = [job EXCEPT ![r].seen = Seen(status),
                                ![r].mail = IF job[r].mail = "on" THEN "expired" ELSE job[r].mail]
          /\ UNCHANGED <<at, late>>
       \/ ~Exists /\ End(r)
    /\ UNCHANGED <<status, edit, touchpoint, peopleVars, siteVars, worldVars>>

\* Bug: the recipient is put back on the list, to be tried again at once.
ReleaseSlotBug(r) ==
    /\ At(r, "release")
    /\ used' = IF used > 0 THEN used - 1 ELSE 0
    /\ NextRecipient(r, [job[r] EXCEPT !.todo = @ \union {at[r]}])
    /\ UNCHANGED <<dbVars, peopleVars, gmailActive, worldVars>>

ReleaseSlot(r) ==
    /\ At(r, "release")
    /\ used' = IF used > 0 THEN used - 1 ELSE 0
    /\ NextRecipient(r, job[r])
    /\ UNCHANGED <<dbVars, peopleVars, gmailActive, worldVars>>

\* Completion rule of /send and /start.  The ORM writes the status only when it
\* differs from the one the session last read.
Finish(r) ==
    LET completes == job[r].sent /\ ~job[r].throttled /\ job[r].seen # "completed" IN
    /\ At(r, "loop")
    /\ job[r].todo = {}
    /\ status' = IF completes /\ Exists THEN "completed" ELSE status
    /\ End(r)
    /\ UNCHANGED <<edit, touchpoint, claim, peopleVars, siteVars, worldVars>>

-----------------------------------------------------------------------------
(* The rest of the world *)

\* The process dies; Postgres rolls the open transaction back.  A message
\* already accepted but not yet marked is forgotten.
Crash(r) ==
    LET v == at[r] IN
    /\ ~At(r, "idle")
    /\ \/ At(r, "mark") /\ lost[v] < MaxLost /\ Lose(v)
       \/ ~At(r, "mark") /\ UNCHANGED lost
    /\ DropClaim(r)
    /\ End(r)
    /\ UNCHANGED <<status, edit, touchpoint, peopleVars, siteVars, mailed>>

\* PATCH status, archive, unarchive: each reads the campaign, checks, writes.
BeginEdit ==
    /\ edit = NoEdit
    /\ Exists
    /\ \E to \in ValidTransitions[status] \union {"archived"}
                 \union (IF status = "archived" THEN {"draft"} ELSE {}) :
          to # status /\ edit' = to
    /\ UNCHANGED <<status, touchpoint, claim, peopleVars, siteVars, localVars, worldVars>>

CommitEdit ==
    /\ edit # NoEdit
    /\ status' = IF Exists THEN edit ELSE status
    /\ edit' = NoEdit
    /\ UNCHANGED <<touchpoint, claim, peopleVars, siteVars, localVars, worldVars>>

\* Waits for uncommitted touchpoints: their foreign key locks the campaign row.
DeleteCampaign ==
    /\ Exists
    /\ \A v \in Recipients : claim[v] = NoRun
    /\ status' = "deleted"
    /\ touchpoint' = [v \in Recipients |-> "none"]
    /\ UNCHANGED <<edit, claim, peopleVars, siteVars, localVars, worldVars>>

\* Unsubscribe link, SendGrid bounce or spam report, admin suppression.
OptOut(v) ==
    /\ v \notin suppressed \intersect doNotEmail
    /\ suppressed' = suppressed \union {v}
    /\ doNotEmail' = doNotEmail \union {v}
    /\ UNCHANGED <<dbVars, contact, siteVars, localVars, worldVars>>

ConfirmCandidate(v) ==
    /\ contact[v] = "candidate"
    /\ contact' = [contact EXCEPT ![v] = "person"]
    /\ UNCHANGED <<dbVars, doNotEmail, suppressed, siteVars, localVars, worldVars>>

RejectCandidate(v) ==
    /\ contact[v] = "candidate"
    /\ contact' = [contact EXCEPT ![v] = "guess"]
    /\ doNotEmail' = doNotEmail \union {v}
    /\ UNCHANGED <<dbVars, suppressed, siteVars, localVars, worldVars>>

\* The owner connects or disconnects Gmail.
SwitchGmail ==
    /\ gmailActive' = ~gmailActive
    /\ UNCHANGED <<dbVars, peopleVars, used, localVars, worldVars>>

\* A preview takes a slot of the same cap (uncounted, if Redis fails), keeps it
\* whether or not it goes out, and may find the grant dead.
TestSendCampaign ==
    /\ Exists
    /\ \/ used < Cap /\ used' = used + 1
       \/ UNCHANGED used
    /\ gmailActive' = FALSE \/ UNCHANGED gmailActive
    /\ UNCHANGED <<dbVars, peopleVars, localVars, worldVars>>

\* The counter's key names the clock hour.
NextHour ==
    /\ used > 0
    /\ used' = 0
    /\ UNCHANGED <<dbVars, peopleVars, gmailActive, localVars, worldVars>>

-----------------------------------------------------------------------------

\* What a request does once it has begun.
RunStep(r) ==
    \/ StartCampaign(r)
    \/ \E v \in Recipients : TakeRecipient(r, v)
    \/ CheckSuppression(r)
    \/ CheckExisting(r)
    \/ ReserveSlot(r)
    \/ ClaimRecipient(r)
    \/ TokenReady(r)
    \/ TokenRefused(r)
    \/ TokenUnreadable(r)
    \/ GmailSend(r)
    \/ SendGridSend(r)
    \/ MarkSent(r)
    \/ MarkVanished(r)
    \/ RollBack(r)
    \/ ReleaseSlot(r)
    \/ Finish(r)

Environment ==
    \/ \E v \in Recipients : OptOut(v) \/ ConfirmCandidate(v) \/ RejectCandidate(v)
    \/ BeginEdit
    \/ CommitEdit
    \/ DeleteCampaign
    \/ SwitchGmail
    \/ TestSendCampaign
    \/ NextHour

Next ==
    \/ \E r \in Runs : SendCampaign(r) \/ LoadForStart(r) \/ RunStep(r) \/ Crash(r)
    \/ Environment

Spec == Init /\ [][Next]_vars

\* A request's coroutine keeps being scheduled, and Postgres queues the inserts
\* that wait for one index entry, so a waiting insert is served eventually.
FairSpec ==
    /\ Spec
    /\ \A r \in Runs : WF_vars(RunStep(r)) /\ SF_vars(ClaimRecipient(r))

-----------------------------------------------------------------------------
(* Properties *)

\* Between the insert of the touchpoint and its outcome.
Sending(r) == pc[r] \in {"token", "gmail", "sendgrid", "mark", "failed"}

\* Two requests never have a message to the same recipient in hand, even after
\* the token refresh has committed the claim half way through.
OneSender ==
    \A r, q \in Runs : Sending(r) /\ Sending(q) /\ at[r] = at[q] => r = q

\* A recipient gets one message, plus at most one for each whose outcome was
\* lost (no answer from the provider, a restart before the commit): concurrent
\* /send and /start calls never add one.
OneMailPerOutcome == \A v \in Recipients : mailed[v] <= lost[v] + 1

\* A touchpoint recorded "sent" stands for a message that really went out.
SentMeansMailed == \A v \in Recipients : touchpoint[v] = "sent" => mailed[v] > lost[v]

\* Nobody who had opted out before the loop reached them is claimed or mailed,
\* whether or not the opt-out left a flag on their row.
OptOutHonoured == \A r \in Runs : r \in late => pc[r] = "suppression"

\* Only a confirmed or first-party identity is mailed while candidate outreach is
\* off, though tiers change under the loop.
ConfirmedOnly ==
    \A r \in Runs : Sending(r) /\ ~CandidateOutreach => contact[at[r]] = "person"

\* Why these hold.  The claim is the lock: whoever is sending to v holds the
\* uncommitted row or a committed "pending" one that nobody else can insert
\* beside, and a recipient with no row has no message on the books.
Busy(r) == pc[r] \notin {"idle", "activate", "loop"}

BusyHasRecipient == \A r \in Runs : Busy(r) => at[r] \in Recipients

ClaimsAreHeld ==
    \A v \in Recipients : claim[v] # NoRun =>
        Sending(claim[v]) /\ at[claim[v]] = v /\ touchpoint[v] = "none" /\ Exists

SendersHoldRow ==
    \A r \in Runs : Sending(r) =>
        claim[at[r]] = r \/ touchpoint[at[r]] = "pending" \/ ~Exists

DeletedHasNoRows == ~Exists => \A v \in Recipients : touchpoint[v] = "none"

Balanced ==
    /\ \A v \in Recipients : mailed[v] \in {lost[v], lost[v] + 1}
    /\ \A r \in Runs : Sending(r) =>
          mailed[at[r]] = IF pc[r] = "mark" THEN lost[at[r]] + 1 ELSE lost[at[r]]
    /\ \A v \in Recipients :
          Exists /\ touchpoint[v] = "none" /\ claim[v] = NoRun => mailed[v] = lost[v]

LateIsSuppressed == \A r \in late : pc[r] = "suppression" /\ at[r] \in suppressed

BusyIsConfirmed ==
    \A r \in Runs : Busy(r) /\ ~CandidateOutreach => contact[at[r]] = "person"

IInv ==
    /\ TypeOK
    /\ BusyHasRecipient
    /\ ClaimsAreHeld
    /\ SendersHoldRow
    /\ DeletedHasNoRows
    /\ OneSender
    /\ Balanced
    /\ SentMeansMailed
    /\ LateIsSuppressed
    /\ BusyIsConfirmed

\* The promise to each recipient.
Ledger == INSTANCE OutreachLedger WITH
    unknown <- lost,
    recorded <- {v \in Recipients : touchpoint[v] = "sent"}

LedgerKept == Ledger!Spec

\* Every request that starts comes to an end: no insert waits for ever.
RequestReturns == \A r \in Runs : ~At(r, "idle") ~> At(r, "idle")

\* campaign_sender.py:514 - the rollback after a failed send discards the
\* pending touchpoint, so the recipient can be tried again.
RollbackDiscardsClaim ==
    [][\A r \in Runs : At(r, "failed") /\ pc'[r] = "release"
                          => touchpoint'[at[r]] = "none"]_vars
=============================================================================
