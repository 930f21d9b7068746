# Beam in TLA+

TLA+ specifications of the backend of Beam (`apps/api`), with the TLC runs that check them on
small instances and the TLAPS proofs that hold for all instances. Source paths below are relative
to `src/apps/api/`. `PROJECT.json` maps each definition to its source lines, lists the hazards each
property is there for, the runs, and for every property a plausible bug that breaks it.

Beam identifies the visitors of a customer's web site and helps to reach them. A pixel posts
batches of events; the API stores them and rolls them up into visitors; identity providers resolve
visitors to people or companies; a human reviews the uncertain ones; campaigns mail the others
under an hourly cap, and conversions are credited to them. Around this stand plans and their billing,
a graph of identities that tenants share and must be able to erase people from, replies on social
platforms, audiences on ad platforms, paid API calls, referrals and nudges. The API runs in one or more containers of asyncio coroutines over one Postgres
and one Redis. Nothing is protected by threads or in-process locks: **what excludes what is decided
by unique indexes, row locks, Redis keys with a lifetime, and the order of awaits**, and that is
what is modelled here. A step of a model is what happens between two awaits.

## Inventory

| Part | State | Operations | Interacts with | Hard because | Correct when |
|---|---|---|---|---|---|
| **Campaign send loop** `services/campaign_sender.py`, `email_sender.py`, `email_providers/*` | `campaign_touchpoints`, the session's uncommitted rows | per recipient: suppression check, existing check, reserve slot, claim (flush), send, mark (commit), roll back, release slot | every request that sends, the owner's edits, opt-outs, review, the cap, Gmail and SendGrid | reads go stale over five awaits; a token refresh commits the session in the middle; answers get lost | one message per recipient; opt-outs and the confirm gate hold; what is recorded is true |
| **Campaign status** `routers/campaigns.py` | `campaigns.status` | transitions, start, send, archive, delete, test send | send loop | a status read before the loop is acted on after it | the loop survives every edit |
| **Hourly cap** `services/email_rate_limiter.py` | Redis counter per site and clock hour | reserve (INCR, EXPIRE, DECR), release (DECR, DELETE) | send loop, test sends | no transaction over the calls; fails open; the hour turns | messages per hour within the cap, or accounted for |
| **Opt-out** `services/suppression.py`, `routers/unsubscribe.py`, `webhooks.py`, `privacy.py` | `suppressions`, `do_not_email`, `do_not_resolve` | add with its cascade, remove, check, privacy signals, unsubscribe link | send loop, identity resolution, uploads | two records of one fact, and writers that asked before | an opt-out is never undone by accident |
| **Contact uploads** `services/contact_importer.py` | identities without a visit | count, look for duplicates, check the list, insert | opt-outs, resolution | asks first, writes later, no index behind it | one row per address, within the cap |
| **Event ingest** `routers/events.py` | `events`, `_aggregating` | batch insert, trigger | aggregation, identity | redelivery, client clocks | each event stored once |
| **Visitor aggregation** `services/visitor_aggregator.py`, `aggregation_debounce.py`, `jobs/scheduler.py` | `visitors`, `sites.last_aggregated_at`, three kinds of Redis keys | full recompute (SET), incremental merge (ADD), watermark, repair sweep | ingest, retention, identity | two kinds of writers that do not commute; keys without owners; a hot site | totals become right again and again; the repair gets its turn |
| **Event retention** `services/retention.py` | `events` | batched DELETE | aggregation | deletes what the recompute reads | aggregates survive the purge |
| **Identity resolution** `services/identity_resolver.py`, `resolution_runner.py`, `identity_providers/*`, `identity_classification.py` | `identified_visitors`, `visitors.identity_status` | resolve, inherit, conflict upsert, dedupe, sweep | review, send loop, usage | minutes between read and write; upserts after a lost race | a guess never becomes mailable, nor overwrites a human's decision |
| **Candidate review** `routers/visitors.py` | the same rows | confirm, reject, manual identify, bulk reset | resolution, send loop | acts on a row that is being resolved | the human decides what is mailed |
| **Billing and usage** `services/billing.py`, `routers/billing.py`, `dependencies.py` | plan, period, counter of `users` | Gumroad pings, sign-in and relinking, lazy monthly reset, check and increment | resolution | pings late, twice, out of order, without sequence numbers; check, then minutes, then act | nobody has a plan they did not pay for, and who pays gets it; the month is counted |
| **Sites** `routers/sites.py` | `sites`, `site_tombstones`, every row with a site id | create (an id may be issued again), delete with its cascade, pause | all parts | requests that read the site before it was deleted | a re-created site starts clean; an id stays its owner's |
| **Site analysis** `services/site_analysis.py` | status, candidate and profile, daily count, in-process set | POST, background task, promote, dismiss | usage limits | replicas, restarts, rows loaded early | the budget bounds the runs |
| **Co-op ledger** `services/identity_coop.py`, `coop_expiry_sweep.py` | events, ACCRUE and EXPIRE rows | contribute, expire | resolution, deletion of sites | unique indexes decide who is first | the balance is backed by events |
| **Erasure** `services/graph_erasure.py`, `identity_signals.py` | requests, tombstones, graph, signals | queue, sweep, reclaim, give up | resolution, mail opens | a write against an erasure in flight | erased stays erased; a request settles |
| **Inactivity** `services/reengagement.py` | ages, stamps, pause of a site | remind, pause, resume, nudge | the owner's requests | stamps against mails, stale rows | no pause without warning; an active owner's sites run |
| **Social posting** `services/sender.py`, `sync.py`, `routers/drafts.py` | drafts, tokens, attributions | approve, retry, reject, post, sync | platform APIs | lost answers of an API that posts; single-use refresh tokens | one comment; no token spent twice |
| **Paid calls** `services/x402_seller.py`, `routers/paid.py` | `paid_requests` | claim, handle, settle, mark | the facilitator | settlement whose answer is lost | charged once, for content |
| **Conversions** `services/conversion_tracker.py`, `routers/outcomes.py`, `click.py` | goals, clicks, conversions | landing, page view, reported order, capture | campaigns, ingest | retries whose key has changed meanwhile | an order counts once; the campaign gets its credit |
| **Ads** `services/ads_push.py`, `routers/ads.py` | connection, audience link | connect, test, push, disconnect | ad platforms | rows loaded before a disconnect; an audience made and not recorded | one audience; disconnected stays so |
| **IP data** `services/ip_org_ingest.py`, `ip_org_rir_ingest.py` | `ip_org_prefixes` | two jobs rebuild the table and swap it in | resolution | lock lost, DDL that waits and deadlocks | no source loses the rows of another |
| **Referrals** `routers/referrals.py`, `services/referral_activation.py` | code, referrer, bonus | show code, claim, award | billing | overlapping sweeps, claims on stale rows | each award once, to the one on record |
| Digests and alerts `services/*_digest.py`, `hot_alert.py`, `connection_nudge.py` | "last sent" stamps | mail, then stamp | e-mail | as `Inactivity` | not modelled |
| Agent visits and gateway `services/agent_*.py` | agent visits | classify, correlate | ingest | one write each | not modelled |
| CRM push, CSV export `services/crm_push.py`, `csv_exporter.py` | rate counters | push, export | external | as the cap, without a release | not modelled |
| OAuth state `services/oauth_state.py` | one-time Redis keys | put, take | login | one atomic pipeline | not modelled |
| LinkedIn sidecar, onboarding, blog, pixel, extension, web app | - | one request and one write each, client code | - | - | not modelled |

## Modules

| Module | What it is |
|---|---|
| `OutreachLedger` | abstract: what each recipient of a campaign is promised |
| `CampaignSend` | the send loop and all that runs beside it; implements `OutreachLedger` |
| `MCCampaignSend`, `CampaignSendProofs` | TLC instances; theorems |
| `EmailCap` | the cap, one Redis call per step |
| `Conversions` | orders reported and page views, up to the row that counts them |
| `Aggregation`, `MCAggregation`, `AggregationProofs` | overlapping aggregation runs on one visitor's total; TLC instance; theorems |
| `AggregationKeys` | the debounce key and the yield marker: ingest against the repair sweep |
| `IdentityTier`, `MCIdentityTier`, `IdentityTierProofs` | resolver, webhook and owner on the rows that say who a visitor is; TLC instances; theorems |
| `OptOut` | the suppression list, the flags it sets, and who writes the rows it speaks about |
| `OutreachProofs` | theorems about `EmailCap`, `OptOut` and `Conversions` |
| `Accounts` | a buyer's accounts under sign-ins and Gumroad pings |
| `Usage` | the monthly limit: read, check, resolve, count |
| `CoopLedger` | credits of a co-op site |
| `PaidGate` | the row of a payment as the guard of a paid call |
| `IpOrgSwap` | two jobs that rebuild one table |
| `SiteLifecycle` | sites, tombstones, and what a deleted site leaves |
| `SiteAnalysis` | the background analysis of a site and its budget |
| `Erasure` | erasure requests against the writers of what they erase |
| `Inactivity`, `InactivityProofs` | reminder, pause, resume, install nudge; theorems |
| `SocialPosting` | drafts of one post, and the token of one social account |
| `AudiencePush` | one segment, one ad connection |
| `Referrals` | codes, claims and awards |
| `MCOutreach` | `IdentityTier`, `OptOut`, `EmailCap`, `Conversions` for TLC |
| `MCRecords`, `RecordsProofs` | `Accounts`, `Usage`, `CoopLedger`, `AggregationKeys`, `PaidGate`, `IpOrgSwap` for TLC; theorems about each and the types of all |
| `MCSites`, `SitesProofs` | `SiteLifecycle`, `SiteAnalysis`, `Erasure`, `Inactivity` for TLC; theorems about the first three and the types of all |
| `MCOutbound`, `OutboundProofs` | `SocialPosting`, `Inactivity`, `AudiencePush`, `Referrals` for TLC; theorems about all but `Inactivity`, and the types of all |

`MCOutreach`, `MCRecords`, `MCSites` and `MCOutbound` put modules beside each other in one run. Those modules share no variable: they are
about different tables, except that `IdentityTier` and `OptOut` look at one table for different ends,
who a row is about and whether it may be mailed. So a behaviour of one is checked at a time: `part`, chosen initially, says
which module takes steps, and every fairness condition is restated with it.

### CampaignSend

`pc[r]`, `at[r]` and `job[r]` are the program counter, current recipient and local variables of
request `r`. A touchpoint row is in one of two places, and that is the heart of the model: `claim`
while a session has flushed and not committed it, `touchpoint` afterwards. The unique index on
(campaign, visitor, channel) is in the guard and outcomes of `ClaimRecipient`: an insert waits while
another claim is uncommitted, and fails once a row is committed. `TokenReady` includes the commit
that `_ensure_fresh_access_token` makes in the caller's session, so a claim may turn into a
committed `pending` row between insert and send. `mail = "expired"` is the Gmail account object
after a `rollback()`, whose next attribute access raises. `GmailSend` and `SendGridSend` each may
succeed, fail or lose the answer; `Crash` ends a request anywhere, and the session's uncommitted
row with it. `OptOut`, `ConfirmCandidate`, `RejectCandidate`, `BeginEdit`/`CommitEdit` (an edit is a
read and a later write), `DeleteCampaign`, `SwitchGmail`, `TestSendCampaign` and `NextHour` are the
rest of the system. `used` is the cap as seen from here; `EmailCap` has it in full.
`mailed`, `lost` and `late` are history and influence no step.

### EmailCap

`counter[h]` is the Redis value, `key[c]` the key client `c` computed, `slot[c]` the hour whose
counter stands for `c`, `sent[h]` the messages. A failing call fails before or after Redis executed
it. The key is computed again at release (`GiveBack`), from the clock of that moment. `open` and
`erased` are history: grants of a failing Redis, and slots taken off a counter by a client that did
not hold them there.

### Aggregation

`stored` are the rows of `events`, `total` is `visitors.total_pageviews`. `run[p]` is a run's local
state: `since` (NULL: full recompute), `stamp` (`now()` of its transaction), `seen` (what its SELECT
counted). Upsert and commit are one step, the row lock being held in between; the watermark is a
transaction of its own. The Redis keys do not exclude overlap (no owner, a lifetime shorter than a
run may take, ingest fails open), so in this module any trigger may start its run or stand down:
what is shown holds whoever gets the key. Aggregated fields other than `total_pageviews` are left
out: those SET by the full recompute share its fate.

### AggregationKeys

`key` and `marker` are the ticks the two Redis keys have left to live. A tick is five seconds: the
timeout of a Redis call (`redis_client.py`) and the slack the sweep adds when it waits. A Redis call
ends within the tick it began in; a waiting sweep, which polls every second, sees a free key in
every tick there is one, and then races ingest for it. `left` counts down to the job's next pass, to
the end of this pass, or to the end of its patience.

### IdentityTier

`status[v]`, `canonical[v]` and `row[v]` are `visitors.identity_status`,
`visitors.canonical_visitor_id` and the row of `identified_visitors`, of which the address, the kind
of its provider and `do_not_email` are kept. `job[r]` is a resolution in progress, whoever started
it: the sweep, the per-row button or a Leadpipe webhook, which enters at `_save_identified`. It
holds what it has read (`loaded`, `origin`, `email`, `stored`), and `at` is its place between two
reads. `_save_identified` is `Dedupe`, then `Merge`, `Insert`, or `Conflict` and `Overwrite`; its
lookup by address and its insert are separate, because no index makes addresses unique, while the
unique index on the visitor is what sends an insert to `Conflict`. `request[o]` is a page of the
owner: shown a candidate, then `Confirm` or `Reject`; or `Type` and `Manual`. `Column` is the
unit of work of SQLAlchemy: a column is written if it differs from the value that was loaded,
so that two writers of one row may each leave columns of theirs.

Two things are history. `raced` marks a job or request when somebody else writes records it has
read. `basis[v]` says what the address of `v` rests on: `sound` (the owner or the visitor gave it,
or it was copied from a sound row), `raced` (it owes its standing to a job or request that was
overtaken) or `guess`. So `GuessNeedsRace`, "what the campaign gate lets through is not a guess", says
that the tiers and the inheritance rules are right in themselves, along all paths of any length, and
that only a lost race gets a guess through; `VerifiedMeansVouched` then shows that a race does. The
gate is the one of `CampaignSend` with candidate outreach off.

Providers are four kinds (`Providers`) and an answer is a choice. Opt-outs, budgets, the 30-day
rule, deferrals and errors end a job (`GiveUp`) or pass over a signal. Not in the model: matches with a name and no
address (nobody can mail them), contact uploads (in `OptOut`), erasure (which deletes a
visitor with its row), the row lock of a retried visitor that is
flushed and not yet committed, and the window between the upsert's suppression check and its commit.

### OptOut

One person, whose address is `"this"`; every other address is `"other"`. `listed` are the scopes under
which the person is on the suppression list, `held` is `visitors.do_not_resolve`, `linked` is who gave
the address, `identity[p].doNotEmail` the flag a campaign looks at. `Suppress` is an opt-out with its
cascade, one transaction; `FlagRows` is what the unsubscribe request does after that commit, and may
fail to do. `resolver[j]` is a resolution or a webhook between its reads and its commit, `upload[u]` a file
with this person in it. The flag is what protects, and the upsert after a lost insert takes it back on purpose,
because a rejected match sets the same flag: it asks the list first. The query flushes what the fresh match
changes in the row, which locks it until the commit (`Flush`, `Locked`); a match that changes nothing locks
nothing. `FlagsKept` says that asking is enough, except for a job that read the row before the opt-out and
writes after it (`late`, `overtaken`).
`AddressOnce` is about two questions that no index answers, "is this address already here?" and "how many
contacts are there?": only writers that overlap (`looked`, `crossed`) get past them.

What the model shows and no property says: the upsert asks for the scopes `do_not_email` and `all`,
so the flag a `do_not_sell` opt-out sets is cleared by the next resolution (`flagged` leaves that scope
out); after `RemoveSuppression` a resolution makes a row mailable that the opt-out had flagged, although
`suppression.py:140` calls the removal one that leaves the flags alone; and a row first inserted for a
listed address carries no flag, the send loop's own look at the list being what keeps mail from it.

### Accounts, Usage

`account[a]` is a row of `users` as far as plan and identity go. A ping (`hook`) and a sign-in look
the account up in one step and write it in another, the unique indexes on e-mail and Clerk id standing
in the write. `gumroad` is external: it charges, cancels and revokes as the webhook's code assumes, and
every ping it ever made may arrive again at any time, in any order. A sale's period runs from the
charge (`ping.on`), which is what makes late pings harmless. `until` and `Grace` are
`current_period_end` and `ENTITLEMENT_GRACE`, and `InForce` is `get_effective_plan`.
An address has two spellings, `"own"` in lower case and `"Own"` with capitals. The webhook looks for it in any
case (`InAnyCase`) and stores it in lower case (`billing.py:538`); a sign-in goes by the spelling Clerk gives
(`spelt`, chosen at the start) and compares it as it stands (`With`; `dependencies.py:282`); the unique index
does too. A ping that finds two rows is answered with 500 and delivered again.
In `Usage` a worker (a sweep, or the Identify button) holds a `copy` of the owner's row; `Check`
writes the lazy reset from that copy, `Resolve` takes as long as it likes, `Count` is the atomic
increment. A sweep's lock query may fail, and it goes on.

### CoopLedger, PaidGate, IpOrgSwap

Three uses of Postgres as the referee. In `CoopLedger` a step is a statement: uncommitted rows are
invisible, but a unique index makes the second writer of a key wait. Deleting the site is `DeleteEvents`,
`DeleteLedger` and `CommitDelete`; `removal` holds what the statements have taken, which others go on seeing until
the commit. An EXPIRE begins (`InsertExpire`, which evaluates WHERE EXISTS) and ends (`PlaceExpire`, the unique
index) in two steps. `caught` marks lots whose EXPIRE ran while the site's were being deleted, `split` persons
credited between the two DELETEs. One delete runs at a time. In `PaidGate` the row of a signed payment is claimed by
INSERT or by UPDATE of a failed one; the facilitator may settle and not answer (`lost`), and a call may
die with its claim. In `IpOrgSwap` a run holds an advisory lock in a session that may be lost, creates a
staging table whose name admits one uncommitted creator, copies the other sources' rows, and renames;
a second creator is `blocked`, with or without a lock on the live table, and `LoadFails` is also the
choice of a deadlock's victim.

### SiteLifecycle, SiteAnalysis

A create request reads the sites, picks a tombstone or a new id, and writes in a third step, where the
primary key and the unique URL may refuse it. `removal[d]` is a delete: the site it read, the statement it is at, and
the rows it has `taken`, which stand for everybody else until `CommitDelete` and are locked. Four kinds of table stand
for the schema: `segments` for those on the hand-kept list (`sites.py:311`), `campaigns`, which refer to a segment,
`touchpoints`, which go with their campaign (ON DELETE CASCADE), and `feedback` for those the list leaves out. A writer
reads the site, and the parent its row will have, some time before it writes (`ReadSite`, `WriteRow`); no foreign key
ties a row to `sites`. A row carries the `life` of the site it was written for, and `late` when the delete of that
life had been through its table. `DeleteSegment` is the endpoint that unlinks a segment's campaigns. In `SiteAnalysis` two
guards are at work, the row's status and a set in the process; the daily counter is read before and
incremented after; a task may die, and a stale `pending` is taken over.

### Erasure

`local` is what the tenant's rows still tell of the person: the DELETE request collects the keys, then
queues them, then deletes. `purger[w]` is a sweep with its request and the attempts it captured. The
purge writes the tombstone in the transaction that deletes. `past` are resolvers between their look
at the suppression list and their write; `overtaken` (history) those the tombstone came too late for.

### Inactivity

Instants are ages that stop growing at `MaxAge`, above every threshold and the longest sweep (`Span`).
`held[p]` are the sites a sweep has paused and not committed: it mails in between. A request of the owner
loads the row (`LoadUser`), and touches and resumes later.

### SocialPosting, AudiencePush

Both are about a credential on a row that sessions load early. `SocialPosting`: `token` is the
generation of the refresh token in the row, `spendable` the one the platform takes; a send takes the row
`FOR UPDATE`, a sync does not. Drafts act on the status they loaded, siblings are rejected in a
query of its own, and the attribution row is staged before the post. `AudiencePush`: a push loads the
connection, renews the token if it is stale, finds or makes the audience, uploads, stores the link; the
session writes the columns that differ from what it loaded. The call that makes an audience is not idempotent and is
made again, up to `Attempts` times in one push, after a timeout or an error that looks passing (`meta.py:91`,
`google.py:97`): `CreateAudience` is one attempt, and an audience is named after its push and attempt. `strays`
(audiences made without an answer, or by a push that then ended badly), `overlaps` and `carried` are history.

### Conversions

`writer[w]` is a delivery of a shop's webhook or a batch of the pixel. The dedupe key of an order names
the visitor the customer's e-mail is captured with when the report arrives, else one minted from the
e-mail. `owed` (history) is set when the visitor had landed on the campaign's link before.

### Referrals

`claim[c]` and `page[p]` hold what authentication loaded. A sweep reads a list of pairs and then, for each,
`Flip`s the referee's row if it is still pending, `PayReferrer`, `CommitAward`; in between the two rows are
locked (`Holds`), and members who referred each other make two sweeps wait crosswise (`AwardFails`).

## Runs

| Run | Question | Instance | Result |
|---|---|---|---|
| `campaign_requests` | are claims exclusive, opt-outs and the confirm gate kept, and the ledger implemented, with everything happening around two requests? | 2 requests, 1 recipient, cap 1, 1 lost answer, symmetric requests: 1,346,580 states | holds |
| `campaign_race` | do concurrent requests ever mail one recipient too often, record a message that did not go out, or wait for ever? | 2 requests, 2 recipients, unedited campaign, 1 lost answer, fair: 190,720 states | holds |
| `rollback_claim` | does the rollback discard the pending row (`campaign_sender.py:514`)? | no crashes | **violated** |
| `outreach` | does a guess ever get past the campaign gate without a lost race; does an opt-out stick, and an address stay in one row; is every message above the cap accounted for; does an order count once and the campaign get its credit? | tier: 2 visitors (one device, one cookie), 2 addresses, 2 jobs, 1 request, 1 captured address; opt-outs: 1 visitor, 2 contact ids, 2 jobs, 2 uploads, 2 scopes, 4 events; cap: 2 clients, cap 1, 2 hours, outages; conversions: 2 browsers, 1 order reported twice, 1 landing, 1 edit, 1 capture, 2 days; symmetric: 1,018,830 states | holds |
| `aggregation` | do totals become right again and again; is anything counted twice without a watermark? | 2 events, 2 ingest tasks, 1 sweep, 2 instants: 167,897 states | holds |
| `identity_vouched` | is every verified address one the owner or the visitor gave (`visitors.py:1386`)? | the first part of `outreach`, alone | **violated** |
| `held_resolved` | is a visitor with a privacy signal never resolved, whoever asks (`identity_resolver.py:590`)? | opt-outs alone: 2 visitors, 1 contact id, 2 jobs, 1 upload, scopes `do_not_email` and `do_not_process` | **violated** |
| `sites` | does a re-created site start clean; does an id keep its owner; is the analysis within its budget; does an erased person stay out of the graph; are erasures settled and sites resumed? | ids: 2 owners, 2 creates, 2 ids, 1 URL, 2 deletes, without rows; rows: 1 id and owner, 1 create, 2 deletes, 3 writers; analysis: 2 replicas, 2 tasks, budget 1; erasure: 2 sweeps, 1 resolver, 2 attempts; inactivity: 1 site, 1 sweep, 1 request: 506,186 states | holds |
| `records` | is nobody on a plan they did not pay for, and everybody on the one they do; is the month counted and the overrun bounded; is the credit ledger sound, the buyer charged once, no source's rows lost, the repair not starved? | accounts: 3 rows, 2 spellings, 1 sign-in at a time, 1 ping at a time over 4 days, 2 at a time on the first; usage: a sweep and a click, limit 1, 2 months; ledger: 2 lots, 2 sweeps; keys: 2 containers, pass shorter than the marker; 3 paid calls; 3 refreshes of 2 sources: 496,162 states | holds |
| `outbound` | one comment, no token spent twice, one reminder, a hand-made pause kept, no pause without warning, one audience, each reward once? | 2 drafts, 2 reviews, 1 sync; 2 sweeps, 1 request; 2 pushes of 3 attempts, 1 disconnect; 3 members, 2 pages, 2 claims, 2 award sweeps: 2,447,089 states | holds |
| `orphan_attribution` | does a failed post leave no attribution row (`sender.py:266`)? | posting alone | **violated** |
| `erasure_signals` | does an erasure that is done leave no signals (`models/erasure_request.py:30`)? | erasure alone | **violated** |

The five disagreements with comments are written up in `PROJECT.json` under `findings`. In short: a
token refresh makes the pending touchpoint durable, and a failed send then strands its recipient; the
owner's manual identification and a webhook can between them leave an address neither vouched for; a
webhook saves its match without the gate that `resolve()` begins with, so that a visitor who sent a
privacy signal is identified all the same; the
commit that records a failed post inserts the attribution row staged before it; a mail open
after an erasure writes signals of the person again, the gate asking for another scope.

More of the kind came up and is in the models without a run of its own. An e-mail slot released after the
hour turned is taken off the new hour's counter, and a request that dies by an exception keeps its slot.
No step of the code gives a site its first aggregation watermark (theorem `NeverStamped`). A purge
followed by a full recompute lowers totals that `retention.py` says survive. The yield marker does
not outlive a pass over many sites, and the repair starves then. `/send` writes "completed" over a pause
set while it ran (`campaigns.py:671`). An upload that fails after its audience was made leaves a second
audience to the next push, and an attempt that times out after the platform made one leaves it beside the next
attempt's, in a push that succeeds (`meta.py:323` reuses the stored id "instead of creating a duplicate").
Where a property still holds up to such cases, it counts them (`erased` in `CapAccounted`, `strays` in `PushesSound`).
An order reported again after its customer was captured counts twice, though `build_dedupe_key` calls
a retry safe. Two first loads of the referrals page generate two codes, and the first one shown is dead.

Deleting a site is where code and comments are furthest apart. `campaigns.segment_id` refers to `segments.id`
without ON DELETE (`models/campaign.py:27`; no migration adds one), every campaign is made with a segment
(`agents/campaign_planner.py:329`), and the list deletes `segments` before `campaigns` (`sites.py:322`): the delete of a
site with a campaign still linked to its segment is refused by the database, rolled back and answered with 500
(`DeleteSegments` is disabled then, and `RollbackDelete` remains), although the docstring says of the order that "no
orphan/FK issue can occur" (`sites.py:281`); `test_site_delete.py` makes its campaign without a segment. The docstring's
"ALL of its data" leaves out `identity_feedback` and `erasure_requests.requesting_site_id` (`LeftOut`); the
acceptances of the co-op terms are kept on purpose. A second delete that read the site before the first committed may
add a tombstone, and delete rows, of the site created again meanwhile, although "a tombstone can never exist for a site
that still exists" (`sites.py:364`). And WHERE EXISTS in `_EXPIRE_INSERT_SQL` narrows the window of an orphan EXPIRE
which its comment says it closes (`identity_coop.py:516`): a statement that began before the delete committed sees
the lot (`caught`). A contribution committed between the two DELETEs leaves an accrued event without its credit, so that
the person's later contributions count as duplicates (`split`).

`gumroad_webhook` says that Clerk links a buyer who "later signs in with the same email" to the row it made
(`billing.py:554`). It does for addresses in lower case. One that Clerk gives with capitals is not found, the
sign-in makes a second row without the plan, and from then on a ping that has to go by the e-mail finds two rows and
fails. `PlanIsReached` is about buyers who have no such pair of rows (`SpeltTwice`).

**Bounds.** Every hazard of the send loop is between two actors and one recipient; the second
recipient is there for the waits between claims and for what one recipient's rollback does to the next
(`campaign_race`). One lost answer is enough for `lost` to differ from 0, and
the theorems have no such bound. `Cap = 1` with two clients has the counter go over the
cap, be undone, and go negative; the theorem is for any number of them. In `Aggregation` two events and two instants give an
event before, at and after the watermark and a purge that leaves something behind; `MaxTotal = 4`
lets a total be twice the truth. In `records` the debounce key lives 2 ticks and the marker 6; the rest of a pass is at most 4 and the
interval 8. TLC finds the repair starved as soon as `MaxRest` reaches `MarkerTTL - 1`: then the retry
begins with no marker in front of it. `Period = Grace = 1` and four days let a plan be charged, lapse,
and be pinged for again after its end; two first pings meet on the first day, with a sign-in between them. Two sweeps of a ledger, two containers, two runs
of one source and one of another are each the fewest that can overlap while a third actor comes in between;
a fault of each kind is enough because a property is stated with the number of faults in it, or as what
holds whatever failed. In `sites` one deletion and one re-creation make an earlier life, and late
writers straddle it: three of them make a segment, its campaign and a touchpoint, and a second delete finds rows taken
by the first. Owners and ids matter to who gets an id and not to its rows, so each has a part of the run. Writers begin
in the order of their names, which leaves out what differs by a renaming; `MaxAttempts = 2` has a request fail, be retried and be parked. In `outbound`,
`MaxAge = 3` is one above the largest threshold plus `Span`; two reviews and two pushes are the
overlap; three members are what it takes for two claims of one to name different referrers and for a
bonus to reach its cap. Pages, claims and members differ in name only, and `NamedInOrder` leaves out
what differs by a renaming.
In `outreach` two jobs of the tier let a returning visitor inherit from the root while the root's own row is
written; `Revive` and `Reset` are unbounded, and the theorem has no bounds. The four opt-out events are a
request or signal, a removal, and two jobs or uploads that overlap.
`CHECK_DEADLOCK FALSE` is set where the system may come to rest: a campaign that is over, a clock
at its last hour, a site no more events come in for, requests that have all been answered.

**Fairness.**
- `CampaignSend`: weak fairness of each request's steps, because a coroutine that can run is
  scheduled and every external call has a timeout; strong fairness of `ClaimRecipient`, because the
  insert is enabled only now and then (other requests' claims come and go) and Postgres queues
  waiters of one index entry. No fairness of the environment.
- `Aggregation`: weak fairness of a run's steps. The sweep job recurs, and its SELECT and upsert are
  strongly fair: it fails now and then, not in every pass. That a sweep gets to run at all is not
  taken from the keys here; it is what `RepairNotStarved` in `AggregationKeys` is about (`SweepNotStarved`
  in the run).
- `AggregationKeys`: weak fairness of time, of ingest tasks and of the sweep job. None of the race
  for a free key: ingest may win it for ever, which is what the marker is for. Faults are bounded,
  so the property is about what happens after they have ceased.
- `Accounts`: a ping in hand is applied and a sign-in in hand finishes (weak fairness: these are
  requests that run). Gumroad sends a ping until it is answered, so each sale is looked up
  again and again, by one delivery or another (strong fairness, the hooks being busy now and then), and the buyer
  goes on signing in. No fairness of charges, cancellations or days.
- `Inactivity`: time goes on (strongly, since a sweep at work holds it back in the model), sweeps that
  run go on, requests in flight finish. Whether the owner makes a request is not assumed: what
  resumes a site is the touch of a request that was made, and `Resumed` is about owners who make them.
- `Erasure`: claims age and sweeps take steps, which an hourly job does. Resolvers and mail opens have none.
- The other modules state safety only.

## Proofs

Every safety property of a passing run, invariant or action property, is a theorem here. The theorems hold for
any number of requests, recipients, clients, visitors, events and containers, and any
cap or lifetime; what they assume is the `ASSUME` of the module they are about. Those assumptions say
that kinds of process are disjoint (a delivery is not a page view, a click is not a sweep), that an absent value
is none of the present ones, and that sets whose members are counted are finite: in the code they are
different functions, `NULL`, and rows of a table.

- **CampaignSend.** `OneSender` is not inductive. The strengthening `IInv` says why it holds: a
  request that is sending to `v` holds the uncommitted row, or there is a committed `pending` row
  beside which nobody can insert (`SendersHoldRow`), an uncommitted row belongs to a request that is
  sending (`ClaimsAreHeld`), and a deleted campaign has no rows (`DeletedHasNoRows`). On top of the
  lock stands the balance of messages (`Balanced`): `mailed = lost` or `lost + 1`, which of the two is
  decided by the step the sender is at, and without a row nothing is on the books. From it follow
  `OneMailPerOutcome` (`NoDoubleSend`) and `SentMeansMailed` (`SentIsTrue`). `OptOutsHold` and
  `OnlyConfirmed` need that whoever is late is suppressed and never un-suppressed by the modelled
  operations, and that none of them turns a confirmed identity back into a guess (review acts on candidates only).
  `Refinement`: under `lost -> unknown` and the committed `sent` rows `-> recorded` each step of the
  loop is a step of `OutreachLedger` or leaves it alone.
- **EmailCap.** `CapInv` is the inductive form: what a counter stands for (messages sent, clients
  counted) is at most its value plus the failures and foreign releases on record
  (`CounterCovers`). The proof is by cardinalities of the set of counted clients, of which each step
  adds or removes at most one (lemmas `Size`, `NoneJoins`, `OneJoins`, `OneLeaves`).
  `CapWithinOneHour`: without outages and with one clock hour the cap is exact; so the hour's turn
  is the only way past it with a healthy Redis.
- **OptOut.** `OptOutInv` ties the flag to the list: a flagged row holds the address and has its entry beside it,
  unless one was removed, so a job that clears the flag either is late or has asked in vain (`FlagRespected`).
  It ties what an upload or a job found to what is there now, until it is overtaken (`HolderFound`). Writing it
  down showed that being late begins with the read of the row, not with the question: a job may have
  read another address there, which another job replaces, and so never ask about the one that opted out.
- **Aggregation.** `NeverInflated` needs that no run is incremental while the watermark is NULL, that
  only an incremental run advances the watermark, and that what a run has counted was ingested
  (`IInv`). From the same invariant `NeverStamped`: no step of the code gives a site its
  first stamp, for any schedule.
- **AggregationKeys.** `NoMarkerLeft`: without faults, whenever no job is between deferring and
  releasing the site the marker is unset, though markers have no owner and jobs delete each other's.
- **IdentityTier.** `GuessNeedsRace` is not inductive: it says nothing of jobs half done.
  `TierInv` adds what a job holds (`JobHolds`) and, as long as it is not `raced`, what still holds of the
  records it read (`JobUnraced`): its visitor is not identified, the origin has the address that was
  copied, so the lookup by address finds that row and the match is merged and never saved. This is
  why an employee picked at a company, whose row is "identified" too, is not inherited into a mailable
  row: nothing else prevents it, the origin check looking at the status alone. The proof has one
  lemma per action, over two about steps that only read (`JobMove`, `RequestMove`) and
  two about steps that write one visitor's records and mark the others as raced (`JobWritesKeep`,
  `RequestWritesKeep`). `NoGuessWithoutRace` follows.

- **Conversions.** `CountedOnceAndCredited` counts rows; `ConversionsInv` says which rows there can be. A row for an
  order has the key of a visitor its customer was captured as, or of the minted one, and of the kind the
  goal has, or of either kind once that was edited (`OrdersKeyed`); the unique index makes the key tell
  rows apart (`OneForAKey`). The rows of an order then map injectively into at most `1 + Len(seenAs)` keys of each kind
  (`OrderCounted`, over `WhosCount`, `ImageCount` and `InjectiveCount`). A writer may hold a goal that was replaced
  meanwhile, which is why `GoalsLoaded` is about ids: a goal with the present id differs from the present one only by
  an edit. `ClicksStored` follows a landing's credit from the click to the insert, across a deletion of the campaign.
- **Accounts.** `PaidForOnly` speaks of today; `PaidInv` says why it holds on any day: every ping tells of a
  charge (`Backed`), a delivery in hand holds such a ping, the period of a live or cancelled
  subscription was bought, and a paid plan ends on a day that is paid for (`Covered`). The key lemma is
  `AppliedCovered`: whatever ping is applied to whatever row, in whatever order, the row stays covered.
- **SiteLifecycle.** `OwnerInv`: whoever holds an id - a live site, a tombstone, a create that has picked it, a delete
  that has read it - agrees with every other holder on owner and URL (`InHand`), and an id without a live site was
  deleted before. `ReuseInv`: what stands in a table that a delete has been through was taken by it or written late
  (`TakenOrLate`); a touchpoint has its campaign (`HasCampaign`), so that a delete which has taken campaigns has
  their touchpoints too (`CascadeTaken`), whichever of the two statements took them; and what is taken is of
  the site being deleted, so that it is gone when the life ends.
- **Erasure.** `SealInv`: once the tombstone is listed, resolvers past their check are on record as
  overtaken; a sweep that is about to mark a request done, and a request that is done, have the graph `Sealed`,
  whatever other sweeps hold the same request. It rests on the purge's writing the tombstone in the
  transaction that deletes.
- **Usage.** The count and the limit are not inductive alone, a worker carrying a copy of the row and a check of it
  to its next step. `Anchored` says how old a copy can be and that nobody identifies before the row is anchored in this
  month; `LimitKept` counts the identifications made together with those the limit has let through already.
- **CoopLedger.** A lot and an accrued event are committed together (`LotsBacked`), and the unique keys make a transaction
  at the insert the only one for its person or lot (`CreditExclusive`, `ExpireExclusive`), also against rows that a
  delete has taken and not committed. `CreditsTaken` and `ExpiresTaken` say what such a delete leaves: a lot goes with
  its event, an accrued event that stays keeps its lot or is of a person in `split`, and an EXPIRE that stays has its lot
  or is `caught`.
- **PaidGate.** The row is a lock: while it is "pending" one call holds it, or one died with it (`ClaimHeld`). What was
  charged is then the holder's own settlement or one on record as lost (`ChargeHeld`).
- **IpOrgSwap.** Only the creator of the staging table fills and renames it (`OneBuilder`), and what it copied over is
  what the live table still holds (`CopyCurrent`), though the advisory lock may have been lost before that.
- **SiteAnalysis.** `BudgetKept` adds to the analyses started the tasks between the check and the increment: each of
  these has passed the check, so the budget is exceeded by no more than the others at that point.
- **Inactivity.** `MailedOnce` bounds mails by faults. A sweep without the advisory lock has cost a fault and may mail
  once more, so the invariant adds such sweeps (`MayRemind`, `MayNudge`) to the mails already out, beside the one mail
  that is free (`FreeReminder`); the steps move one sweep into or out of these sets, by cardinality. For the pause,
  `PauseSeesWarning` puts the sweep's own `now` between the warning and the owner's activity. `HandKept`: a site
  paused by hand, and not while a pause was pending, has no stamp of an automatic pause, and no sweep
  holds it among those to be paused.
- **SocialPosting.** Until two requests overlap or an answer is lost, requests come one after the other and what is being
  sent is the only draft still to be sent (`OneByOne`, `OneComment`). Until a sync spends a token or a send does
  not store the next, the row holds the token the platform takes, but between a renewal and its commit (`TokenCurrent`).
- **AudiencePush.** Audiences made and the one that each push may still store are counted together, as strays,
  overlaps or the segment's one (`AudiencesKept`); an attempt without an answer adds one to both sides or to neither. `TokenGone` lists where a push can be that works after a disconnect.
- **Referrals.** `AwardsExact` was inductive only with what a sweep holds: a row not activated, which nobody else
  holds (`AwardsApart`): so a commit adds one award to what its two members have, and to the cardinalities that
  `AwardsExact` multiplies. `PagesMeet`
  relates a code that was shown to the pages that were open with the one that shows it.
- **The compositions.** `TypeOK` of `MCSites` and `MCOutbound` and `MCTypeOK` of `MCRecords` are theorems of the very
  specifications TLC runs, from one lemma of type correctness per module.

The inductive invariants of these proofs are themselves theorems (`Invariance`, `Accounting`,
`TierInvariant`, `PlansCovered`, `OptOutInvariance`, `ConversionsInvariance`, `LadderInvariance`,
`TurnsAndRenewals`, `AudienceInvariance`, `ReferralsInvariance`, `AnalysisInvariance`, `MonthInvariance`,
`CreditAndExpiryExclusive`, `PaidClaimExclusive`, `BuilderExclusive`), each first checked by TLC as an invariant of its instance; the runs
keep the properties they were made for.

Model-checked only: liveness (`RequestReturns`, `Freshness`, `FullOnlyConverges`, `SweepNotStarved`,
`PlanIsReached`, `SitesResumed`, `ErasureSettles`), because temporal reasoning under fairness and ENABLED is
beyond the prover; and the five violated properties, which are traces.

## Not modelled, and why

Within the modelled parts: the text of messages, tracking links and pixels (data); the segment query
that picks recipients (its result is the constant `Recipients`; a campaign's segment does not change
under a run, the loop having loaded it); LinkedIn endpoints of the campaigns router (a sidecar that is
not in the repository); sessions, scroll depth, ICP score, revived visitors and company resolution
of the aggregation; Lemon Squeezy and Stripe events (absolute state, applied in arrival order without any
guard, so that nothing more can be said than that the last arrival wins); promotion of graph rows and spending
of credits (nothing in the code writes a SPEND); conversion events with ids of the pixel's own; who
is in an audience; sub-second timing. An SMTP-level bounce counts as delivered.

Whole parts: digests, hot alerts and connection nudges mail first and stamp afterwards like `Inactivity`,
whose model shows what that pattern gives; CRM push and CSV export are calls of other systems with the limiter
of `EmailCap` but no release; the OAuth state is put and taken in one atomic Redis pipeline; agent visits,
onboarding, blog and the explanations written by a language model are one request and one write each, their
substance being data; seeding and demo scripts, schemas and configuration have no behaviour; pixel,
extension and web app are client code, and what they do to the API (retries, clock skew, double clicks)
is in the models as redelivery and concurrency. Together with the provider clients and parsers these
make up most of the code by lines.

## Plan

Built, in this order: the send loop and its ledger, the cap, aggregation and its keys, identity, then
accounts and usage, sites, erasure and the co-op ledger, inactivity and posting, and last paid calls, conversions,
ad audiences, the IP table, referrals, and opt-outs with uploads. What would come next:

1. **The life of a mailable address** - an abstract specification that `contact` of `CampaignSend`, `row` of
   `IdentityTier` and `identity` of `OptOut` each should implement.
2. **Status machine** - the completion write of `Finish` against edits, as a property of `CampaignSend`.
3. **Digests** - windows against stamps: what a failed week leaves out and a repeated one mails twice.
4. **Proofs** - the safety that liveness rests on, as theorems: that a request or sweep which waits has somebody to
   wait for (`RequestReturns`, `SitesResumed`), and that the marker and the debounce key are given back
   under faults too (`SweepNotStarved`).
