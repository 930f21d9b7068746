----------------------------- MODULE Inactivity -----------------------------
(***************************************************************************)
(* The inactivity ladder (services/reengagement.py) of one owner: remind,     *)
(* auto-pause the sites, resume them on the owner's next request, and the     *)
(* one-time install nudge; with the owner's PATCH of a site                   *)
(* (routers/sites.py), which pauses and resumes by hand.                      *)
(*                                                                          *)
(* Times are kept as ages that stop growing at MaxAge.  A sweep takes `now'     *)
(* once and may go on for Span; every statement it runs, and every call of   *)
(* the mail provider, is a step.  The pause is written, and its rows locked, *)
(* before the notice is mailed and committed after it.                       *)
(***************************************************************************)
EXTENDS Integers, FiniteSets

CONSTANTS
    Sites,          \* the owner's sites
    Sweeps,         \* sweep runs, over all replicas
    Requests,       \* the owner's requests in flight
    TouchAfter,     \* _TOUCH_INTERVAL
    RemindAfter,    \* settings.reengagement_remind_after_days
    PauseAfter,     \* settings.reengagement_pause_after_days
    WarnGap,        \* settings.reengagement_pause_warning_min_days
    NudgeAfter,     \* settings.reengagement_install_nudge_after_days
    Span,           \* the longest a sweep runs
    MaxAge,         \* bound: ages are 0..MaxAge
    MaxFaults       \* bound: crashes, failed statements and failed mails

NoSweep == "no sweep"

ASSUME InactivityAssumption ==
    /\ IsFiniteSet(Sites) /\ Sites # {}
    /\ IsFiniteSet(Sweeps) /\ NoSweep \notin Sweeps
    /\ {TouchAfter, RemindAfter, PauseAfter, WarnGap, NudgeAfter, Span, MaxAge} \subseteq Nat
    /\ MaxAge > PauseAfter + Span /\ MaxAge > WarnGap + Span
    /\ MaxAge > RemindAfter + Span /\ MaxAge > NudgeAfter + Span
    /\ MaxFaults \in Nat

Ages == 0..MaxAge
NoAge == -1

VARIABLES
    idle,       \* age of users.last_active_at
    warn,       \* age of last_reengagement_sent_at when that is later than
                \* last_active_at (a reminder is outstanding), else NoAge
    owner,      \* nudged: install_nudge_sent_at is set; optedOut: suppressed;
                \* siteAge: age of the oldest site; fired: some event was recorded
    site,       \* tracking_enabled, auto_paused_at is set, pixel_verified
    stage,      \* where each sweep is
    age,        \* age of its `now'
    late,       \* the owner was active after its `now'
    held,       \* sites it has paused and not committed
    lock,       \* the sweep that holds the advisory lock, if any
    req,        \* each request: what it does next, what it loaded
    \* history
    mailAge,    \* age of the first reminder mailed since the last activity
    mails,      \* reminders mailed since then by sweeps that began since then
    nudges,     \* install nudges mailed
    byHand,     \* sites whose last explicit setting by the owner is "paused"
    crossed,    \* sites with an explicit setting made while a pause was pending,
                \* or computed from a row that has since changed
    faults

sweepVars == <<stage, age, late, held, lock>>
mailVars == <<mailAge, mails, nudges>>
handVars == <<byHand, crossed>>
inactivityVars == <<idle, warn, owner, site, sweepVars, req, mailVars, handVars, faults>>

Stages == {"off", "remind", "reminding", "stamp", "pause", "pausing", "notice", "commit",
           "nudge", "nudging", "nudgeStamp"}
SiteRow == [tracking : BOOLEAN, stamp : BOOLEAN, verified : BOOLEAN]

InactivityTypeOK ==
    /\ idle \in Ages
    /\ warn \in Ages \union {NoAge}
    /\ owner \in [nudged : BOOLEAN, optedOut : BOOLEAN, siteAge : Ages, fired : BOOLEAN]
    /\ site \in [Sites -> SiteRow]
    /\ stage \in [Sweeps -> Stages]
    /\ age \in [Sweeps -> 0..Span]
    /\ late \in [Sweeps -> BOOLEAN]
    /\ held \in [Sweeps -> SUBSET Sites]
    /\ lock \in Sweeps \union {NoSweep}
    /\ req \in [Requests -> [at : {"out", "touch", "in", "edit"},
                             on : Sites, loaded : SiteRow]]
    /\ mailAge \in Ages \union {NoAge}
    /\ mails \in Nat /\ nudges \in Nat
    /\ byHand \subseteq Sites /\ crossed \subseteq Sites
    /\ faults \in 0..MaxFaults

NewSite == [tracking |-> TRUE, stamp |-> FALSE, verified |-> FALSE]

InactivityInit ==
    /\ idle = 0 /\ warn = NoAge
    /\ owner = [nudged |-> FALSE, optedOut |-> FALSE, siteAge |-> 0, fired |-> FALSE]
    /\ site = [s \in Sites |-> NewSite]
    /\ stage = [p \in Sweeps |-> "off"]
    /\ age = [p \in Sweeps |-> 0]
    /\ late = [p \in Sweeps |-> FALSE]
    /\ held = [p \in Sweeps |-> {}]
    /\ lock = NoSweep
    /\ req = [r \in Requests |-> [at |-> "out", on |-> CHOOSE s \in Sites : TRUE,
                                  loaded |-> NewSite]]
    /\ mailAge = NoAge /\ mails = 0 /\ nudges = 0
    /\ byHand = {} /\ crossed = {}
    /\ faults = 0

-----------------------------------------------------------------------------
(* Helpers *)

Older(a) == IF a = NoAge \/ a = MaxAge THEN a ELSE a + 1
Fault == faults < MaxFaults /\ faults' = faults + 1
SweepGoto(p, next) == stage' = [stage EXCEPT ![p] = next]
Running(p) == stage[p] # "off"
HeldByOthers(p) == UNION {held[q] : q \in Sweeps \ {p}}
Tracking == {s \in Sites : site[s].tracking}
LiveSites == {s \in Tracking : site[s].verified}

\* How old a time was when sweep p took its `now'.
AtStart(p, a) == a - age[p]

-----------------------------------------------------------------------------
(* The world: time, the pixel, an unsubscribe.  A request is over before the *)
(* next tick, once it has passed the activity check. *)

Tick ==
    /\ \A p \in Sweeps : Running(p) => age[p] < Span
    /\ \A r \in Requests : req[r].at \notin {"in", "edit"}
    /\ idle' = Older(idle)
    /\ warn' = Older(warn)
    /\ mailAge' = Older(mailAge)
    /\ owner' = [owner EXCEPT !.siteAge = Older(@)]
    /\ age' = [p \in Sweeps |-> IF Running(p) THEN age[p] + 1 ELSE 0]
    /\ UNCHANGED <<site, stage, late, held, lock, req, mails, nudges, handVars, faults>>

\* An accepted event: the site is tracking and its pixel works.
PixelFires(s) ==
    /\ site[s].tracking
    /\ s \notin UNION {held[p] : p \in Sweeps}
    /\ \E verified \in {site[s].verified, TRUE} :
          site' = [site EXCEPT ![s].verified = verified]
    /\ owner' = [owner EXCEPT !.fired = TRUE]
    /\ UNCHANGED <<idle, warn, sweepVars, req, mailVars, handVars, faults>>

Unsubscribe ==
    /\ owner' = [owner EXCEPT !.optedOut = TRUE]
    /\ UNCHANGED <<idle, warn, site, sweepVars, req, mailVars, handVars, faults>>

-----------------------------------------------------------------------------
(* record_user_activity, on every authenticated request; update_site. *)

\* Bug: the comparison is the wrong way round.
LoadUserBug(r) ==
    /\ req[r].at = "out"
    /\ req' = [req EXCEPT ![r].at = IF idle < TouchAfter THEN "touch" ELSE "in"]
    /\ UNCHANGED <<idle, warn, owner, site, sweepVars, mailVars, handVars, faults>>

\* The row is loaded and compared: a recent activity costs nothing.
LoadUser(r) ==
    /\ req[r].at = "out"
    /\ req' = [req EXCEPT ![r].at = IF idle < TouchAfter THEN "in" ELSE "touch"]
    /\ UNCHANGED <<idle, warn, owner, site, sweepVars, mailVars, handVars, faults>>

\* One transaction.  A pause not yet committed is not seen by its WHERE.
Touch(r) ==
    /\ req[r].at = "touch"
    /\ \A s \in Sites : site[s].stamp => \A p \in Sweeps : s \notin held[p]
    /\ idle' = 0
    /\ warn' = NoAge
    /\ site' = [s \in Sites |-> IF site[s].stamp
                                THEN [site[s] EXCEPT !.tracking = TRUE, !.stamp = FALSE]
                                ELSE site[s]]
    /\ late' = [p \in Sweeps |-> Running(p)]
    /\ mailAge' = NoAge /\ mails' = 0
    /\ req' = [req EXCEPT ![r].at = "in"]
    /\ UNCHANGED <<owner, stage, age, held, lock, nudges, handVars, faults>>

\* A failed touch is swallowed; the request goes on.
TouchFails(r) ==
    /\ req[r].at = "touch"
    /\ Fault
    /\ req' = [req EXCEPT ![r].at = "in"]
    /\ UNCHANGED <<idle, warn, owner, site, sweepVars, mailVars, handVars>>

BeginEdit(r, s) ==
    /\ req[r].at = "in"
    /\ req' = [req EXCEPT ![r] = [at |-> "edit", on |-> s, loaded |-> site[s]]]
    /\ UNCHANGED <<idle, warn, owner, site, sweepVars, mailVars, handVars, faults>>

\* Bug: an explicit setting leaves the stamp of the automatic pause.
WrittenBug(loaded, now, on) ==
    [now EXCEPT !.tracking = IF on # loaded.tracking THEN on ELSE @]

\* The session writes only the columns that differ from what it loaded.
Written(loaded, now, on) ==
    [now EXCEPT !.tracking = IF on # loaded.tracking THEN on ELSE @,
                !.stamp = IF loaded.stamp THEN FALSE ELSE @]

CommitEdit(r, on) ==
    LET s == req[r].on IN
    /\ req[r].at = "edit"
    /\ (on # req[r].loaded.tracking \/ req[r].loaded.stamp) => \A p \in Sweeps : s \notin held[p]
    /\ site' = [site EXCEPT ![s] = Written(req[r].loaded, site[s], on)]
    /\ byHand' = IF on THEN byHand \ {s} ELSE byHand \union {s}
    /\ crossed' = IF \/ \E p \in Sweeps : s \in held[p]
                     \/ req[r].loaded.tracking # site[s].tracking
                     \/ req[r].loaded.stamp # site[s].stamp
                  THEN crossed \union {s} ELSE crossed \ {s}
    /\ req' = [req EXCEPT ![r].at = "out"]
    /\ UNCHANGED <<idle, warn, owner, sweepVars, mailVars, faults>>

Leave(r) ==
    /\ req[r].at \in {"in", "edit"}
    /\ req' = [req EXCEPT ![r].at = "out"]
    /\ UNCHANGED <<idle, warn, owner, site, sweepVars, mailVars, handVars, faults>>

-----------------------------------------------------------------------------
(* run_reengagement_sweep *)

Begin(p) ==
    /\ stage[p] = "off"
    /\ SweepGoto(p, "remind")
    /\ age' = [age EXCEPT ![p] = 0]
    /\ late' = [late EXCEPT ![p] = FALSE]
    /\ UNCHANGED <<idle, warn, owner, site, held, req, mailVars, handVars>>

StartReengagement(p) == Begin(p) /\ lock = NoSweep /\ lock' = p /\ UNCHANGED faults

\* _try_acquire_lock returns None: the sweep runs without the lock.
StartUnlocked(p) == Begin(p) /\ Fault /\ UNCHANGED lock

\* Bug: does not look whether a reminder is outstanding.
RemindDueBug(p) == AtStart(p, idle) > RemindAfter /\ LiveSites # {}

RemindDue(p) ==
    /\ AtStart(p, idle) > RemindAfter
    /\ warn = NoAge
    /\ LiveSites # {}

SelectRemind(p) ==
    /\ stage[p] = "remind"
    /\ SweepGoto(p, IF RemindDue(p) THEN "reminding" ELSE "pause")
    /\ UNCHANGED <<idle, warn, owner, site, age, late, held, lock, req, mailVars, handVars, faults>>

\* The provider takes the reminder; it may say so (next stage "stamp") or not.
RemindMailed(p, next) ==
    /\ SweepGoto(p, next)
    /\ IF late[p] THEN UNCHANGED <<mailAge, mails>>
       ELSE /\ mailAge' = IF mailAge = NoAge THEN 0 ELSE mailAge
            /\ mails' = mails + 1
    /\ UNCHANGED <<idle, warn, owner, site, age, late, held, lock, req, nudges, handVars>>

RemindSkipped(p) ==
    /\ SweepGoto(p, "pause")
    /\ UNCHANGED <<idle, warn, owner, site, age, late, held, lock, req, mailVars, handVars>>

\* No live site left or nothing new to tell; suppressed; refused; lost; sent.
Remind(p) ==
    /\ stage[p] = "reminding"
    /\ \/ RemindSkipped(p) /\ UNCHANGED faults
       \/ LiveSites # {} /\ ~owner.optedOut /\ RemindMailed(p, "stamp") /\ UNCHANGED faults
       \/ LiveSites # {} /\ ~owner.optedOut /\ RemindMailed(p, "pause") /\ Fault

\* last_reengagement_sent_at = now, committed.
StampReminder(p) ==
    /\ stage[p] = "stamp"
    /\ warn' = IF late[p] THEN NoAge ELSE age[p]
    /\ SweepGoto(p, "pause")
    /\ UNCHANGED <<idle, owner, site, age, late, held, lock, req, mailVars, handVars, faults>>

\* Bug: a reminder need not have had time to land.
PauseDueBug(p) == AtStart(p, idle) > PauseAfter /\ warn # NoAge /\ Tracking # {}

PauseDue(p) ==
    /\ AtStart(p, idle) > PauseAfter
    /\ warn # NoAge
    /\ AtStart(p, warn) >= WarnGap
    /\ Tracking # {}

SelectPause(p) ==
    /\ stage[p] = "pause"
    /\ SweepGoto(p, IF PauseDue(p) THEN "pausing" ELSE "nudge")
    /\ UNCHANGED <<idle, warn, owner, site, age, late, held, lock, req, mailVars, handVars, faults>>

\* The guarded UPDATE re-checks the inactivity; it waits for locked rows.
WritePause(p) ==
    /\ stage[p] = "pausing"
    /\ Tracking \intersect HeldByOthers(p) = {}
    /\ IF AtStart(p, idle) > PauseAfter /\ Tracking # {}
       THEN SweepGoto(p, "notice") /\ held' = [held EXCEPT ![p] = Tracking]
       ELSE SweepGoto(p, "nudge") /\ UNCHANGED held
    /\ UNCHANGED <<idle, warn, owner, site, age, late, lock, req, mailVars, handVars, faults>>

RollBackPause(p) ==
    /\ SweepGoto(p, "nudge")
    /\ held' = [held EXCEPT ![p] = {}]
    /\ UNCHANGED <<idle, warn, owner, site, age, late, lock, req, mailVars, handVars>>

\* Mailed; suppressed; refused.
SendNotice(p) ==
    /\ stage[p] = "notice"
    /\ \/ /\ ~owner.optedOut
          /\ SweepGoto(p, "commit")
          /\ UNCHANGED <<idle, warn, owner, site, age, late, held, lock, req, mailVars, handVars,
                         faults>>
       \/ owner.optedOut /\ RollBackPause(p) /\ UNCHANGED faults
       \/ RollBackPause(p) /\ Fault

CommitPause(p) ==
    /\ stage[p] = "commit"
    /\ site' = [s \in Sites |-> IF s \in held[p]
                                THEN [site[s] EXCEPT !.tracking = FALSE, !.stamp = TRUE]
                                ELSE site[s]]
    /\ held' = [held EXCEPT ![p] = {}]
    /\ SweepGoto(p, "nudge")
    /\ UNCHANGED <<idle, warn, owner, age, late, lock, req, mailVars, handVars, faults>>

NudgeDue(p) ==
    /\ ~owner.nudged
    /\ AtStart(p, owner.siteAge) > NudgeAfter
    /\ \A s \in Sites : ~site[s].verified

EndSweep(p) ==
    /\ SweepGoto(p, "off")
    /\ lock' = IF lock = p THEN NoSweep ELSE lock
    /\ age' = [age EXCEPT ![p] = 0] /\ late' = [late EXCEPT ![p] = FALSE]

SelectNudge(p) ==
    /\ stage[p] = "nudge"
    /\ IF NudgeDue(p) THEN SweepGoto(p, "nudging") /\ UNCHANGED <<age, late, lock>> ELSE EndSweep(p)
    /\ UNCHANGED <<idle, warn, owner, site, held, req, mailVars, handVars, faults>>

\* An event was recorded, or suppressed, or refused; lost after it went; sent.
Nudge(p) ==
    /\ stage[p] = "nudging"
    /\ \/ /\ owner.fired \/ owner.optedOut
          /\ EndSweep(p) /\ UNCHANGED <<nudges, faults>>
       \/ /\ ~owner.fired /\ ~owner.optedOut /\ Fault
          /\ EndSweep(p) /\ nudges' \in {nudges, nudges + 1}
       \/ /\ ~owner.fired /\ ~owner.optedOut
          /\ SweepGoto(p, "nudgeStamp") /\ nudges' = nudges + 1
          /\ UNCHANGED <<age, late, lock, faults>>
    /\ UNCHANGED <<idle, warn, owner, site, held, req, mailAge, mails, handVars>>

StampNudge(p) ==
    /\ stage[p] = "nudgeStamp"
    /\ owner' = [owner EXCEPT !.nudged = TRUE]
    /\ EndSweep(p)
    /\ UNCHANGED <<idle, warn, site, held, req, mailVars, handVars, faults>>

\* The process dies, or the database does: what was not committed is undone.
SweepDies(p) ==
    /\ Running(p)
    /\ Fault
    /\ EndSweep(p)
    /\ held' = [held EXCEPT ![p] = {}]
    /\ UNCHANGED <<idle, warn, owner, site, req, mailVars, handVars>>

SweepStep(p) ==
    \/ SelectRemind(p) \/ Remind(p) \/ StampReminder(p)
    \/ SelectPause(p) \/ WritePause(p) \/ SendNotice(p) \/ CommitPause(p)
    \/ SelectNudge(p) \/ Nudge(p) \/ StampNudge(p)

InactivityNext ==
    \/ Tick \/ Unsubscribe
    \/ \E s \in Sites : PixelFires(s)
    \/ \E r \in Requests :
          \/ LoadUser(r) \/ Touch(r) \/ TouchFails(r) \/ Leave(r)
          \/ \E s \in Sites : BeginEdit(r, s)
          \/ \E on \in BOOLEAN : CommitEdit(r, on)
    \/ \E p \in Sweeps : StartReengagement(p) \/ StartUnlocked(p) \/ SweepStep(p) \/ SweepDies(p)

InactivitySpec == InactivityInit /\ [][InactivityNext]_inactivityVars

-----------------------------------------------------------------------------
(* Properties *)

\* A pause is written only for an owner whose reminder was really mailed since
\* their last activity, WarnGap before, less the time the mailing sweep took
\* (_pause_due: no pause without a warning that had time to land).
PauseWarned ==
    [][\A p \in Sweeps : held'[p] # {} /\ held[p] = {}
          => mailAge # NoAge /\ mailAge + Span >= WarnGap + age[p]]_inactivityVars

\* One reminder for an absence and one install nudge for an account, but for
\* one more for each fault (the stamp is committed after the mail went).
MailedOnce == mails <= 1 + faults /\ nudges <= 1 + faults

\* A site the owner paused by hand stays paused, unless the setting crossed a
\* pause or resume in flight (the stamp is cleared by any explicit setting).
PausedByHandKept == \A s \in byHand \ crossed : ~site[s].tracking

\* An owner who keeps making requests does not stay auto-paused (silent resume).
Resumed == \A s \in Sites : site[s].stamp ~> ~site[s].stamp

InactivityFairness ==
    /\ SF_inactivityVars(Tick)
    /\ \A p \in Sweeps : WF_inactivityVars(SweepStep(p))
    /\ \A r \in Requests : /\ WF_inactivityVars(LoadUser(r))
                           /\ WF_inactivityVars(Touch(r))
                           /\ WF_inactivityVars(Leave(r))
=============================================================================
