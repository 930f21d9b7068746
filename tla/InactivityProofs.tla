-------------------------- MODULE InactivityProofs --------------------------
(***************************************************************************)
(* The inactivity ladder for any number of sites, owners, sweeps and requests. *)
(*                                                                          *)
(* MailedOnce bounds the mails that went out by the faults there were.  A      *)
(* sweep without the advisory lock has cost one, and may mail once more; so    *)
(* the invariant charges each such sweep, at the step it is at, for the mail   *)
(* it may still send.  The sweep with the lock costs nothing: what it mailed   *)
(* and has not stamped yet is the only mail of the episode.  PauseWarned needs *)
(* that a stamp stands for a mail, and that a pause looks at the stamp again.  *)
(***************************************************************************)
EXTENDS Inactivity, FiniteSetTheorems, TLAPS

-----------------------------------------------------------------------------
(* Counting *)

\* A part of a finite set is finite and no larger.
LEMMA PartCount ==
    ASSUME NEW S, IsFiniteSet(S), NEW T, T \subseteq S
    PROVE  /\ IsFiniteSet(T) /\ Cardinality(T) \in Nat /\ Cardinality(S) \in Nat
           /\ Cardinality(T) <= Cardinality(S)
<1>1. T \in SUBSET S
    OBVIOUS
<1>2. IsFiniteSet(T) /\ Cardinality(T) <= Cardinality(S)
    BY <1>1, FS_Subset
<1> QED BY <1>2, FS_CardinalityType

\* With one more element a finite set has at most one more.
LEMMA OneMoreCount ==
    ASSUME NEW S, IsFiniteSet(S), NEW x, NEW T, T \subseteq S \union {x}
    PROVE  /\ Cardinality(T) \in Nat /\ Cardinality(S) \in Nat
           /\ Cardinality(T) <= Cardinality(S) + 1
<1>1. /\ IsFiniteSet(S \union {x}) /\ Cardinality(S) \in Nat
      /\ Cardinality(S \union {x}) <= Cardinality(S) + 1
    <2>1. Cardinality(S) \in Nat
        BY FS_CardinalityType
    <2>2. /\ IsFiniteSet(S \union {x})
          /\ Cardinality(S \union {x}) = IF x \in S THEN Cardinality(S) ELSE Cardinality(S) + 1
        BY FS_AddElement
    <2> QED BY <2>1, <2>2
<1>2. Cardinality(T) \in Nat /\ Cardinality(T) <= Cardinality(S \union {x}) /\ Cardinality(S \union {x}) \in Nat
    BY <1>1, PartCount
<1> QED BY <1>1, <1>2

\* Without one of its elements it has at least one less.
LEMMA OneLessCount ==
    ASSUME NEW S, IsFiniteSet(S), NEW x \in S, NEW T, T \subseteq S \ {x}
    PROVE  /\ Cardinality(T) \in Nat /\ Cardinality(S) \in Nat
           /\ Cardinality(T) + 1 <= Cardinality(S)
<1>1. /\ IsFiniteSet(S \ {x}) /\ Cardinality(S) \in Nat
      /\ Cardinality(S \ {x}) = Cardinality(S) - 1
    BY FS_RemoveElement, FS_CardinalityType
<1>2. Cardinality(T) \in Nat /\ Cardinality(T) <= Cardinality(S \ {x}) /\ Cardinality(S \ {x}) \in Nat
    BY <1>1, PartCount
<1> QED BY <1>1, <1>2

-----------------------------------------------------------------------------
(* The ladder *)

\* Sweeps that run without the advisory lock: each has cost a fault.
Lockless == {p \in Sweeps : stage[p] # "off" /\ p # lock}

\* Of these, the ones that may still mail a reminder, or stamp an older one over
\* a newer.
MayRemind == {p \in Lockless : stage[p] \in {"remind", "reminding"} \/ (stage[p] = "stamp" /\ late[p])}

\* And the ones that may still mail a nudge.
MayNudge == {p \in Lockless : stage[p] # "nudgeStamp"}

\* The reminder of a sweep with the lock, which costs no fault: mailed, and not one
\* that the sweep is about to mail or to take back.
FreeReminder ==
    IF /\ lock \in Sweeps
       /\ \/ stage[lock] = "reminding"
          \/ late[lock] /\ stage[lock] \in {"remind", "stamp"}
    THEN 0
    ELSE IF warn # NoAge \/ (lock \in Sweeps /\ stage[lock] = "stamp") THEN 1 ELSE 0

FreeNudge ==
    IF lock \in Sweeps /\ stage[lock] = "nudging" THEN 0
    ELSE IF owner.nudged \/ (lock \in Sweeps /\ stage[lock] = "nudgeStamp") THEN 1 ELSE 0

MailsPaid ==
    /\ lock \in Sweeps => stage[lock] # "off"
    /\ Cardinality(Lockless) <= faults
    /\ mails + Cardinality(MayRemind) <= faults + FreeReminder
    /\ nudges + Cardinality(MayNudge) <= faults + FreeNudge

\* A reminder that is outstanding was mailed, at most Span before or after its stamp.
WarningMailed ==
    /\ warn # NoAge => mailAge # NoAge /\ mailAge + Span >= warn
    /\ \A p \in Sweeps : stage[p] = "stamp" /\ ~late[p] => mailAge # NoAge

\* A sweep about to pause has seen such a warning; the owner's activity since then,
\* if any, is later than its `now'.
PauseSeesWarning ==
    /\ \A p \in Sweeps : late[p] => idle <= age[p] /\ stage[p] # "off"
    /\ \A p \in Sweeps : stage[p] = "pausing" /\ ~late[p] =>
          mailAge # NoAge /\ mailAge + Span >= WarnGap + age[p]

\* A site paused by hand has no stamp of an automatic pause and gets none.
HandKept ==
    \A s \in byHand \ crossed :
       ~site[s].tracking /\ ~site[s].stamp /\ \A p \in Sweeps : s \notin held[p]

InactivityInv == InactivityTypeOK /\ MailsPaid /\ WarningMailed /\ PauseSeesWarning /\ HandKept
-----------------------------------------------------------------------------
(* Helpers *)

\* An age grows by one, or stays at MaxAge; what has not happened has no age.
LEMMA OlderAges ==
    /\ \A a \in Ages : /\ Older(a) \in Ages /\ Older(a) # NoAge
                       /\ a <= Older(a) /\ Older(a) <= a + 1
                       /\ Older(a) = a + 1 \/ Older(a) = MaxAge
    /\ Older(NoAge) = NoAge
    BY InactivityAssumption DEF Ages, NoAge, Older

\* Resuming the stamped sites keeps the rows typed.
LEMMA ResumedTyped ==
    ASSUME site \in [Sites -> SiteRow],
           site' = [s \in Sites |-> IF site[s].stamp
                                   THEN [site[s] EXCEPT !.tracking = TRUE, !.stamp = FALSE]
                                   ELSE site[s]]
    PROVE  site' \in [Sites -> SiteRow]
<1>1. \A row \in SiteRow : [row EXCEPT !.tracking = TRUE, !.stamp = FALSE] \in SiteRow
    BY DEF SiteRow
<1> QED BY <1>1

\* A sweep that ends keeps the types.
LEMMA EndSweepTyped ==
    ASSUME InactivityTypeOK, NEW p \in Sweeps, EndSweep(p)
    PROVE  /\ stage' \in [Sweeps -> Stages] /\ age' \in [Sweeps -> 0..Span]
           /\ late' \in [Sweeps -> BOOLEAN] /\ lock' \in Sweeps \union {NoSweep}
    BY InactivityAssumption DEF InactivityTypeOK, EndSweep, SweepGoto, Stages

\* Every step keeps the types.
LEMMA InactivityTypeStep == InactivityInv /\ [InactivityNext]_inactivityVars => InactivityTypeOK'
<1> SUFFICES ASSUME InactivityInv, [InactivityNext]_inactivityVars
             PROVE  InactivityTypeOK'
    OBVIOUS
<1> USE InactivityAssumption DEF InactivityInv, InactivityTypeOK, Ages, NoAge, Stages, SiteRow, sweepVars, mailVars, handVars
<1>1. CASE Tick
    <2>1. /\ idle' \in Ages /\ warn' \in Ages \union {NoAge} /\ mailAge' \in Ages \union {NoAge}
          /\ Older(owner.siteAge) \in Ages
        BY <1>1, OlderAges DEF Tick
    <2>2. owner' = [owner EXCEPT !.siteAge = Older(owner.siteAge)]
        BY <1>1 DEF Tick
    <2>3. owner' \in [nudged : BOOLEAN, optedOut : BOOLEAN, siteAge : Ages, fired : BOOLEAN]
        BY <2>1, <2>2
    <2>4. age' \in [Sweeps -> 0..Span]
        BY <1>1 DEF Tick, Running
    <2> QED BY <1>1, <2>1, <2>3, <2>4 DEF Tick
<1>2. CASE Unsubscribe
    BY <1>2 DEF Unsubscribe
<1>3. ASSUME NEW s \in Sites, PixelFires(s)
      PROVE  InactivityTypeOK'
    <2>1. PICK verified \in BOOLEAN : site' = [site EXCEPT ![s].verified = verified]
        BY <1>3 DEF PixelFires
    <2>2. site' \in [Sites -> SiteRow]
        BY <2>1
    <2>3. owner' \in [nudged : BOOLEAN, optedOut : BOOLEAN, siteAge : Ages, fired : BOOLEAN]
        BY <1>3 DEF PixelFires
    <2> QED BY <1>3, <2>2, <2>3 DEF PixelFires
<1>4. ASSUME NEW r \in Requests, LoadUser(r)
      PROVE  InactivityTypeOK'
    BY <1>4 DEF LoadUser
<1>5. ASSUME NEW r \in Requests, Touch(r)
      PROVE  InactivityTypeOK'
    <2>1. idle' \in Ages /\ warn' \in Ages \union {NoAge} /\ mailAge' \in Ages \union {NoAge} /\ mails' \in Nat
        <3>1. idle' = 0 /\ warn' = NoAge /\ mailAge' = NoAge /\ mails' = 0
            BY <1>5 DEF Touch
        <3> QED BY <3>1
    <2>2. site' \in [Sites -> SiteRow]
        BY <1>5, ResumedTyped DEF Touch
    <2>3. late' \in [Sweeps -> BOOLEAN]
        BY <1>5 DEF Touch, Running
    <2>4. req' \in [Requests -> [at : {"out", "touch", "in", "edit"}, on : Sites, loaded : SiteRow]]
        BY <1>5 DEF Touch
    <2> QED BY <1>5, <2>1, <2>2, <2>3, <2>4 DEF Touch
<1>6. ASSUME NEW r \in Requests, TouchFails(r)
      PROVE  InactivityTypeOK'
    BY <1>6 DEF TouchFails, Fault
<1>7. ASSUME NEW r \in Requests, Leave(r)
      PROVE  InactivityTypeOK'
    BY <1>7 DEF Leave
<1>8. ASSUME NEW r \in Requests, NEW s \in Sites, BeginEdit(r, s)
      PROVE  InactivityTypeOK'
    BY <1>8 DEF BeginEdit
<1>9. ASSUME NEW r \in Requests, NEW on \in BOOLEAN, CommitEdit(r, on)
      PROVE  InactivityTypeOK'
    <2>1. \A loaded, now \in SiteRow : Written(loaded, now, on) \in SiteRow
        BY DEF Written
    <2>2. site' \in [Sites -> SiteRow]
        BY <1>9, <2>1 DEF CommitEdit
    <2>3. req' \in [Requests -> [at : {"out", "touch", "in", "edit"}, on : Sites, loaded : SiteRow]]
        BY <1>9 DEF CommitEdit
    <2>4. byHand' \subseteq Sites /\ crossed' \subseteq Sites
        BY <1>9 DEF CommitEdit
    <2> QED BY <1>9, <2>2, <2>3, <2>4 DEF CommitEdit
<1>10. ASSUME NEW p \in Sweeps, StartReengagement(p)
      PROVE  InactivityTypeOK'
    BY <1>10 DEF StartReengagement, Begin, SweepGoto
<1>11. ASSUME NEW p \in Sweeps, StartUnlocked(p)
      PROVE  InactivityTypeOK'
    BY <1>11 DEF StartUnlocked, Begin, SweepGoto, Fault
<1>12. ASSUME NEW p \in Sweeps, SelectRemind(p)
      PROVE  InactivityTypeOK'
    BY <1>12 DEF SelectRemind, SweepGoto
<1>13. ASSUME NEW p \in Sweeps, Remind(p)
      PROVE  InactivityTypeOK'
    <2>1. /\ UNCHANGED idle /\ UNCHANGED warn /\ UNCHANGED owner /\ UNCHANGED site /\ UNCHANGED age
          /\ UNCHANGED late /\ UNCHANGED held /\ UNCHANGED lock /\ UNCHANGED req /\ UNCHANGED nudges
          /\ UNCHANGED byHand /\ UNCHANGED crossed
        BY <1>13 DEF Remind, RemindSkipped, RemindMailed
    <2>2. PICK next \in {"pause", "stamp"} : stage' = [stage EXCEPT ![p] = next]
        BY <1>13 DEF Remind, RemindSkipped, RemindMailed, SweepGoto
    <2>3. mailAge' \in Ages \union {NoAge} /\ mails' \in Nat
        BY <1>13 DEF Remind, RemindSkipped, RemindMailed
    <2>4. faults' \in 0..MaxFaults
        BY <1>13 DEF Remind, Fault
    <2>5. stage' \in [Sweeps -> Stages]
        BY <2>2
    <2> QED BY <2>1, <2>3, <2>4, <2>5
<1>14. ASSUME NEW p \in Sweeps, StampReminder(p)
      PROVE  InactivityTypeOK'
    BY <1>14 DEF StampReminder, SweepGoto
<1>15. ASSUME NEW p \in Sweeps, SelectPause(p)
      PROVE  InactivityTypeOK'
    BY <1>15 DEF SelectPause, SweepGoto, PauseDue, AtStart
<1>16. ASSUME NEW p \in Sweeps, WritePause(p)
      PROVE  InactivityTypeOK'
    BY <1>16 DEF WritePause, SweepGoto, Tracking, AtStart
<1>17. ASSUME NEW p \in Sweeps, SendNotice(p)
      PROVE  InactivityTypeOK'
    <2>1. /\ UNCHANGED idle /\ UNCHANGED warn /\ UNCHANGED owner /\ UNCHANGED site /\ UNCHANGED age
          /\ UNCHANGED late /\ UNCHANGED lock /\ UNCHANGED req /\ UNCHANGED mailAge /\ UNCHANGED mails
          /\ UNCHANGED nudges /\ UNCHANGED byHand /\ UNCHANGED crossed
        BY <1>17 DEF SendNotice, RollBackPause
    <2>2. PICK next \in {"commit", "nudge"} : stage' = [stage EXCEPT ![p] = next]
        BY <1>17 DEF SendNotice, RollBackPause, SweepGoto
    <2>3. held' \in [Sweeps -> SUBSET Sites]
        BY <1>17 DEF SendNotice, RollBackPause
    <2>4. faults' \in 0..MaxFaults
        BY <1>17 DEF SendNotice, Fault
    <2>5. stage' \in [Sweeps -> Stages]
        BY <2>2
    <2> QED BY <2>1, <2>3, <2>4, <2>5
<1>18. ASSUME NEW p \in Sweeps, CommitPause(p)
      PROVE  InactivityTypeOK'
    BY <1>18 DEF CommitPause, SweepGoto
<1>19. ASSUME NEW p \in Sweeps, SelectNudge(p)
      PROVE  InactivityTypeOK'
    <2>1. CASE EndSweep(p)
        BY <1>19, <2>1, EndSweepTyped DEF SelectNudge
    <2>2. CASE SweepGoto(p, "nudging") /\ UNCHANGED <<age, late, lock>>
        BY <1>19, <2>2 DEF SelectNudge, SweepGoto
    <2> QED BY <1>19, <2>1, <2>2 DEF SelectNudge
<1>20. ASSUME NEW p \in Sweeps, Nudge(p)
      PROVE  InactivityTypeOK'
    <2>1. /\ UNCHANGED idle /\ UNCHANGED warn /\ UNCHANGED owner /\ UNCHANGED site /\ UNCHANGED held
          /\ UNCHANGED req /\ UNCHANGED mailAge /\ UNCHANGED mails /\ UNCHANGED byHand /\ UNCHANGED crossed
        BY <1>20 DEF Nudge
    <2>2. nudges' \in Nat
        BY <1>20 DEF Nudge
    <2>3. faults' \in 0..MaxFaults
        BY <1>20 DEF Nudge, Fault
    <2>4. CASE EndSweep(p)
        BY <2>1, <2>2, <2>3, <2>4, EndSweepTyped
    <2>5. CASE SweepGoto(p, "nudgeStamp") /\ UNCHANGED <<age, late, lock>>
        BY <2>1, <2>2, <2>3, <2>5 DEF SweepGoto
    <2> QED BY <1>20, <2>4, <2>5 DEF Nudge
<1>21. ASSUME NEW p \in Sweeps, StampNudge(p)
      PROVE  InactivityTypeOK'
    <2>1. owner' \in [nudged : BOOLEAN, optedOut : BOOLEAN, siteAge : Ages, fired : BOOLEAN]
        BY <1>21 DEF StampNudge
    <2> QED BY <1>21, <2>1, EndSweepTyped DEF StampNudge
<1>22. ASSUME NEW p \in Sweeps, SweepDies(p)
      PROVE  InactivityTypeOK'
    BY <1>22 DEF SweepDies, EndSweep, SweepGoto, Fault
<1>23. CASE UNCHANGED inactivityVars
    BY <1>23 DEF inactivityVars
<1> QED
    BY <1>1, <1>2, <1>3, <1>4, <1>5, <1>6, <1>7, <1>8, <1>9, <1>10, <1>11, <1>12, <1>13, <1>14, <1>15, <1>16, <1>17, <1>18, <1>19, <1>20, <1>21, <1>22, <1>23 DEF InactivityNext, SweepStep

\* Ages grow together, and a sweep stamps what it has mailed.
LEMMA WarningStep == InactivityInv /\ [InactivityNext]_inactivityVars => WarningMailed'
<1> SUFFICES ASSUME InactivityInv, [InactivityNext]_inactivityVars
             PROVE  WarningMailed'
    OBVIOUS
<1> USE InactivityAssumption DEF InactivityInv, InactivityTypeOK, WarningMailed, Ages, NoAge, Stages, sweepVars, mailVars, handVars
<1>1. CASE Tick
    <2>1. warn' = Older(warn) /\ mailAge' = Older(mailAge) /\ UNCHANGED stage /\ UNCHANGED late
        BY <1>1 DEF Tick
    <2>2. CASE warn # NoAge
        <3>1. warn \in Ages /\ mailAge \in Ages /\ mailAge + Span >= warn /\ mailAge # NoAge
            BY <2>2
        <3>2. /\ warn' <= warn + 1 /\ warn' <= MaxAge /\ warn' \in Ages /\ mailAge' \in Ages
              /\ mailAge' # NoAge /\ (mailAge' = mailAge + 1 \/ mailAge' = MaxAge)
            BY <2>1, <2>2, <3>1, OlderAges
        <3>3. mailAge' + Span >= warn'
            BY <3>1, <3>2
        <3> QED BY <2>1, <3>2, <3>3
    <2>3. CASE warn = NoAge
        BY <2>1, <2>3, OlderAges
    <2> QED BY <2>2, <2>3
<1>2. CASE Unsubscribe
    BY <1>2 DEF Unsubscribe
<1>3. ASSUME NEW s \in Sites, PixelFires(s)
      PROVE  WarningMailed'
    BY <1>3 DEF PixelFires
<1>4. ASSUME NEW r \in Requests, LoadUser(r)
      PROVE  WarningMailed'
    BY <1>4 DEF LoadUser
<1>5. ASSUME NEW r \in Requests, Touch(r)
      PROVE  WarningMailed'
    BY <1>5 DEF Touch, Running
<1>6. ASSUME NEW r \in Requests, TouchFails(r)
      PROVE  WarningMailed'
    BY <1>6 DEF TouchFails, Fault
<1>7. ASSUME NEW r \in Requests, Leave(r)
      PROVE  WarningMailed'
    BY <1>7 DEF Leave
<1>8. ASSUME NEW r \in Requests, NEW s \in Sites, BeginEdit(r, s)
      PROVE  WarningMailed'
    BY <1>8 DEF BeginEdit
<1>9. ASSUME NEW r \in Requests, NEW on \in BOOLEAN, CommitEdit(r, on)
      PROVE  WarningMailed'
    BY <1>9 DEF CommitEdit, Written
<1>10. ASSUME NEW p \in Sweeps, StartReengagement(p)
      PROVE  WarningMailed'
    BY <1>10 DEF StartReengagement, Begin, SweepGoto
<1>11. ASSUME NEW p \in Sweeps, StartUnlocked(p)
      PROVE  WarningMailed'
    BY <1>11 DEF StartUnlocked, Begin, SweepGoto, Fault
<1>12. ASSUME NEW p \in Sweeps, SelectRemind(p)
      PROVE  WarningMailed'
    BY <1>12 DEF SelectRemind, SweepGoto
<1>13. ASSUME NEW p \in Sweeps, Remind(p)
      PROVE  WarningMailed'
    BY <1>13 DEF Remind, RemindSkipped, RemindMailed, SweepGoto, Fault
<1>14. ASSUME NEW p \in Sweeps, StampReminder(p)
      PROVE  WarningMailed'
    BY <1>14 DEF StampReminder, SweepGoto
<1>15. ASSUME NEW p \in Sweeps, SelectPause(p)
      PROVE  WarningMailed'
    BY <1>15 DEF SelectPause, SweepGoto, PauseDue, AtStart
<1>16. ASSUME NEW p \in Sweeps, WritePause(p)
      PROVE  WarningMailed'
    BY <1>16 DEF WritePause, SweepGoto, Tracking, AtStart
<1>17. ASSUME NEW p \in Sweeps, SendNotice(p)
      PROVE  WarningMailed'
    BY <1>17 DEF SendNotice, RollBackPause, SweepGoto, Fault
<1>18. ASSUME NEW p \in Sweeps, CommitPause(p)
      PROVE  WarningMailed'
    BY <1>18 DEF CommitPause, SweepGoto
<1>19. ASSUME NEW p \in Sweeps, SelectNudge(p)
      PROVE  WarningMailed'
    BY <1>19 DEF SelectNudge, EndSweep, SweepGoto
<1>20. ASSUME NEW p \in Sweeps, Nudge(p)
      PROVE  WarningMailed'
    BY <1>20 DEF Nudge, EndSweep, SweepGoto, Fault
<1>21. ASSUME NEW p \in Sweeps, StampNudge(p)
      PROVE  WarningMailed'
    BY <1>21 DEF StampNudge, EndSweep, SweepGoto
<1>22. ASSUME NEW p \in Sweeps, SweepDies(p)
      PROVE  WarningMailed'
    BY <1>22 DEF SweepDies, EndSweep, SweepGoto, Fault
<1>23. CASE UNCHANGED inactivityVars
    BY <1>23 DEF inactivityVars
<1> QED
    BY <1>1, <1>2, <1>3, <1>4, <1>5, <1>6, <1>7, <1>8, <1>9, <1>10, <1>11, <1>12, <1>13, <1>14, <1>15, <1>16, <1>17, <1>18, <1>19, <1>20, <1>21, <1>22, <1>23 DEF InactivityNext, SweepStep

\* A sweep selects a pause from what it reads, and an activity makes it late.
LEMMA PauseStep == InactivityInv /\ [InactivityNext]_inactivityVars => PauseSeesWarning'
<1> SUFFICES ASSUME InactivityInv, [InactivityNext]_inactivityVars
             PROVE  PauseSeesWarning'
    OBVIOUS
<1> USE InactivityAssumption DEF InactivityInv, InactivityTypeOK, WarningMailed, PauseSeesWarning, Ages, NoAge, Stages, sweepVars, mailVars, handVars
<1>1. CASE Tick
    <2>1. idle' = Older(idle) /\ mailAge' = Older(mailAge) /\ UNCHANGED stage /\ UNCHANGED late
        BY <1>1 DEF Tick
    <2>2. \A p \in Sweeps : stage[p] # "off" => age'[p] = age[p] + 1 /\ age[p] < Span
        BY <1>1 DEF Tick, Running
    <2>3. \A p \in Sweeps : late'[p] => idle' <= age'[p] /\ stage'[p] # "off"
        <3>1. idle' <= idle + 1 /\ idle' \in Ages
            BY <2>1, OlderAges
        <3> QED BY <2>1, <2>2, <3>1
    <2>4. \A p \in Sweeps : stage'[p] = "pausing" /\ ~late'[p] =>
             mailAge' # NoAge /\ mailAge' + Span >= WarnGap + age'[p]
        BY <2>1, <2>2, OlderAges
    <2> QED BY <2>3, <2>4
<1>2. CASE Unsubscribe
    BY <1>2 DEF Unsubscribe
<1>3. ASSUME NEW s \in Sites, PixelFires(s)
      PROVE  PauseSeesWarning'
    BY <1>3 DEF PixelFires
<1>4. ASSUME NEW r \in Requests, LoadUser(r)
      PROVE  PauseSeesWarning'
    BY <1>4 DEF LoadUser
<1>5. ASSUME NEW r \in Requests, Touch(r)
      PROVE  PauseSeesWarning'
    <2>1. idle' = 0 /\ UNCHANGED stage /\ UNCHANGED age
        BY <1>5 DEF Touch
    <2>2. \A p \in Sweeps : late'[p] <=> stage[p] # "off"
        BY <1>5 DEF Touch, Running
    <2> QED BY <2>1, <2>2
<1>6. ASSUME NEW r \in Requests, TouchFails(r)
      PROVE  PauseSeesWarning'
    BY <1>6 DEF TouchFails, Fault
<1>7. ASSUME NEW r \in Requests, Leave(r)
      PROVE  PauseSeesWarning'
    BY <1>7 DEF Leave
<1>8. ASSUME NEW r \in Requests, NEW s \in Sites, BeginEdit(r, s)
      PROVE  PauseSeesWarning'
    BY <1>8 DEF BeginEdit
<1>9. ASSUME NEW r \in Requests, NEW on \in BOOLEAN, CommitEdit(r, on)
      PROVE  PauseSeesWarning'
    BY <1>9 DEF CommitEdit, Written
<1>10. ASSUME NEW p \in Sweeps, StartReengagement(p)
      PROVE  PauseSeesWarning'
    BY <1>10 DEF StartReengagement, Begin, SweepGoto
<1>11. ASSUME NEW p \in Sweeps, StartUnlocked(p)
      PROVE  PauseSeesWarning'
    BY <1>11 DEF StartUnlocked, Begin, SweepGoto, Fault
<1>12. ASSUME NEW p \in Sweeps, SelectRemind(p)
      PROVE  PauseSeesWarning'
    BY <1>12 DEF SelectRemind, SweepGoto
<1>13. ASSUME NEW p \in Sweeps, Remind(p)
      PROVE  PauseSeesWarning'
    BY <1>13 DEF Remind, RemindSkipped, RemindMailed, SweepGoto, Fault
<1>14. ASSUME NEW p \in Sweeps, StampReminder(p)
      PROVE  PauseSeesWarning'
    BY <1>14 DEF StampReminder, SweepGoto
<1>15. ASSUME NEW p \in Sweeps, SelectPause(p)
      PROVE  PauseSeesWarning'
    BY <1>15 DEF SelectPause, SweepGoto, PauseDue, AtStart
<1>16. ASSUME NEW p \in Sweeps, WritePause(p)
      PROVE  PauseSeesWarning'
    BY <1>16 DEF WritePause, SweepGoto, Tracking, AtStart
<1>17. ASSUME NEW p \in Sweeps, SendNotice(p)
      PROVE  PauseSeesWarning'
    BY <1>17 DEF SendNotice, RollBackPause, SweepGoto, Fault
<1>18. ASSUME NEW p \in Sweeps, CommitPause(p)
      PROVE  PauseSeesWarning'
    BY <1>18 DEF CommitPause, SweepGoto
<1>19. ASSUME NEW p \in Sweeps, SelectNudge(p)
      PROVE  PauseSeesWarning'
    BY <1>19 DEF SelectNudge, EndSweep, SweepGoto
<1>20. ASSUME NEW p \in Sweeps, Nudge(p)
      PROVE  PauseSeesWarning'
    BY <1>20 DEF Nudge, EndSweep, SweepGoto, Fault
<1>21. ASSUME NEW p \in Sweeps, StampNudge(p)
      PROVE  PauseSeesWarning'
    BY <1>21 DEF StampNudge, EndSweep, SweepGoto
<1>22. ASSUME NEW p \in Sweeps, SweepDies(p)
      PROVE  PauseSeesWarning'
    BY <1>22 DEF SweepDies, EndSweep, SweepGoto, Fault
<1>23. CASE UNCHANGED inactivityVars
    BY <1>23 DEF inactivityVars
<1> QED
    BY <1>1, <1>2, <1>3, <1>4, <1>5, <1>6, <1>7, <1>8, <1>9, <1>10, <1>11, <1>12, <1>13, <1>14, <1>15, <1>16, <1>17, <1>18, <1>19, <1>20, <1>21, <1>22, <1>23 DEF InactivityNext, SweepStep

\* Only an unstamped site, or none that is held, is set by hand without crossing.
LEMMA HandStep == InactivityInv /\ [InactivityNext]_inactivityVars => HandKept'
<1> SUFFICES ASSUME InactivityInv, [InactivityNext]_inactivityVars
             PROVE  HandKept'
    OBVIOUS
<1> USE InactivityAssumption DEF InactivityInv, InactivityTypeOK, HandKept, SiteRow, Stages, sweepVars, mailVars, handVars
<1>1. CASE Tick
    BY <1>1 DEF Tick, Older
<1>2. CASE Unsubscribe
    BY <1>2 DEF Unsubscribe
<1>3. ASSUME NEW s \in Sites, PixelFires(s)
      PROVE  HandKept'
    BY <1>3 DEF PixelFires
<1>4. ASSUME NEW r \in Requests, LoadUser(r)
      PROVE  HandKept'
    BY <1>4 DEF LoadUser
<1>5. ASSUME NEW r \in Requests, Touch(r)
      PROVE  HandKept'
    BY <1>5 DEF Touch, Running
<1>6. ASSUME NEW r \in Requests, TouchFails(r)
      PROVE  HandKept'
    BY <1>6 DEF TouchFails, Fault
<1>7. ASSUME NEW r \in Requests, Leave(r)
      PROVE  HandKept'
    BY <1>7 DEF Leave
<1>8. ASSUME NEW r \in Requests, NEW s \in Sites, BeginEdit(r, s)
      PROVE  HandKept'
    BY <1>8 DEF BeginEdit
<1>9. ASSUME NEW r \in Requests, NEW on \in BOOLEAN, CommitEdit(r, on)
      PROVE  HandKept'
    BY <1>9 DEF CommitEdit, Written
<1>10. ASSUME NEW p \in Sweeps, StartReengagement(p)
      PROVE  HandKept'
    BY <1>10 DEF StartReengagement, Begin, SweepGoto
<1>11. ASSUME NEW p \in Sweeps, StartUnlocked(p)
      PROVE  HandKept'
    BY <1>11 DEF StartUnlocked, Begin, SweepGoto, Fault
<1>12. ASSUME NEW p \in Sweeps, SelectRemind(p)
      PROVE  HandKept'
    BY <1>12 DEF SelectRemind, SweepGoto
<1>13. ASSUME NEW p \in Sweeps, Remind(p)
      PROVE  HandKept'
    BY <1>13 DEF Remind, RemindSkipped, RemindMailed, SweepGoto, Fault
<1>14. ASSUME NEW p \in Sweeps, StampReminder(p)
      PROVE  HandKept'
    BY <1>14 DEF StampReminder, SweepGoto
<1>15. ASSUME NEW p \in Sweeps, SelectPause(p)
      PROVE  HandKept'
    BY <1>15 DEF SelectPause, SweepGoto, PauseDue, AtStart
<1>16. ASSUME NEW p \in Sweeps, WritePause(p)
      PROVE  HandKept'
    BY <1>16 DEF WritePause, SweepGoto, Tracking, AtStart
<1>17. ASSUME NEW p \in Sweeps, SendNotice(p)
      PROVE  HandKept'
    BY <1>17 DEF SendNotice, RollBackPause, SweepGoto, Fault
<1>18. ASSUME NEW p \in Sweeps, CommitPause(p)
      PROVE  HandKept'
    BY <1>18 DEF CommitPause, SweepGoto
<1>19. ASSUME NEW p \in Sweeps, SelectNudge(p)
      PROVE  HandKept'
    BY <1>19 DEF SelectNudge, EndSweep, SweepGoto
<1>20. ASSUME NEW p \in Sweeps, Nudge(p)
      PROVE  HandKept'
    BY <1>20 DEF Nudge, EndSweep, SweepGoto, Fault
<1>21. ASSUME NEW p \in Sweeps, StampNudge(p)
      PROVE  HandKept'
    BY <1>21 DEF StampNudge, EndSweep, SweepGoto
<1>22. ASSUME NEW p \in Sweeps, SweepDies(p)
      PROVE  HandKept'
    BY <1>22 DEF SweepDies, EndSweep, SweepGoto, Fault
<1>23. CASE UNCHANGED inactivityVars
    BY <1>23 DEF inactivityVars
<1> QED
    BY <1>1, <1>2, <1>3, <1>4, <1>5, <1>6, <1>7, <1>8, <1>9, <1>10, <1>11, <1>12, <1>13, <1>14, <1>15, <1>16, <1>17, <1>18, <1>19, <1>20, <1>21, <1>22, <1>23 DEF InactivityNext, SweepStep

-----------------------------------------------------------------------------
(* What the mails cost *)

\* The counted sets are sets of sweeps.
LEMMA Counted ==
    ASSUME NEW S \in SUBSET Sweeps
    PROVE  IsFiniteSet(S) /\ Cardinality(S) \in Nat
    BY InactivityAssumption, FS_Subset, FS_CardinalityType

\* A part is no larger.
LEMMA CountFewer ==
    ASSUME NEW S \in SUBSET Sweeps, NEW T, T \subseteq S
    PROVE  Cardinality(T) <= Cardinality(S)
    BY Counted, FS_Subset

\* At most one joins.
LEMMA CountOneMore ==
    ASSUME NEW S \in SUBSET Sweeps, NEW p \in Sweeps, NEW T, T \subseteq S \union {p}
    PROVE  Cardinality(T) <= Cardinality(S) + 1
<1>1. S \union {p} \in SUBSET Sweeps
    OBVIOUS
<1>2. Cardinality(T) <= Cardinality(S \union {p})
    BY <1>1, CountFewer
<1>3. Cardinality(S \union {p}) <= Cardinality(S) + 1
    BY Counted, FS_AddElement
<1>4. T \in SUBSET Sweeps
    OBVIOUS
<1> QED BY <1>1, <1>2, <1>3, <1>4, Counted

\* At least one leaves.
LEMMA CountOneLess ==
    ASSUME NEW S \in SUBSET Sweeps, NEW p \in S, NEW T, T \subseteq S \ {p}
    PROVE  Cardinality(T) + 1 <= Cardinality(S)
<1>1. S \ {p} \in SUBSET Sweeps /\ T \in SUBSET Sweeps
    OBVIOUS
<1>2. Cardinality(T) <= Cardinality(S \ {p})
    BY <1>1, CountFewer
<1>3. Cardinality(S \ {p}) = Cardinality(S) - 1
    BY Counted, FS_RemoveElement
<1> QED BY <1>1, <1>2, <1>3, Counted

\* The counts are numbers, and the sets nest.
LEMMA PaidNumbers ==
    ASSUME InactivityInv
    PROVE  /\ Lockless \in SUBSET Sweeps /\ MayRemind \in SUBSET Sweeps /\ MayNudge \in SUBSET Sweeps
           /\ Cardinality(Lockless) \in Nat /\ Cardinality(MayRemind) \in Nat
           /\ Cardinality(MayNudge) \in Nat
           /\ FreeReminder \in {0, 1} /\ FreeNudge \in {0, 1}
           /\ mails \in Nat /\ nudges \in Nat /\ faults \in Nat
<1>1. /\ Lockless \in SUBSET Sweeps /\ MayRemind \in SUBSET Sweeps /\ MayNudge \in SUBSET Sweeps
    BY DEF Lockless, MayRemind, MayNudge
<1> QED BY <1>1, Counted DEF FreeReminder, FreeNudge, InactivityInv, InactivityTypeOK

\* A step of the owner, of time or of the pixel.
LEMMA MailsFrame ==
    ASSUME InactivityInv,
           UNCHANGED stage, UNCHANGED late, UNCHANGED lock, UNCHANGED mails, UNCHANGED nudges,
           owner'.nudged = owner.nudged, warn' = NoAge <=> warn = NoAge,
           faults' \in {faults, faults + 1}
    PROVE  MailsPaid'
<1>1. /\ Lockless' = Lockless /\ MayRemind' = MayRemind /\ MayNudge' = MayNudge
      /\ FreeReminder' = FreeReminder /\ FreeNudge' = FreeNudge
    BY DEF Lockless, MayRemind, MayNudge, FreeReminder, FreeNudge
<1> QED BY <1>1, PaidNumbers DEF InactivityInv, MailsPaid

\* A sweep goes on to its next stage.
LEMMA StageSets ==
    ASSUME InactivityInv, NEW p \in Sweeps, NEW next \in Stages \ {"off"}, stage[p] # "off",
           SweepGoto(p, next), UNCHANGED late, UNCHANGED lock
    PROVE  /\ stage'[p] = next /\ \A q \in Sweeps \ {p} : stage'[q] = stage[q]
           /\ lock \in Sweeps => stage'[lock] # "off"
           /\ Lockless' = Lockless
           /\ MayRemind' \subseteq MayRemind \union {p} /\ MayNudge' \subseteq MayNudge \union {p}
           /\ p \in MayRemind' <=>
                 /\ p # lock
                 /\ next \in {"remind", "reminding"} \/ (next = "stamp" /\ late[p])
           /\ p \in MayNudge' <=> p # lock /\ next # "nudgeStamp"
<1>1. stage'[p] = next /\ \A q \in Sweeps \ {p} : stage'[q] = stage[q]
    BY DEF InactivityInv, InactivityTypeOK, SweepGoto
<1>2. Lockless' = Lockless
    BY <1>1 DEF Lockless
<1>3. lock \in Sweeps => stage'[lock] # "off"
    BY <1>1 DEF InactivityInv, MailsPaid
<1>4. p \in Lockless <=> p # lock
    BY DEF Lockless
<1>5. \A q \in Sweeps \ {p} :
         (q \in MayRemind' <=> q \in MayRemind) /\ (q \in MayNudge' <=> q \in MayNudge)
    BY <1>1, <1>2 DEF MayRemind, MayNudge
<1>6. /\ p \in MayRemind' <=> p # lock /\ (next \in {"remind", "reminding"} \/ (next = "stamp" /\ late[p]))
      /\ p \in MayNudge' <=> p # lock /\ next # "nudgeStamp"
    BY <1>1, <1>2, <1>4 DEF MayRemind, MayNudge
<1>7. MayRemind' \subseteq Sweeps /\ MayNudge' \subseteq Sweeps
    BY <1>2 DEF MayRemind, MayNudge, Lockless
<1>8. MayRemind' \subseteq MayRemind \union {p} /\ MayNudge' \subseteq MayNudge \union {p}
    BY <1>5, <1>7
<1> QED BY <1>1, <1>2, <1>3, <1>6, <1>8

\* A stage that neither mails nor stamps.
LEMMA MailsIdle ==
    ASSUME InactivityInv, NEW p \in Sweeps,
           NEW next \in {"pause", "pausing", "notice", "commit", "nudge"},
           stage[p] \in {"remind", "reminding", "pause", "pausing", "notice", "commit"},
           SweepGoto(p, next), UNCHANGED late, UNCHANGED lock, UNCHANGED warn,
           owner'.nudged = owner.nudged, UNCHANGED mails, UNCHANGED nudges,
           faults' \in {faults, faults + 1}
    PROVE  MailsPaid'
<1> next \in Stages \ {"off"}
    BY DEF Stages
<1>1. /\ stage'[p] = next /\ \A q \in Sweeps \ {p} : stage'[q] = stage[q]
      /\ lock \in Sweeps => stage'[lock] # "off"
      /\ Lockless' = Lockless /\ MayRemind' \subseteq MayRemind /\ MayNudge' \subseteq MayNudge
    BY StageSets DEF MayNudge, Lockless
<1>2. FreeReminder <= FreeReminder' /\ FreeReminder' \in {0, 1} /\ FreeNudge' = FreeNudge
    BY <1>1 DEF FreeReminder, FreeNudge
<1>3. Cardinality(MayRemind') <= Cardinality(MayRemind) /\ Cardinality(MayNudge') <= Cardinality(MayNudge)
    BY <1>1, PaidNumbers, CountFewer
<1>4. Cardinality(MayRemind') \in Nat /\ Cardinality(MayNudge') \in Nat
    BY <1>1, PaidNumbers, Counted
<1> QED BY <1>1, <1>2, <1>3, <1>4, PaidNumbers DEF InactivityInv, MailsPaid

\* The reminder is selected, or not due.
LEMMA MailsSelect ==
    ASSUME InactivityInv, NEW p \in Sweeps, SelectRemind(p)
    PROVE  MailsPaid'
<1>1. /\ stage[p] = "remind" /\ UNCHANGED late /\ UNCHANGED lock /\ UNCHANGED warn /\ UNCHANGED owner
      /\ UNCHANGED mails /\ UNCHANGED nudges /\ UNCHANGED faults
    BY DEF SelectRemind, sweepVars, mailVars
<1>2. CASE RemindDue(p)
    <2>1. SweepGoto(p, "reminding") /\ warn = NoAge /\ "reminding" \in Stages \ {"off"}
        BY <1>2 DEF SelectRemind, RemindDue, Stages
    <2>2. /\ stage'[p] = "reminding" /\ \A q \in Sweeps \ {p} : stage'[q] = stage[q]
          /\ lock \in Sweeps => stage'[lock] # "off"
          /\ Lockless' = Lockless /\ MayRemind' \subseteq MayRemind /\ MayNudge' \subseteq MayNudge
        BY <1>1, <2>1, StageSets DEF MayRemind, MayNudge, Lockless
    <2>3. FreeReminder' = FreeReminder /\ FreeNudge' = FreeNudge
        BY <1>1, <2>1, <2>2 DEF FreeReminder, FreeNudge
    <2>4. Cardinality(MayRemind') <= Cardinality(MayRemind) /\ Cardinality(MayNudge') <= Cardinality(MayNudge)
        BY <2>2, PaidNumbers, CountFewer
    <2>5. Cardinality(MayRemind') \in Nat /\ Cardinality(MayNudge') \in Nat
        BY <2>2, PaidNumbers, Counted
    <2> QED BY <1>1, <2>2, <2>3, <2>4, <2>5, PaidNumbers DEF InactivityInv, MailsPaid
<1>3. CASE SweepGoto(p, "pause")
    BY <1>1, <1>3, MailsIdle
<1> QED BY <1>2, <1>3 DEF SelectRemind

\* The reminder goes: on the lock it is the free one, else the sweep's own fault pays.
LEMMA MailsRemind ==
    ASSUME InactivityInv, NEW p \in Sweeps, stage[p] = "reminding", NEW next \in {"stamp", "pause"},
           RemindMailed(p, next), faults' \in {faults, faults + 1},
           next = "pause" => faults' = faults + 1
    PROVE  MailsPaid'
<1>1. /\ UNCHANGED warn /\ UNCHANGED owner /\ UNCHANGED late /\ UNCHANGED lock /\ UNCHANGED nudges
      /\ SweepGoto(p, next) /\ next \in Stages \ {"off"}
      /\ mails' = IF late[p] THEN mails ELSE mails + 1
    BY DEF RemindMailed, Stages
<1>2. /\ stage'[p] = next /\ \A q \in Sweeps \ {p} : stage'[q] = stage[q]
      /\ lock \in Sweeps => stage'[lock] # "off"
      /\ Lockless' = Lockless /\ MayRemind' \subseteq MayRemind /\ MayNudge' \subseteq MayNudge
      /\ p # lock => p \in MayRemind
      /\ p \in MayRemind' <=> p # lock /\ next = "stamp" /\ late[p]
    BY <1>1, StageSets DEF MayRemind, MayNudge, Lockless
<1>3. FreeNudge' = FreeNudge /\ FreeReminder' \in {0, 1}
    BY <1>1, <1>2 DEF FreeNudge, FreeReminder
<1>4. /\ Cardinality(MayRemind') <= Cardinality(MayRemind) /\ Cardinality(MayNudge') <= Cardinality(MayNudge)
      /\ p # lock /\ (next = "pause" \/ ~late[p]) => Cardinality(MayRemind') + 1 <= Cardinality(MayRemind)
    BY <1>2, PaidNumbers, CountFewer, CountOneLess
<1>5. Cardinality(MayRemind') \in Nat /\ Cardinality(MayNudge') \in Nat
    BY <1>2, PaidNumbers, Counted
<1>6. /\ p = lock /\ ~late[p] => FreeReminder = 0 /\ (next = "stamp" => FreeReminder' = 1)
      /\ p = lock /\ late[p] => FreeReminder = 0
      /\ p # lock => FreeReminder' = FreeReminder
    BY <1>1, <1>2 DEF FreeReminder
<1>7. mails' + Cardinality(MayRemind') <= faults' + FreeReminder'
    <2>1. CASE p = lock
        BY <1>1, <1>3, <1>4, <1>5, <1>6, <2>1, PaidNumbers DEF InactivityInv, MailsPaid
    <2>2. CASE p # lock
        BY <1>1, <1>3, <1>4, <1>5, <1>6, <2>2, PaidNumbers DEF InactivityInv, MailsPaid
    <2> QED BY <2>1, <2>2
<1> QED BY <1>1, <1>2, <1>3, <1>4, <1>5, <1>7, PaidNumbers DEF InactivityInv, MailsPaid

\* The stamp of a reminder, which a late sweep may set back.
LEMMA MailsStamp ==
    ASSUME InactivityInv, NEW p \in Sweeps, StampReminder(p)
    PROVE  MailsPaid'
<1>1. /\ stage[p] = "stamp" /\ UNCHANGED late /\ UNCHANGED lock /\ UNCHANGED owner
      /\ UNCHANGED mails /\ UNCHANGED nudges /\ UNCHANGED faults
      /\ warn' = IF late[p] THEN NoAge ELSE age[p]
      /\ SweepGoto(p, "pause") /\ "pause" \in Stages \ {"off"}
    BY DEF StampReminder, Stages, mailVars
<1>2. /\ stage'[p] = "pause" /\ \A q \in Sweeps \ {p} : stage'[q] = stage[q]
      /\ lock \in Sweeps => stage'[lock] # "off"
      /\ Lockless' = Lockless /\ MayRemind' \subseteq MayRemind /\ MayNudge' \subseteq MayNudge
      /\ p # lock /\ late[p] => p \in MayRemind
      /\ p \notin MayRemind'
    BY <1>1, StageSets DEF MayRemind, MayNudge, Lockless
<1>3. age[p] # NoAge
    BY InactivityAssumption DEF InactivityInv, InactivityTypeOK, NoAge
<1>4. FreeNudge' = FreeNudge /\ FreeReminder' \in {0, 1}
    BY <1>1, <1>2 DEF FreeNudge, FreeReminder
<1>5. FreeReminder <= FreeReminder' \/ (p # lock /\ late[p])
    BY <1>1, <1>2, <1>3 DEF FreeReminder
<1>6. /\ Cardinality(MayRemind') <= Cardinality(MayRemind) /\ Cardinality(MayNudge') <= Cardinality(MayNudge)
      /\ p # lock /\ late[p] => Cardinality(MayRemind') + 1 <= Cardinality(MayRemind)
    BY <1>2, PaidNumbers, CountFewer, CountOneLess
<1>7. Cardinality(MayRemind') \in Nat /\ Cardinality(MayNudge') \in Nat
    BY <1>2, PaidNumbers, Counted
<1> QED BY <1>1, <1>2, <1>4, <1>5, <1>6, <1>7, PaidNumbers DEF InactivityInv, MailsPaid

\* A touch: no reminder counts any more, and the sweeps under way are late.
LEMMA MailsTouch ==
    ASSUME InactivityInv, NEW r \in Requests, Touch(r)
    PROVE  MailsPaid'
<1>1. /\ warn' = NoAge /\ mails' = 0 /\ UNCHANGED stage /\ UNCHANGED lock /\ UNCHANGED owner
      /\ UNCHANGED nudges /\ UNCHANGED faults
      /\ \A p \in Sweeps : late'[p] <=> stage[p] # "off"
    BY DEF Touch, Running
<1>2. /\ Lockless' = Lockless /\ MayRemind' \subseteq Lockless /\ MayNudge' = MayNudge
      /\ FreeNudge' = FreeNudge
    BY <1>1 DEF Lockless, MayRemind, MayNudge, FreeNudge
<1>3. FreeReminder' = 0
    BY <1>1 DEF FreeReminder, InactivityInv, MailsPaid
<1>4. Cardinality(MayRemind') <= Cardinality(Lockless) /\ Cardinality(MayRemind') \in Nat
    BY <1>2, PaidNumbers, CountFewer, Counted
<1> QED BY <1>1, <1>2, <1>3, <1>4, PaidNumbers DEF InactivityInv, MailsPaid

\* A sweep starts, with the lock or at the cost of a fault.
LEMMA MailsStart ==
    ASSUME InactivityInv, NEW p \in Sweeps, StartReengagement(p) \/ StartUnlocked(p)
    PROVE  MailsPaid'
<1>1. /\ stage[p] = "off" /\ UNCHANGED warn /\ UNCHANGED owner /\ UNCHANGED mails /\ UNCHANGED nudges
      /\ stage'[p] = "remind" /\ \A q \in Sweeps \ {p} : stage'[q] = stage[q] /\ late'[q] = late[q]
      /\ ~late'[p] /\ lock # p
    BY DEF StartReengagement, StartUnlocked, Begin, SweepGoto, InactivityInv, InactivityTypeOK, MailsPaid,
           mailVars
<1>2. CASE StartReengagement(p)
    <2>1. lock = NoSweep /\ NoSweep \notin Sweeps /\ lock' = p /\ UNCHANGED faults
        BY <1>2, InactivityAssumption DEF StartReengagement
    <2>2. /\ Lockless' = Lockless /\ MayRemind' = MayRemind /\ MayNudge' = MayNudge
          /\ FreeReminder' = FreeReminder /\ FreeNudge' = FreeNudge
        BY <1>1, <2>1 DEF Lockless, MayRemind, MayNudge, FreeReminder, FreeNudge
    <2> QED BY <1>1, <2>1, <2>2, PaidNumbers DEF InactivityInv, MailsPaid
<1>3. CASE StartUnlocked(p)
    <2>1. UNCHANGED lock /\ faults' = faults + 1
        BY <1>3 DEF StartUnlocked, Fault
    <2>2. /\ Lockless' \subseteq Lockless \union {p} /\ MayRemind' \subseteq MayRemind \union {p}
          /\ MayNudge' \subseteq MayNudge \union {p}
          /\ FreeReminder' = FreeReminder /\ FreeNudge' = FreeNudge
        BY <1>1, <2>1 DEF Lockless, MayRemind, MayNudge, FreeReminder, FreeNudge
    <2>3. /\ Cardinality(Lockless') <= Cardinality(Lockless) + 1
          /\ Cardinality(MayRemind') <= Cardinality(MayRemind) + 1
          /\ Cardinality(MayNudge') <= Cardinality(MayNudge) + 1
        BY <2>2, PaidNumbers, CountOneMore
    <2>4. /\ Cardinality(Lockless') \in Nat /\ Cardinality(MayRemind') \in Nat
          /\ Cardinality(MayNudge') \in Nat
        BY <2>2, PaidNumbers, Counted
    <2>5. lock' \in Sweeps => stage'[lock'] # "off"
        BY <1>1, <2>1 DEF InactivityInv, MailsPaid
    <2> QED BY <1>1, <2>1, <2>2, <2>3, <2>4, <2>5, PaidNumbers DEF InactivityInv, MailsPaid
<1> QED BY <1>2, <1>3

\* A sweep ends: the free reminder and nudge are lost with the lock only by a fault.
LEMMA EndSets ==
    ASSUME InactivityInv, NEW p \in Sweeps, stage[p] # "off", EndSweep(p)
    PROVE  /\ \A q \in Sweeps \ {p} : stage'[q] = stage[q] /\ late'[q] = late[q]
           /\ lock # p => lock' = lock
           /\ lock' \in Sweeps => lock # p /\ stage'[lock'] # "off"
           /\ Lockless' = Lockless \ {p} /\ MayRemind' = MayRemind \ {p} /\ MayNudge' = MayNudge \ {p}
           /\ Cardinality(Lockless') \in Nat /\ Cardinality(MayRemind') \in Nat
           /\ Cardinality(MayNudge') \in Nat
           /\ Cardinality(Lockless') <= Cardinality(Lockless)
           /\ Cardinality(MayRemind') <= Cardinality(MayRemind)
           /\ Cardinality(MayNudge') <= Cardinality(MayNudge)
           /\ p # lock /\ stage[p] # "nudgeStamp" => Cardinality(MayNudge') + 1 <= Cardinality(MayNudge)
<1>1. /\ \A q \in Sweeps \ {p} : stage'[q] = stage[q] /\ late'[q] = late[q]
      /\ stage'[p] = "off" /\ lock' = IF lock = p THEN NoSweep ELSE lock
    BY DEF EndSweep, SweepGoto, InactivityInv, InactivityTypeOK
<1>2. (lock # p => lock' = lock) /\ (lock' \in Sweeps => lock # p /\ stage'[lock'] # "off")
    BY <1>1, InactivityAssumption DEF InactivityInv, MailsPaid
<1>3. lock = p => p \notin Lockless
    BY DEF Lockless
<1>4. Lockless' = Lockless \ {p}
    <2>1. \A q \in Sweeps \ {p} : q # lock' <=> q # lock
        BY <1>1, InactivityAssumption
    <2> QED BY <1>1, <2>1 DEF Lockless
<1>5. MayRemind' = MayRemind \ {p} /\ MayNudge' = MayNudge \ {p}
    BY <1>1, <1>4 DEF MayRemind, MayNudge, Lockless
<1>6. p # lock /\ stage[p] # "nudgeStamp" => p \in MayNudge
    BY DEF MayNudge, Lockless
<1>7. p # lock /\ stage[p] # "nudgeStamp" => Cardinality(MayNudge') + 1 <= Cardinality(MayNudge)
    BY <1>5, <1>6, PaidNumbers, CountOneLess
<1>8. /\ Lockless' \in SUBSET Sweeps /\ MayRemind' \in SUBSET Sweeps /\ MayNudge' \in SUBSET Sweeps
    BY <1>4, <1>5, PaidNumbers
<1>9. /\ Cardinality(Lockless') \in Nat /\ Cardinality(MayRemind') \in Nat
      /\ Cardinality(MayNudge') \in Nat
    BY <1>8, Counted
<1>10. /\ Cardinality(Lockless') <= Cardinality(Lockless)
       /\ Cardinality(MayRemind') <= Cardinality(MayRemind)
       /\ Cardinality(MayNudge') <= Cardinality(MayNudge)
    BY <1>4, <1>5, PaidNumbers, CountFewer
<1> QED BY <1>1, <1>2, <1>4, <1>5, <1>7, <1>9, <1>10

\* A sweep that dies pays for the reminder or nudge it has not stamped.
LEMMA MailsDies ==
    ASSUME InactivityInv, NEW p \in Sweeps, SweepDies(p)
    PROVE  MailsPaid'
<1>1. /\ UNCHANGED warn /\ UNCHANGED owner /\ UNCHANGED mails /\ UNCHANGED nudges
      /\ faults' = faults + 1 /\ stage[p] # "off" /\ EndSweep(p)
    BY DEF SweepDies, Running, Fault, mailVars
<1>2. FreeReminder <= FreeReminder' + 1 /\ FreeNudge <= FreeNudge' + 1
      /\ FreeReminder' \in {0, 1} /\ FreeNudge' \in {0, 1}
    BY DEF FreeReminder, FreeNudge
<1> QED BY <1>1, <1>2, EndSets, PaidNumbers DEF InactivityInv, MailsPaid

\* No nudge is due, or it is and the sweep is about to mail it.
LEMMA NudgeSelect ==
    ASSUME InactivityInv, NEW p \in Sweeps, SelectNudge(p)
    PROVE  MailsPaid'
<1>1. /\ stage[p] = "nudge" /\ UNCHANGED warn /\ UNCHANGED owner /\ UNCHANGED mails /\ UNCHANGED nudges
      /\ UNCHANGED faults
    BY DEF SelectNudge, mailVars
<1>2. CASE NudgeDue(p)
    <2>1. /\ SweepGoto(p, "nudging") /\ ~owner.nudged /\ "nudging" \in Stages \ {"off"}
          /\ UNCHANGED late /\ UNCHANGED lock
        BY <1>2 DEF SelectNudge, NudgeDue, Stages
    <2>2. /\ stage'[p] = "nudging" /\ \A q \in Sweeps \ {p} : stage'[q] = stage[q]
          /\ lock \in Sweeps => stage'[lock] # "off"
          /\ Lockless' = Lockless /\ MayRemind' \subseteq MayRemind /\ MayNudge' \subseteq MayNudge
        BY <1>1, <2>1, StageSets DEF MayRemind, MayNudge, Lockless
    <2>3. FreeReminder' = FreeReminder /\ FreeNudge' = FreeNudge
        BY <1>1, <2>1, <2>2 DEF FreeReminder, FreeNudge
    <2>4. Cardinality(MayRemind') <= Cardinality(MayRemind) /\ Cardinality(MayNudge') <= Cardinality(MayNudge)
        BY <2>2, PaidNumbers, CountFewer
    <2>5. Cardinality(MayRemind') \in Nat /\ Cardinality(MayNudge') \in Nat
        BY <2>2, PaidNumbers, Counted
    <2> QED BY <1>1, <2>1, <2>2, <2>3, <2>4, <2>5, PaidNumbers DEF InactivityInv, MailsPaid
<1>3. CASE EndSweep(p)
    <2>1. FreeReminder <= FreeReminder' /\ FreeNudge <= FreeNudge'
          /\ FreeReminder' \in {0, 1} /\ FreeNudge' \in {0, 1}
        BY <1>1, <1>3, EndSets DEF FreeReminder, FreeNudge
    <2> QED BY <1>1, <1>3, <2>1, EndSets, PaidNumbers DEF InactivityInv, MailsPaid
<1> QED BY <1>2, <1>3 DEF SelectNudge

\* The nudge goes, like the reminder, at the cost of the lock or of a fault.
LEMMA NudgeMailed ==
    ASSUME InactivityInv, NEW p \in Sweeps, Nudge(p)
    PROVE  MailsPaid'
<1>1. /\ stage[p] = "nudging" /\ UNCHANGED warn /\ UNCHANGED owner /\ UNCHANGED mails
    BY DEF Nudge
<1>2. p = lock => FreeNudge = 0
    BY <1>1 DEF FreeNudge
<1>3. CASE /\ EndSweep(p) /\ faults' \in {faults, faults + 1} /\ nudges' \in {nudges, nudges + 1}
           /\ nudges' = nudges + 1 => faults' = faults + 1
    <2>1. FreeReminder <= FreeReminder' /\ FreeNudge <= FreeNudge'
          /\ FreeReminder' \in {0, 1} /\ FreeNudge' \in {0, 1}
        BY <1>1, <1>3, EndSets DEF FreeReminder, FreeNudge
    <2> QED BY <1>1, <1>3, <2>1, EndSets, PaidNumbers DEF InactivityInv, MailsPaid
<1>4. CASE /\ SweepGoto(p, "nudgeStamp") /\ nudges' = nudges + 1 /\ UNCHANGED late /\ UNCHANGED lock
           /\ UNCHANGED faults
    <2> "nudgeStamp" \in Stages \ {"off"}
        BY DEF Stages
    <2>1. /\ stage'[p] = "nudgeStamp" /\ \A q \in Sweeps \ {p} : stage'[q] = stage[q]
          /\ lock \in Sweeps => stage'[lock] # "off"
          /\ Lockless' = Lockless /\ MayRemind' \subseteq MayRemind
          /\ MayNudge' \subseteq MayNudge /\ p \notin MayNudge' /\ (p # lock => p \in MayNudge)
        BY <1>1, <1>4, StageSets DEF MayRemind, MayNudge, Lockless
    <2>2. /\ FreeReminder' = FreeReminder /\ FreeNudge' \in {0, 1}
          /\ p = lock => FreeNudge' = 1
          /\ p # lock => FreeNudge' = FreeNudge
        BY <1>1, <1>4, <2>1 DEF FreeReminder, FreeNudge
    <2>3. /\ Cardinality(MayRemind') <= Cardinality(MayRemind) /\ Cardinality(MayNudge') <= Cardinality(MayNudge)
          /\ p # lock => Cardinality(MayNudge') + 1 <= Cardinality(MayNudge)
        BY <2>1, PaidNumbers, CountFewer, CountOneLess
    <2>4. Cardinality(MayRemind') \in Nat /\ Cardinality(MayNudge') \in Nat
        BY <2>1, PaidNumbers, Counted
    <2> QED BY <1>1, <1>2, <1>4, <2>1, <2>2, <2>3, <2>4, PaidNumbers DEF InactivityInv, MailsPaid
<1> QED BY <1>3, <1>4, PaidNumbers DEF Nudge, Fault

\* From its stamp on nobody selects a nudge any more.
LEMMA NudgeStamped ==
    ASSUME InactivityInv, NEW p \in Sweeps, StampNudge(p)
    PROVE  MailsPaid'
<1>1. /\ stage[p] = "nudgeStamp" /\ UNCHANGED warn /\ UNCHANGED mails /\ UNCHANGED nudges
      /\ UNCHANGED faults /\ owner'.nudged /\ EndSweep(p)
    BY DEF StampNudge, mailVars, InactivityInv, InactivityTypeOK
<1>2. FreeReminder <= FreeReminder' /\ FreeNudge <= FreeNudge'
      /\ FreeReminder' \in {0, 1} /\ FreeNudge' \in {0, 1}
    BY <1>1, EndSets DEF FreeReminder, FreeNudge
<1> QED BY <1>1, <1>2, EndSets, PaidNumbers DEF InactivityInv, MailsPaid

\* No step mails what is not paid for.
LEMMA MailsStep == InactivityInv /\ [InactivityNext]_inactivityVars => MailsPaid'
<1> SUFFICES ASSUME InactivityInv, [InactivityNext]_inactivityVars
             PROVE  MailsPaid'
    OBVIOUS
<1> USE DEF sweepVars, mailVars, handVars
<1>1. CASE Tick
    <2>1. /\ UNCHANGED stage /\ UNCHANGED late /\ UNCHANGED lock /\ UNCHANGED mails /\ UNCHANGED nudges
          /\ UNCHANGED faults /\ warn' = Older(warn)
        BY <1>1 DEF Tick
    <2>2. owner'.nudged = owner.nudged
        BY <1>1 DEF Tick, InactivityInv, InactivityTypeOK
    <2>3. warn' = NoAge <=> warn = NoAge
        BY <2>1, OlderAges DEF InactivityInv, InactivityTypeOK
    <2> QED BY <2>1, <2>2, <2>3, MailsFrame
<1>2. CASE Unsubscribe
    BY <1>2, MailsFrame DEF Unsubscribe, InactivityInv, InactivityTypeOK
<1>3. ASSUME NEW s \in Sites, PixelFires(s)
      PROVE  MailsPaid'
    BY <1>3, MailsFrame DEF PixelFires, InactivityInv, InactivityTypeOK
<1>4. ASSUME NEW r \in Requests, LoadUser(r) \/ TouchFails(r) \/ Leave(r)
      PROVE  MailsPaid'
    BY <1>4, MailsFrame DEF LoadUser, TouchFails, Leave, Fault
<1>5. ASSUME NEW r \in Requests, NEW s \in Sites, BeginEdit(r, s)
      PROVE  MailsPaid'
    BY <1>5, MailsFrame DEF BeginEdit
<1>6. ASSUME NEW r \in Requests, NEW on \in BOOLEAN, CommitEdit(r, on)
      PROVE  MailsPaid'
    BY <1>6, MailsFrame DEF CommitEdit
<1>7. ASSUME NEW p \in Sweeps, Remind(p)
      PROVE  MailsPaid'
    <2>1. CASE RemindSkipped(p) /\ UNCHANGED faults
        BY <1>7, <2>1, MailsIdle DEF Remind, RemindSkipped
    <2>2. CASE RemindMailed(p, "stamp") /\ UNCHANGED faults
        BY <1>7, <2>2, MailsRemind DEF Remind
    <2>3. CASE RemindMailed(p, "pause") /\ Fault
        BY <1>7, <2>3, MailsRemind DEF Remind, Fault
    <2> QED BY <1>7, <2>1, <2>2, <2>3 DEF Remind
<1>8. ASSUME NEW p \in Sweeps, SelectPause(p)
      PROVE  MailsPaid'
    BY <1>8, MailsIdle DEF SelectPause
<1>9. ASSUME NEW p \in Sweeps, WritePause(p)
      PROVE  MailsPaid'
    BY <1>9, MailsIdle DEF WritePause
<1>10. ASSUME NEW p \in Sweeps, SendNotice(p)
       PROVE  MailsPaid'
    BY <1>10, MailsIdle DEF SendNotice, RollBackPause, Fault
<1>11. ASSUME NEW p \in Sweeps, CommitPause(p)
       PROVE  MailsPaid'
    BY <1>11, MailsIdle DEF CommitPause
<1>12. CASE UNCHANGED inactivityVars
    BY <1>12, MailsFrame DEF inactivityVars
<1> QED
    BY <1>1, <1>2, <1>3, <1>4, <1>5, <1>6, <1>7, <1>8, <1>9, <1>10, <1>11, <1>12, MailsTouch, MailsStart,
       MailsSelect, MailsStamp, MailsDies, NudgeSelect, NudgeMailed, NudgeStamped
    DEF InactivityNext, SweepStep

-----------------------------------------------------------------------------
(* The theorems *)

\* An owner who signs up now, with sites that track and no sweep under way.
LEMMA InactivityInitInv == InactivityInit => InactivityInv
<1> SUFFICES ASSUME InactivityInit
             PROVE  InactivityInv
    OBVIOUS
<1>1. PICK on \in Sites : req = [r \in Requests |-> [at |-> "out", on |-> on, loaded |-> NewSite]]
    BY InactivityAssumption DEF InactivityInit
<1>2. NewSite \in SiteRow /\ 0 \in Ages
    BY InactivityAssumption DEF NewSite, SiteRow, Ages
<1>3. InactivityTypeOK
    BY <1>1, <1>2, InactivityAssumption DEF InactivityInit, InactivityTypeOK, Stages
<1>4. /\ \A p \in Sweeps : stage[p] = "off" /\ ~late[p] /\ held[p] = {}
      /\ lock \notin Sweeps /\ warn = NoAge /\ ~owner.nudged /\ mails = 0 /\ nudges = 0 /\ faults = 0
      /\ byHand = {}
    BY InactivityAssumption DEF InactivityInit
<1>5. Lockless = {} /\ MayRemind = {} /\ MayNudge = {} /\ FreeReminder = 0 /\ FreeNudge = 0
    BY <1>4 DEF Lockless, MayRemind, MayNudge, FreeReminder, FreeNudge
<1>6. MailsPaid
    BY <1>4, <1>5, FS_EmptySet DEF MailsPaid
<1>7. WarningMailed /\ PauseSeesWarning /\ HandKept
    BY <1>4 DEF WarningMailed, PauseSeesWarning, HandKept
<1> QED
    BY <1>3, <1>6, <1>7 DEF InactivityInv

\* The invariant is inductive.
LEMMA InactivityStepInv == InactivityInv /\ [InactivityNext]_inactivityVars => InactivityInv'
    BY InactivityTypeStep, MailsStep, WarningStep, PauseStep, HandStep DEF InactivityInv

\* The inductive invariant: what each sweep may still mail was paid for by a fault, a
\* stamp stands for a mail, and a sweep about to pause has seen one (reengagement.py).
THEOREM LadderInvariance == InactivitySpec => []InactivityInv
    BY InactivityInitInv, InactivityStepInv, PTL DEF InactivitySpec

\* One reminder for an absence and one install nudge for an account, but for one more
\* for each fault, for any number of sites, overlapping sweeps and requests.
THEOREM OneMailForEach == InactivitySpec => []MailedOnce
<1>1. InactivityInv => MailedOnce
    BY PaidNumbers DEF InactivityInv, MailsPaid, MailedOnce
<1> QED
    BY <1>1, LadderInvariance, PTL

\* A site the owner paused by hand stays paused, unless the setting crossed a pause
\* or resume in flight, whatever sweeps and requests run.
THEOREM HandPauseKept == InactivitySpec => []PausedByHandKept
<1>1. InactivityInv => PausedByHandKept
    BY DEF InactivityInv, HandKept, PausedByHandKept
<1> QED
    BY <1>1, LadderInvariance, PTL

\* A pause is written only when the warning has been out for WarnGap, less the time
\* the mailing sweep took, for any number of sweeps, with or without the lock.
THEOREM NoPauseUnwarned == InactivitySpec => PauseWarned
<1> DEFINE Warned == \A p \in Sweeps : held'[p] # {} /\ held[p] = {}
          => mailAge # NoAge /\ mailAge + Span >= WarnGap + age[p]
<1>1. ASSUME InactivityInv, NEW q \in Sweeps, WritePause(q)
      PROVE  Warned
    <2> SUFFICES ASSUME NEW p \in Sweeps, held'[p] # {}, held[p] = {}
                 PROVE  mailAge # NoAge /\ mailAge + Span >= WarnGap + age[p]
        OBVIOUS
    <2>1. p = q /\ stage[p] = "pausing" /\ idle - age[p] > PauseAfter
        BY <1>1 DEF WritePause, AtStart, InactivityInv, InactivityTypeOK
    <2>2. ~late[p]
        BY <1>1, <2>1, InactivityAssumption
        DEF InactivityInv, InactivityTypeOK, PauseSeesWarning, Ages
    <2> QED BY <1>1, <2>1, <2>2 DEF InactivityInv, PauseSeesWarning
<1>2. ASSUME InactivityInv, InactivityNext
      PROVE  Warned
    <2>1. (\E q \in Sweeps : WritePause(q)) \/ \A p \in Sweeps : held'[p] \in {held[p], {}}
        BY <1>2 DEF InactivityNext, SweepStep, Tick, Unsubscribe, PixelFires, LoadUser, Touch, TouchFails,
             Leave, BeginEdit, CommitEdit, StartReengagement, StartUnlocked, Begin, SelectRemind, Remind,
             RemindSkipped, RemindMailed, StampReminder, SelectPause, SendNotice, RollBackPause,
             CommitPause, SelectNudge, Nudge, StampNudge, SweepDies, sweepVars, InactivityInv, InactivityTypeOK
    <2> QED BY <1>1, <1>2, <2>1
<1>3. InactivityInv /\ [InactivityNext]_inactivityVars => [Warned]_inactivityVars
    BY <1>2
<1> HIDE DEF Warned
<1>4. InactivitySpec => [][Warned]_inactivityVars
    BY <1>3, LadderInvariance, PTL DEF InactivitySpec
<1> QED
    BY <1>4 DEF Warned, PauseWarned
=============================================================================
