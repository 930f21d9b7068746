------------------------- MODULE CampaignSendProofs -------------------------
(* Theorems about CampaignSend, for any requests, recipients and cap. *)
EXTENDS CampaignSend, TLAPS

USE SendAssumption

-----------------------------------------------------------------------------
(* Types *)

Types == TypeOK /\ BusyHasRecipient

\* Every record a request's job is replaced by is one.
LEMMA JobValues ==
    /\ NoJob \in Job
    /\ \A now \in {"completed", "other"}, m \in {"on", "off"} :
          [NoJob EXCEPT !.todo = Recipients, !.seen = now, !.mail = m] \in Job
    /\ \A j \in Job :
          /\ \A v \in Recipients : [j EXCEPT !.todo = @ \ {v}] \in Job
          /\ \A s \in {"startable", "completed", "other"} : [j EXCEPT !.seen = s] \in Job
          /\ \A m \in {"on", "off", "expired"} : [j EXCEPT !.mail = m] \in Job
          /\ [j EXCEPT !.throttled = TRUE] \in Job
          /\ [j EXCEPT !.sent = TRUE] \in Job
          /\ j.mail \in {"on", "off", "expired"}
BY DEF Job, NoJob

LEMMA TypesInit == Init => Types
<1> SUFFICES ASSUME Init PROVE Types
  OBVIOUS
<1>1. job \in [Runs -> Job]
  BY JobValues DEF Init
<1>2. pc \in [Runs -> Steps] /\ BusyHasRecipient
  BY DEF Init, Steps, BusyHasRecipient, Busy
<1>3. QED
  BY <1>1, <1>2 DEF Init, Types, TypeOK, Statuses, NoEdit, Tiers

\* The owner's edits move a campaign between statuses only.
LEMMA EditTargets ==
    ASSUME NEW s \in Statuses
    PROVE  ValidTransitions[s] \subseteq Statuses
<1>1. ValidTransitions[s] \in
        {{"approved"}, {"active", "draft"}, {"paused", "completed"}, {"active", "completed"}, {}}
  BY DEF ValidTransitions, Statuses
<1>2. QED
  BY <1>1 DEF Statuses

LEMMA TypesStep == Types /\ [Next]_vars => Types'
<1> SUFFICES ASSUME Types, [Next]_vars PROVE Types'
  OBVIOUS
<1> USE DEF Types, TypeOK, BusyHasRecipient, Busy, dbVars, peopleVars, siteVars, localVars,
            worldVars, At
<1>1. ASSUME NEW r \in Runs, SendCampaign(r) PROVE Types'
  BY <1>1, JobValues DEF SendCampaign, Begin, Steps, Seen
<1>2. ASSUME NEW r \in Runs, LoadForStart(r) PROVE Types'
  BY <1>2, JobValues DEF LoadForStart, Steps
<1>3. ASSUME NEW r \in Runs, StartCampaign(r) PROVE Types'
  <2>1. job' \in [Runs -> Job]
    BY <1>3, JobValues DEF StartCampaign, Begin, End, Exists, Steps, Seen, Statuses
  <2>2. QED
    BY <1>3, <2>1 DEF StartCampaign, Begin, End, Exists, Steps, Seen, Statuses
<1>4. ASSUME NEW r \in Runs, NEW v \in Recipients, TakeRecipient(r, v) PROVE Types'
  <2>1. job' \in [Runs -> Job]
    BY <1>4, JobValues DEF TakeRecipient, Steps
  <2>2. QED
    BY <1>4, <2>1 DEF TakeRecipient, Steps
<1>5. ASSUME NEW r \in Runs, CheckSuppression(r) PROVE Types'
  BY <1>5 DEF CheckSuppression, NextRecipient, Goto, Steps
<1>6. ASSUME NEW r \in Runs, CheckExisting(r) PROVE Types'
  BY <1>6 DEF CheckExisting, NextRecipient, Goto, Steps
<1>7. ASSUME NEW r \in Runs, ReserveSlot(r) PROVE Types'
  <2>1. job' \in [Runs -> Job]
    <3>1. job[r] \in Job /\ [job[r] EXCEPT !.throttled = TRUE] \in Job
      BY JobValues
    <3>2. \/ job' = job
          \/ job' = [job EXCEPT ![r] = [job[r] EXCEPT !.throttled = TRUE]]
      BY <1>7 DEF ReserveSlot, NextRecipient, Goto
    <3>3. QED
      BY <3>1, <3>2
  <2>2. QED
    BY <1>7, <2>1 DEF ReserveSlot, NextRecipient, Goto, Steps
<1>8. ASSUME NEW r \in Runs, ClaimRecipient(r) PROVE Types'
  BY <1>8 DEF ClaimRecipient, Goto, Steps
<1>9. ASSUME NEW r \in Runs, TokenReady(r) PROVE Types'
  BY <1>9 DEF TokenReady, CommitClaim, DropClaim, Goto, Steps
<1>10. ASSUME NEW r \in Runs, TokenRefused(r) PROVE Types'
  <2>1. job' \in [Runs -> Job]
    BY <1>10, JobValues DEF TokenRefused, CommitClaim, DropClaim, FallBack, Steps
  <2>2. QED
    BY <1>10, <2>1 DEF TokenRefused, CommitClaim, DropClaim, FallBack, Steps
<1>11. ASSUME NEW r \in Runs, TokenUnreadable(r) PROVE Types'
  BY <1>11, JobValues DEF TokenUnreadable, DropClaim, End, Steps
<1>12. ASSUME NEW r \in Runs, GmailSend(r) PROVE Types'
  <2>1. job' \in [Runs -> Job]
    <3>1. job[r] \in Job /\ [job[r] EXCEPT !.mail = "off"] \in Job
      BY JobValues
    <3>2. \/ job' = job
          \/ job' = [job EXCEPT ![r].mail = "off"]
      BY <1>12 DEF GmailSend, FallBack, Goto
    <3>3. QED
      BY <3>1, <3>2
  <2>2. QED
    BY <1>12, <2>1 DEF GmailSend, Deliver, Lose, FallBack, Goto, Steps
<1>13. ASSUME NEW r \in Runs, SendGridSend(r) PROVE Types'
  BY <1>13 DEF SendGridSend, Deliver, Lose, Goto, Steps
<1>14. ASSUME NEW r \in Runs, MarkSent(r) PROVE Types'
  BY <1>14, JobValues DEF MarkSent, DropClaim, NextRecipient, Steps
<1>15. ASSUME NEW r \in Runs, MarkVanished(r) PROVE Types'
  <2>1. job' \in [Runs -> Job]
    BY <1>15, JobValues DEF MarkVanished, End
  <2>2. lost' \in [Recipients -> Nat]
    BY <1>15 DEF MarkVanished, Lose
  <2>3. QED
    BY <1>15, <2>1, <2>2 DEF MarkVanished, Lose, End, Steps
<1>16. ASSUME NEW r \in Runs, RollBack(r) PROVE Types'
  <2>1. job' \in [Runs -> Job]
    <3> DEFINE mail == IF job[r].mail = "on" THEN "expired" ELSE job[r].mail
    <3>1. [job[r] EXCEPT !.seen = Seen(status)] \in Job
      BY JobValues DEF Seen
    <3>2. [[job[r] EXCEPT !.seen = Seen(status)] EXCEPT !.mail = mail] \in Job
      BY <3>1, JobValues
    <3>3. [job[r] EXCEPT !.seen = Seen(status), !.mail = mail] \in Job
      BY <3>2 DEF Job
    <3>4. \/ job' = [job EXCEPT ![r] = NoJob]
          \/ job' = [job EXCEPT ![r].seen = Seen(status), ![r].mail = mail]
      BY <1>16 DEF RollBack, End
    <3>5. QED
      BY <3>3, <3>4, JobValues
  <2>2. QED
    BY <1>16, <2>1 DEF RollBack, DropClaim, End, Steps, Seen
<1>17. ASSUME NEW r \in Runs, ReleaseSlot(r) PROVE Types'
  BY <1>17 DEF ReleaseSlot, NextRecipient, Steps
<1>18. ASSUME NEW r \in Runs, Finish(r) PROVE Types'
  BY <1>18, JobValues DEF Finish, End, Steps, Statuses
<1>19. ASSUME NEW r \in Runs, Crash(r) PROVE Types'
  <2>1. job' \in [Runs -> Job]
    BY <1>19, JobValues DEF Crash, End
  <2>2. lost' \in [Recipients -> Nat]
    BY <1>19 DEF Crash, Lose
  <2>3. QED
    BY <1>19, <2>1, <2>2 DEF Crash, Lose, DropClaim, End, Steps
<1>20. CASE BeginEdit
  BY <1>20, EditTargets DEF BeginEdit, Exists, Statuses
<1>21. CASE CommitEdit \/ DeleteCampaign
  BY <1>21 DEF CommitEdit, DeleteCampaign, NoEdit
<1>22. ASSUME NEW v \in Recipients, OptOut(v) \/ ConfirmCandidate(v) \/ RejectCandidate(v)
       PROVE Types'
  BY <1>22 DEF OptOut, ConfirmCandidate, RejectCandidate, Tiers
<1>23. CASE SwitchGmail \/ TestSendCampaign \/ NextHour
  <2>1. gmailActive' \in BOOLEAN
    BY <1>23, ZenonT(20) DEF SwitchGmail, TestSendCampaign, NextHour
  <2>2. used' \in Nat
    BY <1>23 DEF SwitchGmail, TestSendCampaign, NextHour
  <2>3. QED
    BY <1>23, <2>1, <2>2, ZenonT(20) DEF SwitchGmail, TestSendCampaign, NextHour
<1>24. CASE UNCHANGED vars
  BY <1>24 DEF vars
<1>25. QED
  BY <1>1, <1>2, <1>3, <1>4, <1>5, <1>6, <1>7, <1>8, <1>9, <1>10, <1>11, <1>12, <1>13, <1>14,
     <1>15, <1>16, <1>17, <1>18, <1>19, <1>20, <1>21, <1>22, <1>23, <1>24
     DEF Next, RunStep, Environment

\* Whatever happens, every variable keeps its type: TypeOK of CampaignSend.
THEOREM TypeCorrect == Spec => []TypeOK
<1>1. Spec => []Types
  BY TypesInit, TypesStep, PTL DEF Spec
<1>2. Types => TypeOK
  BY DEF Types
<1>3. QED
  BY <1>1, <1>2, PTL

-----------------------------------------------------------------------------
(* The claim protocol *)

LEMMA IInvInit == Init => IInv
<1> SUFFICES ASSUME Init PROVE IInv
  OBVIOUS
<1>1. Types
  BY TypesInit
<1>2. ClaimsAreHeld /\ SendersHoldRow /\ DeletedHasNoRows /\ OneSender
  BY DEF Init, ClaimsAreHeld, SendersHoldRow, DeletedHasNoRows, OneSender, Sending, Exists
<1>3. Balanced /\ SentMeansMailed /\ LateIsSuppressed /\ BusyIsConfirmed
  BY DEF Init, Balanced, SentMeansMailed, LateIsSuppressed, BusyIsConfirmed, Sending, Busy
<1>4. QED
  BY <1>1, <1>2, <1>3 DEF IInv, Types

LEMMA IInvStep == IInv /\ [Next]_vars => IInv'
<1> SUFFICES ASSUME IInv, [Next]_vars PROVE IInv'
  OBVIOUS
<1> Types /\ Types'
  BY TypesStep DEF IInv, Types
<1> USE DEF IInv, Types, TypeOK, BusyHasRecipient, ClaimsAreHeld, SendersHoldRow,
            DeletedHasNoRows, OneSender, Balanced, SentMeansMailed, LateIsSuppressed,
            BusyIsConfirmed, Sending, Busy, At, Exists,
            dbVars, peopleVars, siteVars, localVars, worldVars
<1>1. ASSUME NEW r \in Runs, SendCampaign(r) PROVE IInv'
  BY <1>1 DEF SendCampaign, Begin
<1>2. ASSUME NEW r \in Runs, LoadForStart(r) PROVE IInv'
  BY <1>2 DEF LoadForStart
<1>3. ASSUME NEW r \in Runs, StartCampaign(r) PROVE IInv'
  BY <1>3 DEF StartCampaign, Begin, End, Exists
<1>4. ASSUME NEW r \in Runs, NEW v \in Recipients, TakeRecipient(r, v) PROVE IInv'
  BY <1>4 DEF TakeRecipient, Emailable
<1>5. ASSUME NEW r \in Runs, CheckSuppression(r) PROVE IInv'
  BY <1>5 DEF CheckSuppression, NextRecipient, Goto
<1>6. ASSUME NEW r \in Runs, CheckExisting(r) PROVE IInv'
  BY <1>6 DEF CheckExisting, NextRecipient, Goto
<1>7. ASSUME NEW r \in Runs, ReserveSlot(r) PROVE IInv'
  BY <1>7 DEF ReserveSlot, NextRecipient, Goto
<1>8. ASSUME NEW r \in Runs, ClaimRecipient(r) PROVE IInv'
  \* Nobody is sending to a recipient with neither a row nor a claim.
  <2>1. ASSUME NEW q \in Runs, Sending(q), at[q] = at[r], Exists,
               touchpoint[at[r]] = "none", claim[at[r]] = NoRun
        PROVE  FALSE
    BY <2>1
  <2>2. OneSender'
    BY <1>8, <2>1 DEF ClaimRecipient, Goto
  <2>3. ClaimsAreHeld' /\ SendersHoldRow' /\ Balanced'
    BY <1>8, <2>1 DEF ClaimRecipient, Goto
  <2>4. QED
    BY <1>8, <2>2, <2>3 DEF ClaimRecipient, Goto
<1>9. ASSUME NEW r \in Runs, TokenReady(r) PROVE IInv'
  BY <1>9 DEF TokenReady, CommitClaim, DropClaim, Goto
<1>10. ASSUME NEW r \in Runs, TokenRefused(r) PROVE IInv'
  BY <1>10 DEF TokenRefused, CommitClaim, DropClaim, FallBack
<1>11. ASSUME NEW r \in Runs, TokenUnreadable(r) PROVE IInv'
  BY <1>11 DEF TokenUnreadable, DropClaim, End
<1>12. ASSUME NEW r \in Runs, GmailSend(r) PROVE IInv'
  \* Only the books of the sender's own recipient change.
  <2>1. \A q \in Runs : q # r /\ Sending(q) => at[q] # at[r]
    BY <1>12 DEF GmailSend
  <2>2. /\ Sending(r) /\ pc[r] # "mark" /\ pc[r] # "failed"
        /\ UNCHANGED <<dbVars, peopleVars, at, late>>
    BY <1>12 DEF GmailSend, FallBack, Goto
  <2>3. CASE Deliver(at[r]) /\ UNCHANGED lost /\ Goto(r, "mark")
    BY <2>1, <2>2, <2>3 DEF Deliver, Goto
  <2>4. CASE UNCHANGED worldVars /\ FallBack(r)
    BY <2>2, <2>4 DEF FallBack
  <2>5. CASE Deliver(at[r]) /\ Lose(at[r]) /\ FallBack(r)
    BY <2>1, <2>2, <2>5 DEF Deliver, Lose, FallBack
  <2>6. QED
    BY <1>12, <2>3, <2>4, <2>5 DEF GmailSend
<1>13. ASSUME NEW r \in Runs, SendGridSend(r) PROVE IInv'
  \* Only the books of the sender's own recipient change.
  <2>1. \A q \in Runs : q # r /\ Sending(q) => at[q] # at[r]
    BY <1>13 DEF SendGridSend
  <2>2. /\ Sending(r) /\ pc[r] # "mark" /\ pc[r] # "failed"
        /\ UNCHANGED <<dbVars, peopleVars, at, late>>
    BY <1>13 DEF SendGridSend, FallBack, Goto
  <2>3. CASE Deliver(at[r]) /\ UNCHANGED lost /\ Goto(r, "mark")
    BY <2>1, <2>2, <2>3 DEF Deliver, Goto
  <2>4. CASE UNCHANGED worldVars /\ Goto(r, "failed")
    BY <2>2, <2>4 DEF Goto
  <2>5. CASE Deliver(at[r]) /\ Lose(at[r]) /\ Goto(r, "failed")
    BY <2>1, <2>2, <2>5 DEF Deliver, Lose, Goto
  <2>6. QED
    BY <1>13, <2>3, <2>4, <2>5 DEF SendGridSend
<1>14. ASSUME NEW r \in Runs, MarkSent(r) PROVE IInv'
  \* The row is the sender's own, so it is nobody else's that turns "sent".
  <2>1. ~\E q \in Runs : q # r /\ Sending(q) /\ at[q] = at[r]
    BY <1>14 DEF MarkSent
  <2>2. SentMeansMailed' /\ SendersHoldRow' /\ Balanced'
    BY <1>14, <2>1 DEF MarkSent, DropClaim, NextRecipient
  <2>3. QED
    BY <1>14, <2>2 DEF MarkSent, DropClaim, NextRecipient
<1>15. ASSUME NEW r \in Runs, MarkVanished(r) PROVE IInv'
  BY <1>15 DEF MarkVanished, Lose, End
<1>16. ASSUME NEW r \in Runs, RollBack(r) PROVE IInv'
  BY <1>16 DEF RollBack, DropClaim, End, Exists
<1>17. ASSUME NEW r \in Runs, ReleaseSlot(r) PROVE IInv'
  BY <1>17 DEF ReleaseSlot, NextRecipient
<1>18. ASSUME NEW r \in Runs, Finish(r) PROVE IInv'
  BY <1>18 DEF Finish, End, Exists
<1>19. ASSUME NEW r \in Runs, Crash(r) PROVE IInv'
  BY <1>19 DEF Crash, Lose, DropClaim, End
<1>20. CASE BeginEdit \/ CommitEdit
  <2>1. Exists' <=> Exists
    BY <1>20 DEF BeginEdit, CommitEdit, Statuses, NoEdit
  <2>2. UNCHANGED <<touchpoint, claim, contact, suppressed, pc, at, mailed, lost, late>>
    BY <1>20 DEF BeginEdit, CommitEdit
  <2>3. QED
    BY <2>1, <2>2
<1>21. CASE DeleteCampaign
  BY <1>21 DEF DeleteCampaign
<1>22. ASSUME NEW v \in Recipients, OptOut(v) \/ ConfirmCandidate(v) \/ RejectCandidate(v)
       PROVE IInv'
  BY <1>22 DEF OptOut, ConfirmCandidate, RejectCandidate
<1>23. CASE SwitchGmail \/ TestSendCampaign \/ NextHour
  BY <1>23 DEF SwitchGmail, TestSendCampaign, NextHour
<1>24. CASE UNCHANGED vars
  BY <1>24 DEF vars
<1>25. QED
  BY <1>1, <1>2, <1>3, <1>4, <1>5, <1>6, <1>7, <1>8, <1>9, <1>10, <1>11, <1>12, <1>13, <1>14,
     <1>15, <1>16, <1>17, <1>18, <1>19, <1>20, <1>21, <1>22, <1>23, <1>24
     DEF Next, RunStep, Environment

\* IInv of CampaignSend is inductive, hence an invariant.
THEOREM Invariance == Spec => []IInv
BY IInvInit, IInvStep, PTL DEF Spec

\* Two requests never hold a message to one recipient: OneSender.
THEOREM SingleSender == Spec => []OneSender
<1>1. IInv => OneSender
  BY DEF IInv
<1>2. QED
  BY Invariance, <1>1, PTL

\* One message for each recipient, plus one for each lost outcome: OneMailPerOutcome.
THEOREM NoDoubleSend == Spec => []OneMailPerOutcome
<1>1. IInv => OneMailPerOutcome
  BY DEF IInv, TypeOK, Balanced, OneMailPerOutcome
<1>2. QED
  BY Invariance, <1>1, PTL

\* What is recorded as sent was sent: SentMeansMailed.
THEOREM SentIsTrue == Spec => []SentMeansMailed
<1>1. IInv => SentMeansMailed
  BY DEF IInv
<1>2. QED
  BY Invariance, <1>1, PTL

\* An address opted out before the loop reached it is never claimed: OptOutHonoured.
THEOREM OptOutsHold == Spec => []OptOutHonoured
<1>1. IInv => OptOutHonoured
  BY DEF IInv, LateIsSuppressed, OptOutHonoured
<1>2. QED
  BY Invariance, <1>1, PTL

\* No unconfirmed identity is mailed while candidate outreach is off: ConfirmedOnly.
THEOREM OnlyConfirmed == Spec => []ConfirmedOnly
<1>1. IInv => ConfirmedOnly
  BY DEF IInv, BusyIsConfirmed, ConfirmedOnly, Sending, Busy
<1>2. QED
  BY Invariance, <1>1, PTL

-----------------------------------------------------------------------------
(* CampaignSend implements OutreachLedger *)

LEMMA LedgerInit == Init => Ledger!Init
BY DEF Init, Ledger!Init

LEMMA LedgerStep == IInv /\ IInv' /\ [Next]_vars => [Ledger!Next]_Ledger!ledger
<1> SUFFICES ASSUME IInv, IInv', [Next]_vars PROVE [Ledger!Next]_Ledger!ledger
  OBVIOUS
<1> DEFINE recorded == {v \in Recipients : touchpoint[v] = "sent"}
\* A message in hand has no record yet.
<1>1. ASSUME NEW r \in Runs, Sending(r)
      PROVE  /\ at[r] \in Recipients
             /\ touchpoint[at[r]] # "sent"
             /\ mailed[at[r]] = IF pc[r] = "mark" THEN lost[at[r]] + 1 ELSE lost[at[r]]
             /\ mailed[at[r]] \in Nat /\ lost[at[r]] \in Nat
  BY <1>1 DEF IInv, TypeOK, BusyHasRecipient, SendersHoldRow, ClaimsAreHeld, DeletedHasNoRows,
              Balanced, Sending, Busy, Exists
\* Neither does committing or dropping a claim put anything on record.
<1>2. ASSUME NEW r \in Runs, UNCHANGED worldVars, CommitClaim(r) \/ UNCHANGED touchpoint
      PROVE  UNCHANGED Ledger!ledger
  BY <1>2 DEF IInv, TypeOK, ClaimsAreHeld, CommitClaim, DropClaim, worldVars, Ledger!ledger
<1>3. ASSUME NEW r \in Runs,
             \/ SendCampaign(r) \/ LoadForStart(r) \/ StartCampaign(r)
             \/ \E v \in Recipients : TakeRecipient(r, v)
             \/ CheckSuppression(r) \/ CheckExisting(r) \/ ReserveSlot(r) \/ ClaimRecipient(r)
             \/ TokenReady(r) \/ TokenRefused(r) \/ TokenUnreadable(r) \/ RollBack(r)
             \/ ReleaseSlot(r) \/ Finish(r)
      PROVE  UNCHANGED Ledger!ledger
  BY <1>2, <1>3 DEF SendCampaign, LoadForStart, StartCampaign, TakeRecipient, CheckSuppression,
       CheckExisting, ReserveSlot, ClaimRecipient, TokenReady, TokenRefused, TokenUnreadable,
       RollBack, ReleaseSlot, Finish, dbVars
<1>4. ASSUME NEW r \in Runs, GmailSend(r) \/ SendGridSend(r)
      PROVE  [Ledger!Next]_Ledger!ledger
  <2>1. Sending(r) /\ pc[r] # "mark" /\ UNCHANGED touchpoint
    BY <1>4 DEF GmailSend, SendGridSend, Sending, At, dbVars
  <2>2. Ledger!Unmailed(at[r]) /\ UNCHANGED recorded
    BY <1>1, <2>1 DEF Ledger!Unmailed
  <2>3. \/ UNCHANGED worldVars
        \/ Deliver(at[r]) /\ UNCHANGED lost
        \/ Deliver(at[r]) /\ Lose(at[r])
    BY <1>4 DEF GmailSend, SendGridSend
  <2>4. QED
    BY <1>1, <2>1, <2>2, <2>3 DEF Deliver, Lose, worldVars, Ledger!Next, Ledger!Mail,
       Ledger!MailUnanswered, Ledger!ledger
<1>5. ASSUME NEW r \in Runs, MarkSent(r)
      PROVE  Ledger!Next
  <2>1. Sending(r) /\ pc[r] = "mark" /\ UNCHANGED worldVars
    BY <1>5 DEF MarkSent, Sending, At
  <2>2. recorded' = recorded \union {at[r]}
    BY <1>1, <1>5, <2>1 DEF MarkSent, IInv, TypeOK
  <2>3. QED
    BY <1>1, <2>1, <2>2 DEF worldVars, Ledger!Next, Ledger!Record
<1>6. ASSUME NEW r \in Runs, MarkVanished(r) \/ Crash(r)
      PROVE  [Ledger!Next]_Ledger!ledger
  <2>1. UNCHANGED <<mailed, recorded>>
    BY <1>6 DEF MarkVanished, Crash, dbVars
  <2>2. UNCHANGED lost \/ (Sending(r) /\ pc[r] = "mark" /\ Lose(at[r]))
    BY <1>6 DEF MarkVanished, Crash, Sending, At
  <2>3. QED
    BY <1>1, <2>1, <2>2 DEF Lose, Ledger!Next, Ledger!Forget, Ledger!ledger
<1>7. CASE DeleteCampaign
  <2>1. recorded' = {}
    BY <1>7 DEF DeleteCampaign
  <2>2. QED
    BY <1>7, <2>1 DEF DeleteCampaign, worldVars, Ledger!Next, Ledger!Erase
<1>8. CASE UNCHANGED vars \/ (Environment /\ ~DeleteCampaign)
  BY <1>8 DEF Environment, OptOut, ConfirmCandidate, RejectCandidate, BeginEdit, CommitEdit,
       SwitchGmail, TestSendCampaign, NextHour, vars, dbVars, worldVars, Ledger!ledger
<1>9. QED
  BY <1>3, <1>4, <1>5, <1>6, <1>7, <1>8 DEF Next, RunStep

\* The send loop keeps the promise of OutreachLedger, whatever the interleaving: LedgerKept.
THEOREM Refinement == Spec => LedgerKept
<1>1. Spec => Ledger!Init /\ [][Ledger!Next]_Ledger!ledger
  BY LedgerInit, LedgerStep, Invariance, PTL DEF Spec
<1>2. QED
  BY <1>1 DEF LedgerKept, Ledger!Spec
=============================================================================
