--------------------------- MODULE MCCampaignSend ---------------------------
(* Instances of CampaignSend for TLC. *)
EXTENDS CampaignSend, TLC

\* Requests are interchangeable, and so are recipients.
MCSymmetry == Permutations(Runs) \union Permutations(Recipients)

\* Requests racing over several recipients of a campaign nobody edits, all
\* mailable, with Gmail connected at first: answers are lost, processes die.
RaceInit ==
    /\ Init
    /\ contact = [v \in Recipients |-> "person"]
    /\ suppressed = {}
    /\ gmailActive

\* Each request is made once, while the campaign is a draft, and may then be
\* served at any later time: after another has failed, died or finished.
RaceNext ==
    \E r \in Runs :
        \/ status = "draft" /\ LoadForStart(r)
        \/ RunStep(r)
        \/ Crash(r)

RaceSpec ==
    /\ RaceInit
    /\ [][RaceNext]_vars
    /\ \A r \in Runs : WF_vars(RunStep(r)) /\ SF_vars(ClaimRecipient(r))

\* No restarts: what a request does on its own paths.
NoCrashNext ==
    \/ \E r \in Runs : SendCampaign(r) \/ LoadForStart(r) \/ RunStep(r)
    \/ Environment

NoCrashSpec == Init /\ [][NoCrashNext]_vars
=============================================================================
