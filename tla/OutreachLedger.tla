--------------------------- MODULE OutreachLedger ---------------------------
(***************************************************************************)
(* What a campaign promises each recipient, without claims, transactions,   *)
(* mail providers or processes: at most one message, plus one more for every *)
(* message whose outcome the system never learnt, and no further message    *)
(* once one is on record.  CampaignSend implements it.                      *)
(***************************************************************************)
EXTENDS Naturals

CONSTANT Recipients      \* the members of the campaign's segment

VARIABLES
    mailed,     \* messages the recipient has been sent
    unknown,    \* those whose outcome was lost (no answer, or a crash before the record)
    recorded    \* recipients with a message on record

ledger == <<mailed, unknown, recorded>>

Init ==
    /\ mailed = [v \in Recipients |-> 0]
    /\ unknown = [v \in Recipients |-> 0]
    /\ recorded = {}

\* No message is known to have gone out.
Unmailed(v) == v \notin recorded /\ mailed[v] = unknown[v]

Mail(v) ==
    /\ Unmailed(v)
    /\ mailed' = [mailed EXCEPT ![v] = @ + 1]
    /\ UNCHANGED <<unknown, recorded>>

\* The message goes out but the sender is told, or believes, that it did not.
MailUnanswered(v) ==
    /\ Unmailed(v)
    /\ mailed' = [mailed EXCEPT ![v] = @ + 1]
    /\ unknown' = [unknown EXCEPT ![v] = @ + 1]
    /\ UNCHANGED recorded

\* The sender knew the message went out and dies before it writes that down.
Forget(v) ==
    /\ v \notin recorded
    /\ mailed[v] > unknown[v]
    /\ unknown' = [unknown EXCEPT ![v] = @ + 1]
    /\ UNCHANGED <<mailed, recorded>>

Record(v) ==
    /\ mailed[v] > unknown[v]
    /\ recorded' = recorded \union {v}
    /\ UNCHANGED <<mailed, unknown>>

\* The campaign is deleted, its records with it; the messages stay sent.
Erase ==
    /\ recorded' = {}
    /\ UNCHANGED <<mailed, unknown>>

Next ==
    \/ \E v \in Recipients : Mail(v) \/ MailUnanswered(v) \/ Forget(v) \/ Record(v)
    \/ Erase

Spec == Init /\ [][Next]_ledger
=============================================================================
