----------------------------- MODULE MCOutreach -----------------------------
(***************************************************************************)
(* Instances for TLC of what decides whom a campaign mails: IdentityTier (who  *)
(* a visitor is), OptOut (who must not be mailed), EmailCap (how many messages *)
(* an hour) and Conversions (what they are credited with).  Apart from the     *)
(* rows of identified_visitors, which IdentityTier and OptOut look at from     *)
(* different sides, they share no state, so a behaviour of each is checked on  *)
(* its own: `part' says whose turn it is.                                      *)
(***************************************************************************)
EXTENDS MCIdentityTier, OptOut, EmailCap, Conversions

CONSTANTS
    MaxSent,    \* bound: messages sent on reservations of one hour
    MaxEvents   \* bound: what people ask for in OptOut, jobs and uploads begun

VARIABLES part, events

outreachVars == <<part, events, vars, begun, asked, optOutVars, capVars, conversionVars>>

OutreachInit ==
    /\ part \in {"tier", "optout", "cap", "conversions"} /\ events = 0
    /\ MCInit /\ OptOutInit /\ CapInit /\ ConversionsInit
    /\ part # "conversions" => ~goal.repeatable
    /\ part # "optout" => \A p \in Everyone : identity[p] = Absent

TierPart ==
    /\ part = "tier"
    /\ MCBegin \/ MCAsk \/ MCStep
    /\ UNCHANGED <<part, events, optOutVars, capVars, conversionVars>>

OptOutPart ==
    /\ part = "optout"
    /\ \/ events < MaxEvents /\ OptOutEvent /\ events' = events + 1
       \/ OptOutStep /\ UNCHANGED events
    /\ UNCHANGED <<part, vars, begun, asked, capVars, conversionVars>>

CapPart ==
    /\ part = "cap"
    /\ CapNext
    /\ UNCHANGED <<part, events, vars, begun, asked, optOutVars, conversionVars>>

ConversionsPart ==
    /\ part = "conversions"
    /\ ConversionsNext
    /\ UNCHANGED <<part, events, vars, begun, asked, optOutVars, capVars>>

OutreachNext == TierPart \/ OptOutPart \/ CapPart \/ ConversionsPart

OutreachSpec == OutreachInit /\ [][OutreachNext]_outreachVars

OutreachSymmetry == MCSymmetry \union Permutations(Reports)

Bounded == \A h \in Hours : sent[h] <= MaxSent /\ open[h] <= 1 /\ erased[h] <= Cap + 1
                            /\ counter[h] \in -2..(Cap + 2)
=============================================================================
