----------------------------- MODULE MCOutbound -----------------------------
(***************************************************************************)
(* Instances of SocialPosting, Inactivity, AudiencePush and Referrals for TLC: *)
(* what goes out, on jobs and requests that overlap: comments on social        *)
(* platforms, e-mail to the owners, audiences on ad platforms, rewards.  They  *)
(* share no variable, so a behaviour of each is checked on its own: `part'     *)
(* says whose turn it is.                                                    *)
(***************************************************************************)
EXTENDS SocialPosting, Inactivity, AudiencePush, Referrals

CONSTANTS FirstPage, FirstClaim, FirstMember

VARIABLE part

Init ==
    /\ part \in {"posting", "owners", "audience", "referrals"}
    /\ PostingInit /\ InactivityInit /\ AudienceInit /\ ReferralsInit

Next ==
    \/ /\ part = "posting" /\ PostingNext
       /\ UNCHANGED <<part, inactivityVars, audienceVars, referralVars>>
    \/ /\ part = "owners" /\ InactivityNext
       /\ UNCHANGED <<part, postingVars, audienceVars, referralVars>>
    \/ /\ part = "audience" /\ AudienceNext
       /\ UNCHANGED <<part, postingVars, inactivityVars, referralVars>>
    \/ /\ part = "referrals" /\ ReferralsNext
       /\ UNCHANGED <<part, postingVars, inactivityVars, audienceVars>>

Spec == Init /\ [][Next]_<<part, postingVars, inactivityVars, audienceVars, referralVars>>

TypeOK == PostingTypeOK /\ InactivityTypeOK /\ AudienceTypeOK /\ ReferralsTypeOK

\* The pages, claims and members of Referrals differ in name only, so it is no
\* loss that the first page is this one and this member's, the first claim this one.
NamedInOrder ==
    /\ \A p \in Pages : page[p].at # "off" => page[FirstPage].at # "off"
    /\ \A c \in Claims : claim[c].at # "off" => claim[FirstClaim].at # "off"
    /\ page[FirstPage].who \in {FirstMember, NoMember}
=============================================================================
