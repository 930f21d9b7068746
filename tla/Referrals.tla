----------------------------- MODULE Referrals -----------------------------
(***************************************************************************)
(* The referral program: an owner's code (routers/referrals.py, GET /me), a    *)
(* new owner's claim of one (POST /claim), and the hourly sweep that rewards   *)
(* both once the new owner's pixel has recorded events                        *)
(* (services/referral_activation.py).                                        *)
(*                                                                          *)
(* A request acts on the row that authentication loaded, and writes one        *)
(* column of it.  A sweep acts on the list it read first; each award is a      *)
(* transaction of two UPDATEs, which lock the referee's and the referrer's    *)
(* row until it commits.  The advisory lock of the sweep is left out: it stays *)
(* with a pooled connection that the session gives back at each commit, and    *)
(* may be lost with it at any time while the sweep goes on, so that any sweep  *)
(* may overlap any other.                                                     *)
(***************************************************************************)
EXTENDS Naturals, FiniteSets

CONSTANTS
    Members,        \* accounts
    Pages,          \* GET /me requests; also the codes they generate
    Claims,         \* POST /claim requests
    Activators,     \* replicas that run the sweep
    Bonus,          \* REFERRAL_BONUS_PER_ACTIVATION
    BonusCap        \* REFERRAL_BONUS_CAP

NoCode == "no code"
NoMember == "no member"

ASSUME ReferralsAssumption ==
    /\ IsFiniteSet(Members) /\ {Bonus, BonusCap} \subseteq Nat
    /\ NoMember \notin Members /\ NoCode \notin Pages

VARIABLES
    member,         \* each account: code, referrer, activated, bonus; live: its
                    \* pixel recorded events
    page, claim,    \* each request: its step, whose it is, what it loaded and found
    activator,      \* each sweep: its step, the list it read, the award in hand
    \* history
    shown,          \* codes shown to their owners, and whose they are
    met,            \* pages that ran while another page of the same member did
    payee,          \* who was paid for each member's activation
    reclaimed       \* members whose claim overwrote one committed since it had loaded the row

referralVars == <<member, page, claim, activator, shown, met, payee, reclaimed>>

Request(step) == [at |-> step, who |-> NoMember, code |-> NoCode, referrer |-> NoMember]
NoAward == [at |-> "next", pending |-> {}, referee |-> NoMember, referrer |-> NoMember]

RequestRow == [at : {"off", "open", "find", "write", "over"}, who : Members \union {NoMember},
               code : Pages \union {NoCode}, referrer : Members \union {NoMember}]

ReferralsTypeOK ==
    /\ member \in [Members -> [code : Pages \union {NoCode}, referrer : Members \union {NoMember},
                              activated : BOOLEAN, bonus : 0..BonusCap, live : BOOLEAN]]
    /\ page \in [Pages -> RequestRow] /\ claim \in [Claims -> RequestRow]
    /\ activator \in [Activators -> [at : {"next", "flip", "pay", "commit"},
                                     pending : SUBSET (Members \X Members),
                                     referee : Members \union {NoMember},
                                     referrer : Members \union {NoMember}]]
    /\ shown \subseteq Pages \X Members /\ met \subseteq Pages /\ reclaimed \subseteq Members
    /\ payee \in [Members -> Members \union {NoMember}]

ReferralsInit ==
    /\ member = [u \in Members |-> [code |-> NoCode, referrer |-> NoMember, activated |-> FALSE,
                                    bonus |-> 0, live |-> FALSE]]
    /\ page = [p \in Pages |-> Request("off")]
    /\ claim = [c \in Claims |-> Request("off")]
    /\ activator = [s \in Activators |-> NoAward]
    /\ shown = {} /\ met = {} /\ reclaimed = {}
    /\ payee = [u \in Members |-> NoMember]

\* The rows an uncommitted award has updated.
Holds(s) ==
    CASE activator[s].at = "pay" -> {activator[s].referee}
      [] activator[s].at = "commit" -> {activator[s].referee, activator[s].referrer}
      [] OTHER -> {}
Unlocked(u) == \A s \in Activators : u \notin Holds(s)
Least(m, n) == IF m < n THEN m ELSE n

-----------------------------------------------------------------------------
(* The members *)

\* The pixel's first events are stored.
GoLive(u) ==
    /\ ~member[u].live
    /\ member' = [member EXCEPT ![u].live = TRUE]
    /\ UNCHANGED <<page, claim, activator, shown, met, payee, reclaimed>>

OpenPage(p, u) ==
    /\ page[p].at = "off"
    /\ page' = [page EXCEPT ![p] = [at |-> "open", who |-> u, code |-> member[u].code,
                                    referrer |-> NoMember]]
    /\ LET open == {q \in Pages : page[q].at = "open" /\ page[q].who = u} IN
          met' = IF open = {} THEN met ELSE met \union open \union {p}
    /\ UNCHANGED <<member, claim, activator, shown, payee, reclaimed>>

\* _ensure_referral_code: the code that was loaded, else a new one is written
\* over whatever has become of the column.
EnsureCode(p) ==
    LET u == page[p].who
        old == page[p].code IN
    /\ page[p].at = "open"
    /\ \/ old # NoCode /\ UNCHANGED member
       \/ old = NoCode /\ Unlocked(u) /\ member' = [member EXCEPT ![u].code = p]
    /\ shown' = shown \union {<<IF old = NoCode THEN p ELSE old, u>>}
    /\ page' = [page EXCEPT ![p] = Request("over")]
    /\ UNCHANGED <<claim, activator, met, payee, reclaimed>>

\* claim_referral, with a code somebody was shown.
BeginClaim(c, u) ==
    /\ claim[c].at = "off"
    /\ \E s \in shown : claim' = [claim EXCEPT ![c] = [at |-> "find", who |-> u, code |-> s[1],
                                                       referrer |-> member[u].referrer]]
    /\ UNCHANGED <<member, page, activator, shown, met, payee, reclaimed>>

\* The owner of the code.  Nothing is written when there is none or it is the
\* claimant, when the row that was loaded has a referrer (a retry of the same
\* claim included), or when the account is older than CLAIM_WINDOW_DAYS, which
\* it may be at any claim here.
FindReferrer(c) ==
    LET u == claim[c].who
        found == {r \in Members \ {u} : member[r].code = claim[c].code} IN
    /\ claim[c].at = "find"
    /\ \/ /\ claim[c].referrer = NoMember
          /\ \E r \in found : claim' = [claim EXCEPT ![c].at = "write", ![c].referrer = r]
       \/ claim' = [claim EXCEPT ![c] = Request("over")]
    /\ UNCHANGED <<member, page, activator, shown, met, payee, reclaimed>>

WriteReferrer(c) ==
    LET u == claim[c].who IN
    /\ claim[c].at = "write" /\ Unlocked(u)
    /\ member' = [member EXCEPT ![u].referrer = claim[c].referrer]
    /\ reclaimed' = IF member[u].referrer = NoMember THEN reclaimed ELSE reclaimed \union {u}
    /\ claim' = [claim EXCEPT ![c] = Request("over")]
    /\ UNCHANGED <<page, activator, shown, met, payee>>

-----------------------------------------------------------------------------
(* activate_pending_referrals *)

\* A sweep begins (the one before is done) and reads its list.
ReadPending(s) ==
    /\ activator[s] = NoAward
    /\ activator' = [activator EXCEPT ![s].pending =
          {<<u, member[u].referrer>> : u \in
             {v \in Members : member[v].referrer # NoMember /\ ~member[v].activated}}]
    /\ UNCHANGED <<member, page, claim, shown, met, payee, reclaimed>>

\* _referee_has_real_events.
CheckLive(s) ==
    /\ activator[s].at = "next"
    /\ \E x \in activator[s].pending :
          activator' = [activator EXCEPT
             ![s] = [at |-> IF member[x[1]].live THEN "flip" ELSE "next",
                     pending |-> @.pending \ {x},
                     referee |-> IF member[x[1]].live THEN x[1] ELSE NoMember,
                     referrer |-> IF member[x[1]].live THEN x[2] ELSE NoMember]]
    /\ UNCHANGED <<member, page, claim, shown, met, payee, reclaimed>>

NextReferral(s) ==
    activator' = [activator EXCEPT ![s].at = "next", ![s].referee = NoMember,
                                   ![s].referrer = NoMember]

\* Bug: without WHERE referral_activated_at IS NULL.
FlipBug(s) ==
    /\ activator[s].at = "flip" /\ Unlocked(activator[s].referee)
    /\ activator' = [activator EXCEPT ![s].at = "pay"]
    /\ UNCHANGED <<member, page, claim, shown, met, payee, reclaimed>>

\* The conditional UPDATE waits for the row and then looks at what was committed.
Flip(s) ==
    /\ activator[s].at = "flip" /\ Unlocked(activator[s].referee)
    /\ IF member[activator[s].referee].activated
       THEN NextReferral(s)
       ELSE activator' = [activator EXCEPT ![s].at = "pay"]
    /\ UNCHANGED <<member, page, claim, shown, met, payee, reclaimed>>

PayReferrer(s) ==
    /\ activator[s].at = "pay" /\ Unlocked(activator[s].referrer)
    /\ activator' = [activator EXCEPT ![s].at = "commit"]
    /\ UNCHANGED <<member, page, claim, shown, met, payee, reclaimed>>

\* Both bonuses were computed on the locked rows.  The mail that follows is
\* best effort and changes nothing.
CommitAward(s) ==
    LET e == activator[s].referee
        r == activator[s].referrer
        Paid(u) == Least(member[u].bonus + Bonus, BonusCap) IN
    /\ activator[s].at = "commit"
    /\ member' = [member EXCEPT ![e].activated = TRUE, ![e].bonus = Paid(e), ![r].bonus = Paid(r)]
    /\ payee' = [payee EXCEPT ![e] = r]
    /\ NextReferral(s)
    /\ UNCHANGED <<page, claim, shown, met, reclaimed>>

\* A statement failed, timed out, or was chosen to break a deadlock: two members
\* may have referred each other, and two sweeps lock their rows crosswise.
AwardFails(s) ==
    /\ activator[s].at \in {"flip", "pay", "commit"}
    /\ NextReferral(s)
    /\ UNCHANGED <<member, page, claim, shown, met, payee, reclaimed>>

\* Rows it has updated and not committed are as they were.
ActivatorDies(s) ==
    /\ activator[s] # NoAward
    /\ activator' = [activator EXCEPT ![s] = NoAward]
    /\ UNCHANGED <<member, page, claim, shown, met, payee, reclaimed>>

ReferralsNext ==
    \/ \E u \in Members : \/ GoLive(u)
                          \/ \E p \in Pages : OpenPage(p, u)
                          \/ \E c \in Claims : BeginClaim(c, u)
    \/ \E p \in Pages : EnsureCode(p)
    \/ \E c \in Claims : FindReferrer(c) \/ WriteReferrer(c)
    \/ \E s \in Activators : \/ ReadPending(s) \/ CheckLive(s) \/ Flip(s) \/ PayReferrer(s)
                             \/ CommitAward(s) \/ AwardFails(s) \/ ActivatorDies(s)

ReferralsSpec == ReferralsInit /\ [][ReferralsNext]_referralVars

-----------------------------------------------------------------------------
(* Properties *)

\* An award pays both sides, once, whole or not at all, and never above the cap,
\* whatever sweeps overlap, fail or die (models/user.py: the conditional UPDATE
\* "is the race-proof idempotency gate").
AwardsExact ==
    \A u \in Members :
       LET own == IF member[u].activated THEN {u} ELSE {}
           referred == {e \in Members : payee[e] = u} IN
       member[u].bonus = Least(Bonus * (Cardinality(own) + Cardinality(referred)), BonusCap)

\* The one who is paid is the one the member is recorded to come from, and the
\* member is live; unless two claims of the member overlapped, when the later
\* write moves the record and the reward stays where it went.
PaidToReferrer ==
    \A e \in Members : member[e].activated =>
       member[e].live /\ (payee[e] = member[e].referrer \/ e \in reclaimed)

\* A link once shown keeps working, unless two first pages of its owner
\* overlapped: both generate a code, and the first one shown is dead.
ShownCodesStand ==
    \A s \in shown : member[s[2]].code = s[1] \/ s[1] \in met

\* Awards, their receivers and the codes of the referral program.
ReferralsSound == AwardsExact /\ PaidToReferrer /\ ShownCodesStand
=============================================================================
