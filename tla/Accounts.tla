------------------------------ MODULE Accounts ------------------------------
(***************************************************************************)
(* One buyer's account: signing in (dependencies.get_current_user), the       *)
(* Gumroad pings that provision, renew, cancel and revoke a plan              *)
(* (routers/billing.py), and the plan in force (services/billing.py).         *)
(*                                                                          *)
(* Gumroad may deliver a ping late, out of order and more than once.  A ping  *)
(* and a sign-in look the account up in one step and write it in another.  A   *)
(* ping is matched by e-mail whatever the capitals, and stores it in lower     *)
(* case; a sign-in compares the address as Clerk spells it.  What Gumroad      *)
(* itself does is external, modelled by the pings it sends.                   *)
(***************************************************************************)
EXTENDS Integers, FiniteSets

CONSTANTS
    Accounts,       \* rows of `users' this buyer can come to have
    Hooks,          \* deliveries of pings in progress
    SignIns,        \* sign-in requests of the buyer in progress
    Period,         \* days bought by one charge
    Grace,          \* ENTITLEMENT_GRACE
    LastDay         \* bound: days are 0..LastDay

ASSUME AccountsAssumption ==
    /\ Period \in Nat \ {0}
    /\ Grace \in Nat
    /\ LastDay \in Nat

Days == 0..LastDay
NoOne == "no account"
NoDay == -1

VARIABLES
    spelt,      \* external: the buyer's address as Clerk spells it
    day,        \* the date
    account,    \* rows of `users'
    hook,       \* each delivery: the ping, and the account it found
    signIn,     \* each sign-in: the e-mail it goes by, and the account it found
    gumroad,    \* external: the subscription, the day it is paid to, pings sent
    \* history
    charged,    \* days on which the buyer was charged
    unknown     \* a sign-in went by a made-up e-mail: the profile fetch failed

accountVars == <<spelt, day, account, hook, signIn, gumroad, charged, unknown>>

PingKinds == {"sale", "cancellation", "revocation"}
Ping == [kind : PingKinds, on : Days]

\* The buyer's address: in lower case, with capitals in it.
Spellings == {"own", "Own"}
Emails == Spellings \union {"made up"}

AccountRow == [exists : BOOLEAN, email : Emails, clerk : BOOLEAN,
               plan : {"free", "paid"}, status : {"none", "active", "cancelled", "revoked"},
               until : 0..(LastDay + Period) \union {NoDay}, subscribed : BOOLEAN]

AccountsTypeOK ==
    /\ spelt \in Spellings
    /\ day \in Days
    /\ account \in [Accounts -> AccountRow]
    /\ hook \in [Hooks -> [at : {"idle", "found"}, ping : Ping,
                           who : Accounts \union {NoOne}]]
    /\ signIn \in [SignIns -> [at : {"out", "found"}, email : Emails,
                               who : Accounts \union {NoOne}]]
    /\ gumroad \in [state : {"none", "live", "cancelled", "over"},
                    paidTo : 0..(LastDay + Period), pings : SUBSET Ping]
    /\ charged \subseteq Days
    /\ unknown \in BOOLEAN

NoAccount == [exists |-> FALSE, email |-> "own", clerk |-> FALSE, plan |-> "free",
              status |-> "none", until |-> NoDay, subscribed |-> FALSE]

NoDelivery == [at |-> "idle", ping |-> [kind |-> "sale", on |-> 0], who |-> NoOne]
NoSignIn == [at |-> "out", email |-> "own", who |-> NoOne]

\* Which id a new row gets makes no difference.
Unused(rows) == CHOOSE a \in Accounts : ~rows[a].exists
Unregistered == [a \in Accounts |-> NoAccount]

AccountsInit ==
    /\ spelt \in Spellings
    /\ day = 0
    \* No account, or one registered before Clerk, in either spelling.
    /\ \/ account = Unregistered
       \/ \E email \in Spellings :
             account = [Unregistered EXCEPT
                            ![Unused(Unregistered)] = [NoAccount EXCEPT !.exists = TRUE,
                                                                        !.email = email]]
    /\ hook = [h \in Hooks |-> NoDelivery]
    /\ signIn = [i \in SignIns |-> NoSignIn]
    /\ gumroad = [state |-> "none", paidTo |-> 0, pings |-> {}]
    /\ charged = {}
    /\ unknown = FALSE

-----------------------------------------------------------------------------
(* Helpers *)

\* The accounts a lookup may return; NoOne when there is none.
OneOf(S) == IF S = {} THEN {NoOne} ELSE S
With(email) == {a \in Accounts : account[a].exists /\ account[a].email = email}
InAnyCase == UNION {With(email) : email \in Spellings}
ByClerk == {a \in Accounts : account[a].exists /\ account[a].clerk}
ById == {a \in Accounts : account[a].exists /\ account[a].subscribed}

\* INSERT; UNIQUE(email) and UNIQUE(clerk_user_id) refuse a second row.
Insertable(row) == With(row.email) = {} /\ (row.clerk => ByClerk = {})
Insert(row) == /\ \E a \in Accounts : ~account[a].exists
               /\ account' = [account EXCEPT ![Unused(account)] = row]

\* get_effective_plan
InForce(row, d) ==
    IF row.plan = "free" \/ row.until = NoDay THEN row.plan
    ELSE IF d <= row.until + Grace THEN row.plan ELSE "free"

PaidNow(a) == account[a].exists /\ InForce(account[a], day) = "paid"

-----------------------------------------------------------------------------
(* Gumroad (external) *)

NextDay ==
    /\ day < LastDay
    /\ day' = day + 1
    /\ UNCHANGED <<spelt, account, hook, signIn, gumroad, charged, unknown>>

Charge ==
    /\ \/ gumroad.state = "none"
       \/ gumroad.state = "live" /\ day + 1 >= gumroad.paidTo
    /\ day \notin charged
    /\ gumroad' = [state |-> "live", paidTo |-> day + Period,
                   pings |-> gumroad.pings \union {[kind |-> "sale", on |-> day]}]
    /\ charged' = charged \union {day}
    /\ UNCHANGED <<spelt, day, account, hook, signIn, unknown>>

\* cancelled_at is the end of the period that is paid for.
CancelAtGumroad ==
    /\ gumroad.state = "live"
    /\ gumroad.paidTo \in Days
    /\ gumroad' = [gumroad EXCEPT !.state = "cancelled",
                       !.pings = @ \union {[kind |-> "cancellation", on |-> gumroad.paidTo]}]
    /\ UNCHANGED <<spelt, day, account, hook, signIn, charged, unknown>>

\* A refund, a dispute, or the end of the subscription.
Revoke ==
    /\ gumroad.state \in {"live", "cancelled"}
    /\ gumroad' = [gumroad EXCEPT !.state = "over",
                       !.pings = @ \union {[kind |-> "revocation", on |-> day]}]
    /\ UNCHANGED <<spelt, day, account, hook, signIn, charged, unknown>>

-----------------------------------------------------------------------------
(* gumroad_webhook *)

\* _gumroad_find_user: by subscription id, else by e-mail.  Of two rows none is
\* returned: 500, and Gumroad tries again.
Found == IF ById # {} THEN ById ELSE InAnyCase
FindForPing(h, ping) ==
    /\ hook[h].at = "idle"
    /\ ping \in gumroad.pings
    /\ \A a, b \in Found : a = b
    /\ \E a \in OneOf(Found) :
          hook' = [hook EXCEPT ![h] = [at |-> "found", ping |-> ping, who |-> a]]
    /\ UNCHANGED <<spelt, day, account, signIn, gumroad, charged, unknown>>

\* Bug: a sale's period runs from the arrival of its ping.
AppliedBug(row, ping) ==
    CASE ping.kind = "sale" ->
            [row EXCEPT !.plan = "paid", !.status = "active", !.until = day + Period,
                        !.subscribed = TRUE]
      [] ping.kind = "cancellation" -> [row EXCEPT !.status = "cancelled", !.until = ping.on]
      [] ping.kind = "revocation" -> [row EXCEPT !.plan = "free", !.status = "revoked"]

\* Bug: the grace is stored with the period.
AppliedWithGrace(row, ping) ==
    CASE ping.kind = "sale" ->
            [row EXCEPT !.plan = "paid", !.status = "active", !.until = ping.on + Period + Grace,
                        !.subscribed = TRUE]
      [] ping.kind = "cancellation" -> [row EXCEPT !.status = "cancelled", !.until = ping.on]
      [] ping.kind = "revocation" -> [row EXCEPT !.plan = "free", !.status = "revoked"]

\* The UPDATE of each kind of ping; a sale's period runs from its timestamp.
Applied(row, ping) ==
    CASE ping.kind = "sale" ->
            [row EXCEPT !.plan = "paid", !.status = "active", !.until = ping.on + Period,
                        !.subscribed = TRUE]
      [] ping.kind = "cancellation" -> [row EXCEPT !.status = "cancelled", !.until = ping.on]
      [] ping.kind = "revocation" -> [row EXCEPT !.plan = "free", !.status = "revoked"]

ApplyPing(h) ==
    LET ping == hook[h].ping
        bought == [Applied(NoAccount, ping) EXCEPT !.exists = TRUE] IN
    /\ hook[h].at = "found"
    /\ IF hook[h].who # NoOne
       THEN account' = [account EXCEPT ![hook[h].who] = Applied(@, ping)]
       ELSE IF ping.kind = "sale" /\ Insertable(bought) THEN Insert(bought)
       ELSE UNCHANGED account     \* nobody to revoke; or 500, and Gumroad tries again
    /\ hook' = [hook EXCEPT ![h] = NoDelivery]
    /\ UNCHANGED <<spelt, day, signIn, gumroad, charged, unknown>>

-----------------------------------------------------------------------------
(* get_current_user *)

\* By Clerk id; else by the e-mail of the token or profile, as it is spelt, or a
\* made-up one.
FindForSignIn(i, email) ==
    /\ signIn[i].at = "out"
    /\ email \in {spelt, "made up"}
    /\ \E a \in OneOf(IF ByClerk # {} THEN ByClerk ELSE With(email)) :
          signIn' = [signIn EXCEPT ![i] = [at |-> "found", email |-> email, who |-> a]]
    /\ unknown' = (unknown \/ email = "made up")
    /\ UNCHANGED <<spelt, day, account, hook, gumroad, charged>>

\* Bug: a row found by its e-mail is not linked to Clerk.
SignedBug(a, email) == account[a]

\* Linked to Clerk; a made-up e-mail is healed unless its owner has another row.
Signed(a, email) ==
    [account[a] EXCEPT !.clerk = TRUE,
                       !.email = IF @ = "made up" /\ account[a].clerk /\ With(email) = {}
                                 THEN email ELSE @]

\* Relinking can lose to another row that took the Clerk id: 401, like a lost insert.
FinishSignIn(i) ==
    LET a == signIn[i].who
        fresh == [NoAccount EXCEPT !.exists = TRUE, !.clerk = TRUE, !.email = signIn[i].email]
    IN
    /\ signIn[i].at = "found"
    /\ signIn' = [signIn EXCEPT ![i] = NoSignIn]
    /\ IF a # NoOne
       THEN IF ByClerk \subseteq {a}
            THEN account' = [account EXCEPT ![a] = Signed(a, signIn[i].email)]
            ELSE UNCHANGED account
       ELSE IF Insertable(fresh) THEN Insert(fresh) ELSE UNCHANGED account
    /\ UNCHANGED <<spelt, day, hook, gumroad, charged, unknown>>

AccountsNext ==
    \/ NextDay \/ Charge \/ CancelAtGumroad \/ Revoke
    \/ \E h \in Hooks : ApplyPing(h) \/ \E ping \in gumroad.pings : FindForPing(h, ping)
    \/ \E i \in SignIns : FinishSignIn(i) \/ \E email \in Emails : FindForSignIn(i, email)

AccountsSpec == AccountsInit /\ [][AccountsNext]_accountVars

-----------------------------------------------------------------------------
(* Properties *)

\* Nobody has a paid plan past what they were charged for, whatever pings come
\* late, twice or out of order (get_effective_plan, the one enforcement point).
PaidForOnly ==
    \A a \in Accounts : PaidNow(a) => \E d \in charged : day <= d + Period + Grace

\* The address has two rows, one in each spelling.
SpeltTwice == \A email \in Spellings : With(email) # {}

\* A buyer who goes on signing in reaches the plan they are charged for, while the
\* subscription lives and is paid up, unless they once went by a made-up e-mail or
\* have rows in two spellings (gumroad_webhook: Clerk links to this row so the plan
\* is preserved); so two first pings of one buyer do not stand in each other's way.
PlanReached ==
    (gumroad.state = "live") ~> \/ \E a \in ByClerk : account[a].plan = "paid"
                                \/ gumroad.state # "live" \/ unknown \/ SpeltTwice

\* Gumroad delivers a sale's ping again until it is answered.
AccountsFairness ==
    /\ \A h \in Hooks : WF_accountVars(ApplyPing(h))
    /\ \A d \in Days :
          SF_accountVars(\E h \in Hooks : FindForPing(h, [kind |-> "sale", on |-> d]))
    /\ \A i \in SignIns : /\ SF_accountVars(FindForSignIn(i, spelt))
                          /\ WF_accountVars(FinishSignIn(i))
=============================================================================
