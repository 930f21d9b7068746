--------------------------- MODULE RecordsProofs ----------------------------
(***************************************************************************)
(* The records that webhooks, requests, sweeps and jobs write in turn, for any *)
(* number of each: plans, monthly usage, co-op credits, the yield marker, paid *)
(* calls and the IP tables, and the types of the composition that is          *)
(* model-checked.                                                             *)
(***************************************************************************)
EXTENDS MCRecords, FiniteSetTheorems, TLAPS

-----------------------------------------------------------------------------
(* Counting *)

\* A part of a finite set is finite and no larger.
LEMMA PartCount ==
    ASSUME NEW S, IsFiniteSet(S), NEW T, T \subseteq S
    PROVE  /\ IsFiniteSet(T) /\ Cardinality(T) \in Nat /\ Cardinality(S) \in Nat
           /\ Cardinality(T) <= Cardinality(S)
<1>1. T \in SUBSET S
    OBVIOUS
<1>2. IsFiniteSet(T) /\ Cardinality(T) <= Cardinality(S)
    BY <1>1, FS_Subset
<1> QED BY <1>2, FS_CardinalityType

\* With one more element a finite set has at most one more.
LEMMA OneMoreCount ==
    ASSUME NEW S, IsFiniteSet(S), NEW x, NEW T, T \subseteq S \union {x}
    PROVE  /\ Cardinality(T) \in Nat /\ Cardinality(S) \in Nat
           /\ Cardinality(T) <= Cardinality(S) + 1
<1>1. /\ IsFiniteSet(S \union {x}) /\ Cardinality(S) \in Nat
      /\ Cardinality(S \union {x}) <= Cardinality(S) + 1
    <2>1. Cardinality(S) \in Nat
        BY FS_CardinalityType
    <2>2. /\ IsFiniteSet(S \union {x})
          /\ Cardinality(S \union {x}) = IF x \in S THEN Cardinality(S) ELSE Cardinality(S) + 1
        BY FS_AddElement
    <2> QED BY <2>1, <2>2
<1>2. Cardinality(T) \in Nat /\ Cardinality(T) <= Cardinality(S \union {x}) /\ Cardinality(S \union {x}) \in Nat
    BY <1>1, PartCount
<1> QED BY <1>1, <1>2

\* Without one of its elements it has at least one less.
LEMMA OneLessCount ==
    ASSUME NEW S, IsFiniteSet(S), NEW x \in S, NEW T, T \subseteq S \ {x}
    PROVE  /\ Cardinality(T) \in Nat /\ Cardinality(S) \in Nat
           /\ Cardinality(T) + 1 <= Cardinality(S)
<1>1. /\ IsFiniteSet(S \ {x}) /\ Cardinality(S) \in Nat
      /\ Cardinality(S \ {x}) = Cardinality(S) - 1
    BY FS_RemoveElement, FS_CardinalityType
<1>2. Cardinality(T) \in Nat /\ Cardinality(T) <= Cardinality(S \ {x}) /\ Cardinality(S \ {x}) \in Nat
    BY <1>1, PartCount
<1> QED BY <1>1, <1>2

-----------------------------------------------------------------------------
(* Plans: each date that ends up in `until' goes back to a charge: a sale's    *)
(* through its timestamp, a cancellation's through the end of the period it    *)
(* cancels.  So late, repeated and reordered pings can only shorten a plan.   *)

\* Day d is paid for.
Bought(d) == \E c \in charged : d <= c + Period

\* A ping tells of a charge.
Backed(ping) == /\ ping.kind = "sale" => ping.on \in charged
                /\ ping.kind = "cancellation" => Bought(ping.on)

\* A paid plan ends on a day that is paid for.
Covered(row) == row.plan = "paid" => row.until # NoDay /\ Bought(row.until)

\* Why PaidForOnly holds.
PaidInv ==
    /\ AccountsTypeOK
    /\ gumroad.state \in {"live", "cancelled"} => Bought(gumroad.paidTo)
    /\ \A ping \in gumroad.pings : Backed(ping)
    /\ \A h \in Hooks : hook[h].at = "found" => Backed(hook[h].ping)
    /\ \A a \in Accounts : Covered(account[a])

-----------------------------------------------------------------------------
(* Rows *)

LEMMA NoAccountTyped == NoAccount \in AccountRow
BY AccountsAssumption DEF NoAccount, AccountRow, Emails, Spellings, NoDay

\* A ping's UPDATE makes a well typed row of one, whose paid plan is covered.
LEMMA AppliedCovered ==
    ASSUME NEW row \in AccountRow, NEW ping \in Ping, charged \subseteq Days,
           Covered(row), Backed(ping)
    PROVE  Applied(row, ping) \in AccountRow /\ Covered(Applied(row, ping))
<1> Days \subseteq Nat /\ Period \in Nat /\ LastDay \in Nat
    BY AccountsAssumption DEF Days
<1>1. CASE ping.kind = "sale"
    <2>1. Applied(row, ping) = [row EXCEPT !.plan = "paid", !.status = "active",
                                           !.until = ping.on + Period, !.subscribed = TRUE]
        BY <1>1 DEF Applied
    <2>2. ping.on \in Days /\ ping.on \in charged /\ ping.on + Period \in 0..(LastDay + Period)
        BY <1>1, AccountsAssumption DEF Ping, Backed, Days
    <2>3. Applied(row, ping) \in AccountRow
        BY <2>1, <2>2 DEF AccountRow
    <2>4. Applied(row, ping).until = ping.on + Period
        BY <2>1 DEF AccountRow
    <2>5. Bought(ping.on + Period)
        BY <2>2 DEF Bought, Days
    <2> QED BY <2>2, <2>3, <2>4, <2>5 DEF Covered, NoDay
<1>2. CASE ping.kind = "cancellation"
    <2>1. Applied(row, ping) = [row EXCEPT !.status = "cancelled", !.until = ping.on]
        BY <1>2 DEF Applied
    <2>2. ping.on \in Days /\ Bought(ping.on) /\ ping.on \in 0..(LastDay + Period)
        BY <1>2, AccountsAssumption DEF Ping, Backed, Days
    <2>3. Applied(row, ping) \in AccountRow
        BY <2>1, <2>2 DEF AccountRow
    <2>4. Applied(row, ping).until = ping.on
        BY <2>1 DEF AccountRow
    <2> QED BY <2>2, <2>3, <2>4 DEF Covered, NoDay, Days
<1>3. CASE ping.kind = "revocation"
    <2>1. Applied(row, ping) = [row EXCEPT !.plan = "free", !.status = "revoked"]
        BY <1>3 DEF Applied
    <2>2. Applied(row, ping) \in AccountRow
        BY <2>1 DEF AccountRow
    <2>3. Applied(row, ping).plan = "free"
        BY <2>1 DEF AccountRow
    <2> QED BY <2>2, <2>3 DEF Covered
<1> QED BY <1>1, <1>2, <1>3 DEF Ping, PingKinds

-----------------------------------------------------------------------------
(* The invariant *)

LEMMA PlansInitially == AccountsInit => PaidInv
<1> SUFFICES ASSUME AccountsInit PROVE PaidInv
    OBVIOUS
<1>1. \A a \in Accounts : account[a] \in AccountRow /\ account[a].plan = "free"
    <2>1. CASE account = Unregistered
        BY <2>1, NoAccountTyped DEF NoAccount, Unregistered
    <2>2. ASSUME NEW email \in Spellings,
                 account = [Unregistered EXCEPT
                                ![Unused(Unregistered)] = [NoAccount EXCEPT !.exists = TRUE,
                                                                            !.email = email]]
          PROVE  \A a \in Accounts : account[a] \in AccountRow /\ account[a].plan = "free"
        <3> DEFINE fresh == [NoAccount EXCEPT !.exists = TRUE, !.email = email]
        <3>1. fresh \in AccountRow /\ fresh.plan = "free"
            BY NoAccountTyped DEF NoAccount, AccountRow, Emails
        <3> HIDE DEF fresh
        <3>2. \A a \in Accounts : account[a] \in {fresh, NoAccount}
            BY <2>2 DEF Unregistered, fresh
        <3>3. NoAccount.plan = "free"
            BY DEF NoAccount
        <3> QED BY <3>1, <3>2, <3>3, NoAccountTyped
    <2> QED BY <2>1, <2>2 DEF AccountsInit
<1>2. account = [a \in Accounts |-> account[a]]
    BY DEF AccountsInit, Unregistered
<1>3. account \in [Accounts -> AccountRow]
    BY <1>1, <1>2
<1>4. 0 \in Days /\ 0 \in 0..(LastDay + Period)
    BY AccountsAssumption DEF Days
<1>5. AccountsTypeOK
    BY <1>3, <1>4 DEF AccountsInit, AccountsTypeOK, Ping, PingKinds, Emails, Spellings, NoDelivery, NoSignIn
<1> QED BY <1>1, <1>5 DEF PaidInv, AccountsInit, Covered, NoDelivery

\* Charges only add up, so what was covered or backed stays so.
LEMMA ChargesLast ==
    ASSUME charged \subseteq charged'
    PROVE  /\ \A d : Bought(d) => Bought(d)'
           /\ \A ping : Backed(ping) => Backed(ping)'
           /\ \A row : Covered(row) => Covered(row)'
BY DEF Bought, Backed, Covered

-----------------------------------------------------------------------------
(* Each action *)

LEMMA ChargePreserves == PaidInv /\ Charge => PaidInv'
<1> SUFFICES ASSUME PaidInv, Charge PROVE PaidInv'
    OBVIOUS
<1> Days \subseteq Nat /\ Period \in Nat /\ LastDay \in Nat /\ day \in Days
    BY AccountsAssumption DEF Days, PaidInv, AccountsTypeOK
<1>1. /\ gumroad' = [state |-> "live", paidTo |-> day + Period,
                     pings |-> gumroad.pings \union {[kind |-> "sale", on |-> day]}]
      /\ charged' = charged \union {day}
      /\ UNCHANGED <<spelt, day, account, hook, signIn, unknown>>
    BY DEF Charge
<1>2. /\ \A d : Bought(d) => Bought(d)'
      /\ \A ping : Backed(ping) => Backed(ping)'
      /\ \A row : Covered(row) => Covered(row)'
    BY <1>1, ChargesLast
<1>3. [kind |-> "sale", on |-> day] \in Ping
    BY DEF Ping, PingKinds
<1>4. day + Period \in 0..(LastDay + Period)
    BY DEF Days
<1>5. AccountsTypeOK'
    BY <1>1, <1>3, <1>4 DEF PaidInv, AccountsTypeOK
<1>6. Bought(gumroad.paidTo)'
    BY <1>1 DEF Bought
<1>7. \A ping \in gumroad'.pings : Backed(ping)'
    <2>1. Backed([kind |-> "sale", on |-> day])'
        BY <1>1 DEF Backed
    <2> QED BY <1>1, <1>2, <2>1 DEF PaidInv
<1> QED BY <1>1, <1>2, <1>5, <1>6, <1>7 DEF PaidInv

LEMMA CancelPreserves == PaidInv /\ CancelAtGumroad => PaidInv'
<1> SUFFICES ASSUME PaidInv, CancelAtGumroad PROVE PaidInv'
    OBVIOUS
<1>1. /\ gumroad' = [gumroad EXCEPT !.state = "cancelled",
                         !.pings = @ \union {[kind |-> "cancellation", on |-> gumroad.paidTo]}]
      /\ UNCHANGED <<spelt, day, account, hook, signIn, charged, unknown>>
      /\ gumroad.state = "live" /\ gumroad.paidTo \in Days
    BY DEF CancelAtGumroad
<1>2. /\ \A d : Bought(d) => Bought(d)'
      /\ \A ping : Backed(ping) => Backed(ping)'
      /\ \A row : Covered(row) => Covered(row)'
    BY <1>1, ChargesLast
<1>3. [kind |-> "cancellation", on |-> gumroad.paidTo] \in Ping
    BY <1>1 DEF Ping, PingKinds
<1>4. /\ gumroad'.pings = gumroad.pings \union {[kind |-> "cancellation", on |-> gumroad.paidTo]}
      /\ gumroad'.paidTo = gumroad.paidTo
    BY <1>1 DEF PaidInv, AccountsTypeOK
<1>5. AccountsTypeOK'
    BY <1>1, <1>3 DEF PaidInv, AccountsTypeOK
<1>6. Bought(gumroad.paidTo)'
    BY <1>1, <1>2, <1>4 DEF PaidInv
<1>7. \A ping \in gumroad'.pings : Backed(ping)'
    <2>1. Backed([kind |-> "cancellation", on |-> gumroad.paidTo])'
        BY <1>4, <1>6 DEF Backed
    <2> QED BY <1>2, <1>4, <2>1 DEF PaidInv
<1> QED BY <1>1, <1>2, <1>5, <1>6, <1>7 DEF PaidInv

LEMMA RevokePreserves == PaidInv /\ Revoke => PaidInv'
<1> SUFFICES ASSUME PaidInv, Revoke PROVE PaidInv'
    OBVIOUS
<1>1. /\ gumroad' = [gumroad EXCEPT !.state = "over",
                         !.pings = @ \union {[kind |-> "revocation", on |-> day]}]
      /\ UNCHANGED <<spelt, day, account, hook, signIn, charged, unknown>>
    BY DEF Revoke
<1>2. /\ \A ping : Backed(ping) => Backed(ping)'
      /\ \A row : Covered(row) => Covered(row)'
    BY <1>1, ChargesLast
<1>3. [kind |-> "revocation", on |-> day] \in Ping /\ Backed([kind |-> "revocation", on |-> day])
    BY DEF Ping, PingKinds, PaidInv, AccountsTypeOK, Backed
<1>4. /\ gumroad'.pings = gumroad.pings \union {[kind |-> "revocation", on |-> day]}
      /\ gumroad'.state = "over"
    BY <1>1 DEF PaidInv, AccountsTypeOK
<1>5. AccountsTypeOK'
    BY <1>1, <1>3 DEF PaidInv, AccountsTypeOK
<1> QED BY <1>1, <1>2, <1>3, <1>4, <1>5 DEF PaidInv

LEMMA FindForPingPreserves ==
    ASSUME PaidInv, NEW h \in Hooks, NEW ping \in gumroad.pings, FindForPing(h, ping)
    PROVE  PaidInv'
<1>1. PICK a \in OneOf(Found) :
          hook' = [hook EXCEPT ![h] = [at |-> "found", ping |-> ping, who |-> a]]
    BY DEF FindForPing
<1>2. UNCHANGED <<spelt, day, account, signIn, gumroad, charged, unknown>>
    BY DEF FindForPing
<1>3. a \in Accounts \union {NoOne} /\ ping \in Ping /\ Backed(ping)
    BY DEF OneOf, Found, ById, InAnyCase, With, PaidInv, AccountsTypeOK
<1>4. AccountsTypeOK'
    BY <1>1, <1>2, <1>3 DEF PaidInv, AccountsTypeOK
<1>5. \A g \in Hooks : hook'[g] = IF g = h THEN [at |-> "found", ping |-> ping, who |-> a] ELSE hook[g]
    BY <1>1 DEF PaidInv, AccountsTypeOK
<1>6. \A g \in Hooks : hook'[g].at = "found" => Backed(hook'[g].ping)
    BY <1>3, <1>5 DEF PaidInv
<1> QED BY <1>2, <1>4, <1>6 DEF PaidInv, Backed, Covered, Bought

\* A covered row written to one account.
LEMMA RowWritten ==
    ASSUME PaidInv, NEW a \in Accounts, NEW row \in AccountRow, Covered(row),
           account' = [account EXCEPT ![a] = row]
    PROVE  account' \in [Accounts -> AccountRow] /\ \A b \in Accounts : Covered(account'[b])
BY DEF PaidInv, AccountsTypeOK

LEMMA ApplyPingPreserves ==
    ASSUME PaidInv, NEW h \in Hooks, ApplyPing(h)
    PROVE  PaidInv'
<1> DEFINE ping == hook[h].ping
           bought == [Applied(NoAccount, ping) EXCEPT !.exists = TRUE]
<1>1. /\ hook[h].at = "found"
      /\ hook' = [hook EXCEPT ![h] = NoDelivery]
      /\ UNCHANGED <<spelt, day, signIn, gumroad, charged, unknown>>
    BY DEF ApplyPing
<1>2. ping \in Ping /\ Backed(ping) /\ charged \subseteq Days
    BY <1>1 DEF PaidInv, AccountsTypeOK
<1>3. Covered(NoAccount)
    BY DEF Covered, NoAccount
<1>4. bought \in AccountRow /\ Covered(bought)
    <2>1. Applied(NoAccount, ping) \in AccountRow /\ Covered(Applied(NoAccount, ping))
        BY <1>2, <1>3, NoAccountTyped, AppliedCovered
    <2> HIDE DEF ping
    <2>2. bought \in AccountRow
        BY <2>1 DEF AccountRow
    <2>3. /\ bought.plan = Applied(NoAccount, ping).plan
          /\ bought.until = Applied(NoAccount, ping).until
        BY <2>1 DEF AccountRow
    <2> QED BY <2>1, <2>2, <2>3 DEF Covered
<1>5. account' \in [Accounts -> AccountRow] /\ \A b \in Accounts : Covered(account'[b])
    <2>1. CASE hook[h].who # NoOne
        <3>1. hook[h].who \in Accounts
            BY <2>1 DEF PaidInv, AccountsTypeOK
        <3> DEFINE row == Applied(account[hook[h].who], ping)
        <3>2. account' = [account EXCEPT ![hook[h].who] = row]
            BY <2>1, <3>1 DEF ApplyPing
        <3>3. row \in AccountRow /\ Covered(row)
            BY <1>2, <3>1, AppliedCovered DEF PaidInv, AccountsTypeOK
        <3> HIDE DEF row
        <3> QED BY <3>1, <3>2, <3>3, RowWritten
    <2>2. CASE hook[h].who = NoOne /\ Insert(bought)
        <3>1. PICK a \in Accounts : account' = [account EXCEPT ![a] = bought]
            BY <2>2 DEF Insert, Unused
        <3> HIDE DEF bought
        <3> QED BY <1>4, <3>1, RowWritten
    <2>3. CASE UNCHANGED account
        BY <2>3 DEF PaidInv, AccountsTypeOK
    <2> QED BY <2>1, <2>2, <2>3 DEF ApplyPing
<1>6. /\ hook' \in [Hooks -> [at : {"idle", "found"}, ping : Ping, who : Accounts \union {NoOne}]]
      /\ \A g \in Hooks : hook'[g].at = "found" => hook[g].at = "found" /\ hook'[g].ping = hook[g].ping
    <2>1. \A g \in Hooks : hook'[g] = IF g = h THEN NoDelivery ELSE hook[g]
        BY <1>1 DEF PaidInv, AccountsTypeOK
    <2>2. /\ NoDelivery \in [at : {"idle", "found"}, ping : Ping, who : Accounts \union {NoOne}]
          /\ NoDelivery.at = "idle"
        BY AccountsAssumption DEF NoDelivery, Ping, PingKinds, Days
    <2> QED BY <1>1, <2>1, <2>2 DEF PaidInv, AccountsTypeOK
<1>7. AccountsTypeOK'
    BY <1>1, <1>5, <1>6 DEF PaidInv, AccountsTypeOK
<1> HIDE DEF ping, bought
<1>8. \A g \in Hooks : hook'[g].at = "found" => Backed(hook'[g].ping)
    BY <1>6 DEF PaidInv
<1> QED BY <1>1, <1>5, <1>7, <1>8 DEF PaidInv, Backed, Covered, Bought

LEMMA FinishSignInPreserves ==
    ASSUME PaidInv, NEW i \in SignIns, FinishSignIn(i)
    PROVE  PaidInv'
<1> DEFINE a == signIn[i].who
           email == signIn[i].email
           fresh == [NoAccount EXCEPT !.exists = TRUE, !.clerk = TRUE, !.email = email]
<1>1. UNCHANGED <<spelt, day, hook, gumroad, charged, unknown>>
    BY DEF FinishSignIn
<1>2. signIn[i] \in [at : {"out", "found"}, email : Emails, who : Accounts \union {NoOne}]
    BY DEF PaidInv, AccountsTypeOK
<1>3. fresh \in AccountRow /\ Covered(fresh)
    <2>1. email \in Emails
        BY <1>2
    <2>2. NoAccount.plan = "free"
        BY DEF NoAccount
    <2> HIDE DEF email
    <2>3. fresh \in AccountRow /\ fresh.plan = "free"
        BY <2>1, <2>2, NoAccountTyped DEF AccountRow
    <2> QED BY <2>3 DEF Covered
<1>4. account' \in [Accounts -> AccountRow] /\ \A b \in Accounts : Covered(account'[b])
    <2>1. CASE a # NoOne /\ account' = [account EXCEPT ![a] = Signed(a, email)]
        <3>1. a \in Accounts
            BY <1>2, <2>1
        <3>2. account[a] \in AccountRow /\ Covered(account[a]) /\ email \in Emails
            BY <1>2, <3>1 DEF PaidInv, AccountsTypeOK
        <3> DEFINE row == account[a]
                   healed == IF row.email = "made up" /\ row.clerk /\ With(email) = {}
                             THEN email ELSE row.email
        <3>3. Signed(a, email) = [row EXCEPT !.clerk = TRUE, !.email = healed]
            BY <3>2 DEF Signed, AccountRow
        <3>4. healed \in Emails
            BY <3>2 DEF AccountRow
        <3> HIDE DEF healed, a, email, row
        <3>5. row \in AccountRow /\ Covered(row)
            BY <3>2 DEF row
        <3>6. /\ Signed(a, email) \in AccountRow
              /\ Signed(a, email).plan = row.plan /\ Signed(a, email).until = row.until
            BY <3>3, <3>4, <3>5 DEF AccountRow
        <3>7. Covered(Signed(a, email))
            BY <3>5, <3>6 DEF Covered
        <3> QED BY <2>1, <3>1, <3>6, <3>7, RowWritten
    <2>2. CASE Insert(fresh)
        <3>1. PICK b \in Accounts : account' = [account EXCEPT ![b] = fresh]
            BY <2>2 DEF Insert, Unused
        <3> HIDE DEF fresh
        <3> QED BY <1>3, <3>1, RowWritten
    <2>3. CASE UNCHANGED account
        BY <2>3 DEF PaidInv, AccountsTypeOK
    <2> QED BY <2>1, <2>2, <2>3 DEF FinishSignIn
<1>5. signIn' \in [SignIns -> [at : {"out", "found"}, email : Emails,
                               who : Accounts \union {NoOne}]]
    <2>1. signIn' = [signIn EXCEPT ![i] = NoSignIn]
        BY DEF FinishSignIn
    <2> QED BY <2>1 DEF NoSignIn, Emails, Spellings, PaidInv, AccountsTypeOK
<1> HIDE DEF a, email, fresh
<1>6. AccountsTypeOK'
    BY <1>1, <1>4, <1>5 DEF PaidInv, AccountsTypeOK
<1> QED BY <1>1, <1>4, <1>6 DEF PaidInv, Backed, Covered, Bought

\* A step that leaves the plans, the pings and the charges alone.
LEMMA OthersPreserve ==
    ASSUME PaidInv, AccountsTypeOK', UNCHANGED <<account, hook, gumroad, charged>>
    PROVE  PaidInv'
BY DEF PaidInv, Backed, Covered, Bought

LEMMA PlansPreserved == PaidInv /\ [AccountsNext]_accountVars => PaidInv'
<1> SUFFICES ASSUME PaidInv, [AccountsNext]_accountVars PROVE PaidInv'
    OBVIOUS
<1>1. CASE NextDay
    <2>1. day' \in Days
        BY <1>1, AccountsAssumption DEF NextDay, Days, PaidInv, AccountsTypeOK
    <2> QED BY <1>1, <2>1, OthersPreserve DEF NextDay, PaidInv, AccountsTypeOK
<1>2. CASE Charge
    BY <1>2, ChargePreserves
<1>3. CASE CancelAtGumroad
    BY <1>3, CancelPreserves
<1>4. CASE Revoke
    BY <1>4, RevokePreserves
<1>5. ASSUME NEW h \in Hooks, ApplyPing(h) PROVE PaidInv'
    BY <1>5, ApplyPingPreserves
<1>6. ASSUME NEW h \in Hooks, NEW ping \in gumroad.pings, FindForPing(h, ping) PROVE PaidInv'
    BY <1>6, FindForPingPreserves
<1>7. ASSUME NEW i \in SignIns, FinishSignIn(i) PROVE PaidInv'
    BY <1>7, FinishSignInPreserves
<1>8. ASSUME NEW i \in SignIns, NEW email \in Emails, FindForSignIn(i, email) PROVE PaidInv'
    <2>1. PICK a \in OneOf(IF ByClerk # {} THEN ByClerk ELSE With(email)) :
              signIn' = [signIn EXCEPT ![i] = [at |-> "found", email |-> email, who |-> a]]
        BY <1>8 DEF FindForSignIn
    <2>2. a \in Accounts \union {NoOne}
        BY DEF OneOf, ByClerk, With
    <2>3. AccountsTypeOK'
        BY <1>8, <2>1, <2>2 DEF FindForSignIn, PaidInv, AccountsTypeOK
    <2> QED BY <1>8, <2>3, OthersPreserve DEF FindForSignIn
<1>9. CASE UNCHANGED accountVars
    BY <1>9 DEF accountVars, PaidInv, AccountsTypeOK, Backed, Covered, Bought
<1> QED BY <1>1, <1>2, <1>3, <1>4, <1>5, <1>6, <1>7, <1>8, <1>9 DEF AccountsNext

\* A plan in force today is at most the grace past a day that is paid for.
LEMMA InForceBought == PaidInv => PaidForOnly
<1> SUFFICES ASSUME PaidInv, NEW a \in Accounts, PaidNow(a)
             PROVE  \E d \in charged : day <= d + Period + Grace
    BY DEF PaidForOnly
<1> DEFINE row == account[a]
<1>1. row \in AccountRow /\ Covered(row) /\ InForce(row, day) = "paid"
    BY DEF PaidInv, AccountsTypeOK, PaidNow
<1> HIDE DEF row
<1>2. row.plan = "paid" /\ row.until # NoDay
    BY <1>1 DEF InForce, Covered
<1>3. day <= row.until + Grace
    BY <1>1, <1>2 DEF InForce
<1>4. PICK c \in charged : row.until <= c + Period
    BY <1>1, <1>2 DEF Covered, Bought
<1>5. row.until \in Nat /\ c \in Nat /\ day \in Nat
    BY <1>1, <1>2, AccountsAssumption DEF AccountRow, PaidInv, AccountsTypeOK, Days
<1> QED BY <1>3, <1>4, <1>5, AccountsAssumption

\* The inductive invariant (gumroad_webhook, get_current_user).
THEOREM PlansCovered == AccountsSpec => []PaidInv
<1> QED BY PlansInitially, PlansPreserved, PTL DEF AccountsSpec

\* Nobody has a paid plan past what they were charged for, however many accounts,
\* deliveries and sign-ins there are and whatever order pings arrive in.
THEOREM OnlyWhatWasPaid == AccountsSpec => []PaidForOnly
<1> QED BY PlansCovered, InForceBought, PTL

-----------------------------------------------------------------------------
(* Monthly usage *)

WorkerRow == [at : Steps, copy : UsageRow, batch : SUBSET Visitors, sites : SUBSET OwnSites]

\* What a check of the worker's copy compares with the limit.
Seen(w) == IF worker[w].copy.anchor \in {NoMonth, month} THEN worker[w].copy.count ELSE 0

\* Workers that the limit has let, or will let, through to one more identification.
Passing == {w \in Workers : \/ worker[w].at = "resolve"
                            \/ worker[w].at = "check" /\ worker[w].batch # {} /\ Seen(w) < Limit}

Counting == {w \in Workers : worker[w].at = "count"}

\* The row and every copy of it are anchored in this month or an earlier one, the
\* copy no later than the row; nobody identifies before the row is anchored in
\* this month; and a copy of an earlier month is left only where a reset is due
\* or was made.
Anchored ==
    /\ usage.anchor <= month
    /\ usage.anchor # month => made = 0 /\ resets = 0
    /\ \A w \in Workers :
          /\ worker[w].at \in {"resolve", "count"} => usage.anchor = month /\ worker[w].copy = NoCopy
          /\ worker[w].at = "check" =>
                /\ worker[w].copy.anchor <= usage.anchor
                /\ worker[w].copy.anchor = NoMonth => usage.anchor \in {NoMonth, month}
                /\ resets = 0 /\ usage.anchor = month => worker[w].copy.anchor \in {NoMonth, month}
    /\ usage.anchor = NoMonth => usage.count = 0

\* A click is for one visitor: it checks the limit once.
ClickOnce ==
    \A w \in Workers \ Sweepers :
       /\ \A u, v \in worker[w].batch : u = v
       /\ worker[w].at = "count" => worker[w].batch = {}

\* The identifications made and those let through stay within the limit, but for
\* the other workers.
LimitKept ==
    resets <= 1 => made + Cardinality(Passing) <= Limit + lapses + Cardinality(Workers) - 1

UsageInv == UsageTypeOK /\ Anchored /\ ClickOnce /\ CountExact /\ LimitKept

\* What a worker's row may become.
LEMMA RowsTyped ==
    ASSUME UsageTypeOK, NEW w \in Workers, NEW row \in WorkerRow, worker' = [worker EXCEPT ![w] = row]
    PROVE  worker' \in [Workers -> WorkerRow] /\ worker'[w] = row
           /\ \A v \in Workers \ {w} : worker'[v] = worker[v]
    BY DEF UsageTypeOK, WorkerRow

\* Each worker's action replaces its own row.
LEMMA WorkerMoves ==
    ASSUME UsageTypeOK, NEW w \in Workers
    PROVE  /\ StartResolutionSweep(w) => \E row \in WorkerRow :
                worker' = [worker EXCEPT ![w] = row] /\ row.at = "open" /\ row.batch = worker[w].batch
           /\ OpenSite(w) => \E row \in WorkerRow :
                worker' = [worker EXCEPT ![w] = row] /\ row.at = "read"
           /\ Click(w) => \E row \in WorkerRow, v \in Visitors :
                worker' = [worker EXCEPT ![w] = row] /\ row.at = "check" /\ row.copy = usage /\ row.batch = {v}
           /\ ReadOwner(w) => \E row \in WorkerRow :
                worker' = [worker EXCEPT ![w] = row] /\ row.at = "check" /\ row.copy = usage
                /\ row.batch = worker[w].batch
           /\ Stop(w) => \E row \in WorkerRow :
                worker' = [worker EXCEPT ![w] = row] /\ row.at \in {"off", "open"} /\ row.batch = {}
           /\ Resolve(w) => \E row \in WorkerRow, v \in worker[w].batch :
                worker' = [worker EXCEPT ![w] = row] /\ row.copy = worker[w].copy
                /\ row.batch = worker[w].batch \ {v}
                /\ \/ row.at = NextVisitor(w) /\ UNCHANGED <<known, made>>
                   \/ row.at = "count" /\ made' = made + 1 /\ known' = known \union {v}
           /\ WorkerDies(w) => \E row \in WorkerRow :
                worker' = [worker EXCEPT ![w] = row] /\ row.at = "off" /\ row.batch = {}
<1> USE DEF UsageTypeOK, WorkerRow, Steps
<1>0. NoCopy \in UsageRow
    BY DEF NoCopy, UsageRow, NoMonth
<1>1. ASSUME StartResolutionSweep(w)
      PROVE  \E row \in WorkerRow :
                worker' = [worker EXCEPT ![w] = row] /\ row.at = "open" /\ row.batch = worker[w].batch
    <2> DEFINE row == [worker[w] EXCEPT !.at = "open", !.sites = OwnSites]
    <2>1. row \in WorkerRow /\ row.at = "open" /\ row.batch = worker[w].batch
        OBVIOUS
    <2>2. worker' = [worker EXCEPT ![w] = row]
        BY <1>1 DEF StartResolutionSweep
    <2> QED BY <2>1, <2>2
<1>2. ASSUME OpenSite(w)
      PROVE  \E row \in WorkerRow : worker' = [worker EXCEPT ![w] = row] /\ row.at = "read"
    <2>0. PICK s \in worker[w].sites : \E B \in SUBSET Anonymous(s) :
             worker' = [worker EXCEPT ![w] = [at |-> "read", copy |-> NoCopy, batch |-> B,
                                              sites |-> worker[w].sites \ {s}]]
        BY <1>2 DEF OpenSite
    <2>1. PICK B \in SUBSET Anonymous(s) :
             worker' = [worker EXCEPT ![w] = [at |-> "read", copy |-> NoCopy, batch |-> B,
                                              sites |-> worker[w].sites \ {s}]]
        BY <2>0
    <2>2. [at |-> "read", copy |-> NoCopy, batch |-> B, sites |-> worker[w].sites \ {s}] \in WorkerRow
        BY <1>0 DEF Anonymous
    <2> QED BY <2>1, <2>2
<1>3. ASSUME Click(w)
      PROVE  \E row \in WorkerRow, v \in Visitors :
                worker' = [worker EXCEPT ![w] = row] /\ row.at = "check" /\ row.copy = usage /\ row.batch = {v}
    <2>1. PICK v \in Visitors \ known :
             worker' = [worker EXCEPT ![w] = [at |-> "check", copy |-> usage, batch |-> {v}, sites |-> {}]]
        BY <1>3 DEF Click
    <2>2. [at |-> "check", copy |-> usage, batch |-> {v}, sites |-> {}] \in WorkerRow
        OBVIOUS
    <2> QED BY <2>1, <2>2
<1>4. ASSUME ReadOwner(w)
      PROVE  \E row \in WorkerRow :
                worker' = [worker EXCEPT ![w] = row] /\ row.at = "check" /\ row.copy = usage
                /\ row.batch = worker[w].batch
    <2> DEFINE row == [worker[w] EXCEPT !.at = "check", !.copy = usage]
    <2>1. row \in WorkerRow /\ row.at = "check" /\ row.copy = usage /\ row.batch = worker[w].batch
        OBVIOUS
    <2>2. worker' = [worker EXCEPT ![w] = row]
        BY <1>4 DEF ReadOwner
    <2> QED BY <2>1, <2>2
<1>5. ASSUME Stop(w)
      PROVE  \E row \in WorkerRow :
                worker' = [worker EXCEPT ![w] = row] /\ row.at \in {"off", "open"} /\ row.batch = {}
    <2>1. Stopped(w) \in WorkerRow /\ Stopped(w).at \in {"off", "open"} /\ Stopped(w).batch = {}
        BY <1>0 DEF Stopped
    <2> QED BY <1>5, <2>1 DEF Stop
<1>6. ASSUME Resolve(w)
      PROVE  \E row \in WorkerRow, v \in worker[w].batch :
                worker' = [worker EXCEPT ![w] = row] /\ row.copy = worker[w].copy
                /\ row.batch = worker[w].batch \ {v}
                /\ \/ row.at = NextVisitor(w) /\ UNCHANGED <<known, made>>
                   \/ row.at = "count" /\ made' = made + 1 /\ known' = known \union {v}
    <2>1. PICK v \in worker[w].batch, step \in {NextVisitor(w), "count"} :
             /\ worker' = [worker EXCEPT ![w].at = step, ![w].batch = @ \ {v}]
             /\ \/ step = NextVisitor(w) /\ UNCHANGED <<known, made>>
                \/ step = "count" /\ made' = made + 1 /\ known' = known \union {v}
        BY <1>6 DEF Resolve
    <2> DEFINE row == [worker[w] EXCEPT !.at = step, !.batch = @ \ {v}]
    <2>2. row \in WorkerRow /\ row.at = step /\ row.copy = worker[w].copy /\ row.batch = worker[w].batch \ {v}
        BY DEF NextVisitor
    <2>3. worker' = [worker EXCEPT ![w] = row]
        BY <2>1
    <2> QED BY <2>1, <2>2, <2>3
<1>7. ASSUME WorkerDies(w)
      PROVE  \E row \in WorkerRow :
                worker' = [worker EXCEPT ![w] = row] /\ row.at = "off" /\ row.batch = {}
    <2>1. [at |-> "off", copy |-> NoCopy, batch |-> {}, sites |-> {}] \in WorkerRow
        BY <1>0
    <2> QED BY <1>7, <2>1 DEF WorkerDies
<1> QED BY <1>1, <1>2, <1>3, <1>4, <1>5, <1>6, <1>7

\* Every step keeps the types.
LEMMA UsageTypeStep == UsageTypeOK /\ [UsageNext]_usageVars => UsageTypeOK'
<1> SUFFICES ASSUME UsageTypeOK, [UsageNext]_usageVars
             PROVE  UsageTypeOK'
    OBVIOUS
<1>a. ASSUME NEW w \in Workers, NEW row \in WorkerRow, worker' = [worker EXCEPT ![w] = row],
             month' \in 0..LastMonth, usage' \in UsageRow, known' \subseteq Visitors,
             sweepLock' \in Sweepers \union {Free}, made' \in Nat, resets' \in Nat,
             lapses' \in 0..MaxLapses
      PROVE  UsageTypeOK'
    BY <1>a, RowsTyped DEF UsageTypeOK, WorkerRow
<1>b. month \in 0..LastMonth /\ usage \in UsageRow /\ known \subseteq Visitors
      /\ sweepLock \in Sweepers \union {Free} /\ made \in Nat /\ resets \in Nat
      /\ lapses \in 0..MaxLapses /\ worker \in [Workers -> WorkerRow]
    BY DEF UsageTypeOK, WorkerRow
<1>1. CASE NewMonth
    BY <1>1, <1>b, UsageAssumption DEF NewMonth, UsageTypeOK, UsageRow
<1>2. ASSUME NEW w \in Sweepers, StartResolutionSweep(w)
      PROVE  UsageTypeOK'
    <2>1. w \in Workers /\ lapses' \in 0..MaxLapses /\ sweepLock' \in Sweepers \union {Free}
        BY <1>2, <1>b, UsageAssumption DEF StartResolutionSweep, Lapse, Workers
    <2>2. PICK row \in WorkerRow : worker' = [worker EXCEPT ![w] = row]
        BY <1>2, <2>1, WorkerMoves
    <2> QED BY <1>2, <1>a, <1>b, <2>1, <2>2 DEF StartResolutionSweep
<1>3. ASSUME NEW w \in Sweepers, OpenSite(w)
      PROVE  UsageTypeOK'
    <2>1. w \in Workers
        BY DEF Workers
    <2>2. PICK row \in WorkerRow : worker' = [worker EXCEPT ![w] = row]
        BY <1>3, <2>1, WorkerMoves
    <2> QED BY <1>3, <1>a, <1>b, <2>1, <2>2 DEF OpenSite
<1>4. ASSUME NEW w \in Sweepers, ReadOwner(w)
      PROVE  UsageTypeOK'
    <2>1. w \in Workers
        BY DEF Workers
    <2>2. PICK row \in WorkerRow : worker' = [worker EXCEPT ![w] = row]
        BY <1>4, <2>1, WorkerMoves
    <2> QED BY <1>4, <1>a, <1>b, <2>1, <2>2 DEF ReadOwner
<1>5. ASSUME NEW w \in Clicks, Click(w)
      PROVE  UsageTypeOK'
    <2>1. w \in Workers
        BY DEF Workers
    <2>2. PICK row \in WorkerRow : worker' = [worker EXCEPT ![w] = row]
        BY <1>5, <2>1, WorkerMoves
    <2> QED BY <1>5, <1>a, <1>b, <2>1, <2>2 DEF Click
<1>6. ASSUME NEW w \in Workers, Check(w)
      PROVE  UsageTypeOK'
    <2>1. usage' \in UsageRow /\ resets' \in Nat
        <3>1. CASE worker[w].copy.anchor # NoMonth /\ worker[w].copy.anchor # month
            BY <1>6, <1>b, <3>1 DEF Check, UsageRow
        <3>2. CASE ~(worker[w].copy.anchor # NoMonth /\ worker[w].copy.anchor # month)
            BY <1>6, <1>b, <3>2 DEF Check, UsageRow
        <3> QED BY <3>1, <3>2
    <2>2. month' = month /\ known' = known /\ made' = made /\ lapses' = lapses
        BY <1>6 DEF Check
    <2>3. CASE worker' = [worker EXCEPT ![w].at = "resolve", ![w].copy = NoCopy] /\ UNCHANGED sweepLock
        <3> DEFINE row == [worker[w] EXCEPT !.at = "resolve", !.copy = NoCopy]
        <3>1. row \in WorkerRow
            BY <1>b DEF WorkerRow, Steps, NoCopy, UsageRow, NoMonth
        <3>2. worker' = [worker EXCEPT ![w] = row]
            BY <2>3
        <3> HIDE DEF row
        <3> QED BY <1>a, <1>b, <2>1, <2>2, <2>3, <3>1, <3>2
    <2>4. CASE Stop(w)
        <3>1. sweepLock' \in Sweepers \union {Free}
            BY <2>4, <1>b DEF Stop
        <3> QED BY <1>a, <1>b, <2>1, <2>2, <2>4, <3>1, WorkerMoves
    <2> QED BY <1>6, <2>3, <2>4 DEF Check
<1>7. ASSUME NEW w \in Workers, Finish(w)
      PROVE  UsageTypeOK'
    <2>1. sweepLock' \in Sweepers \union {Free} /\ Stop(w)
        BY <1>7, <1>b DEF Finish, Stop
    <2> QED BY <1>7, <1>a, <1>b, <2>1, WorkerMoves DEF Finish
<1>8. ASSUME NEW w \in Workers, Resolve(w)
      PROVE  UsageTypeOK'
    <2>1. PICK row \in WorkerRow, v \in worker[w].batch :
             /\ worker' = [worker EXCEPT ![w] = row]
             /\ UNCHANGED <<known, made>> \/ (made' = made + 1 /\ known' = known \union {v})
        BY <1>8, WorkerMoves
    <2>2. known' \subseteq Visitors /\ made' \in Nat
        BY <2>1, <1>b DEF WorkerRow
    <2> QED BY <1>8, <1>a, <1>b, <2>1, <2>2 DEF Resolve
<1>9. ASSUME NEW w \in Workers, Count(w) \/ CountFails(w)
      PROVE  UsageTypeOK'
    <2> DEFINE row == [worker[w] EXCEPT !.at = NextVisitor(w)]
    <2>1. row \in WorkerRow
        BY <1>b DEF WorkerRow, Steps, NextVisitor
    <2>2. worker' = [worker EXCEPT ![w] = row]
        BY <1>9 DEF Count, CountFails
    <2>3. usage' \in UsageRow /\ lapses' \in 0..MaxLapses
        BY <1>9, <1>b, UsageAssumption DEF Count, CountFails, Lapse, UsageRow
    <2> HIDE DEF row
    <2> QED BY <1>9, <1>a, <1>b, <2>1, <2>2, <2>3 DEF Count, CountFails
<1>10. ASSUME NEW w \in Workers, WorkerDies(w)
      PROVE  UsageTypeOK'
    <2>1. lapses' \in 0..MaxLapses /\ sweepLock' \in Sweepers \union {Free}
        BY <1>10, <1>b, UsageAssumption DEF WorkerDies, Lapse
    <2>2. PICK row \in WorkerRow : worker' = [worker EXCEPT ![w] = row]
        BY <1>10, <2>1, WorkerMoves
    <2> QED BY <1>10, <1>a, <1>b, <2>1, <2>2 DEF WorkerDies
<1>11. CASE UNCHANGED usageVars
    BY <1>11 DEF usageVars, UsageTypeOK
<1> QED BY <1>1, <1>2, <1>3, <1>4, <1>5, <1>6, <1>7, <1>8, <1>9, <1>10, <1>11 DEF UsageNext

\* Workers are finitely many, and so are those who pass and those who count.
LEMMA WorkersCounted ==
    ASSUME UsageTypeOK
    PROVE  /\ IsFiniteSet(Counting) /\ Cardinality(Counting) \in Nat
           /\ IsFiniteSet(Passing) /\ Cardinality(Passing) \in Nat
           /\ Cardinality(Workers) \in Nat /\ Cardinality(Workers) >= 1
           /\ Uncounted = Cardinality(Counting)
           /\ Cardinality(Passing) + Cardinality(Counting) <= Cardinality(Workers)
           /\ \A w \in Workers : worker[w].at \notin {"check", "resolve", "count"} =>
                Cardinality(Passing) + Cardinality(Counting) + 1 <= Cardinality(Workers)
           /\ Cardinality(Passing) > 0 => Limit >= 1 \/ \E w \in Workers : worker[w].at = "resolve"
<1>1. Counting \subseteq Workers /\ Passing \subseteq Workers /\ IsFiniteSet(Workers)
    BY UsageAssumption DEF Counting, Passing
<1>2. /\ IsFiniteSet(Counting) /\ Cardinality(Counting) \in Nat
      /\ IsFiniteSet(Passing) /\ Cardinality(Passing) \in Nat /\ Cardinality(Workers) \in Nat
    BY <1>1, PartCount
<1>3. Cardinality(Workers) >= 1
    <2>1. Cardinality(Workers) # 0
        BY <1>1, UsageAssumption, FS_EmptySet
    <2> QED BY <1>2, <2>1
<1>4. Passing \cap Counting = {}
    BY DEF Passing, Counting
<1>5. IsFiniteSet(Passing \union Counting) /\ Cardinality(Passing \union Counting) = Cardinality(Passing) + Cardinality(Counting)
    <2>1. /\ IsFiniteSet(Passing \union Counting)
          /\ Cardinality(Passing \union Counting) =
                Cardinality(Passing) + Cardinality(Counting) - Cardinality(Passing \cap Counting)
        BY <1>2, FS_Union
    <2> QED BY <1>2, <1>4, <2>1, FS_EmptySet
<1>6. Cardinality(Passing) + Cardinality(Counting) <= Cardinality(Workers)
    <2>1. Passing \union Counting \subseteq Workers
        BY <1>1
    <2> QED BY <1>1, <1>5, <2>1, PartCount
<1>7. ASSUME NEW w \in Workers, worker[w].at \notin {"check", "resolve", "count"}
      PROVE  Cardinality(Passing) + Cardinality(Counting) + 1 <= Cardinality(Workers)
    <2>1. Passing \union Counting \subseteq Workers \ {w}
        BY <1>7 DEF Passing, Counting
    <2> QED BY <1>1, <1>5, <2>1, OneLessCount
<1>8. ASSUME Cardinality(Passing) > 0
      PROVE  Limit >= 1 \/ \E w \in Workers : worker[w].at = "resolve"
    <2>1. Passing # {}
        BY <1>8, FS_EmptySet
    <2>2. PICK w \in Workers : worker[w].at = "resolve" \/ (worker[w].at = "check" /\ Seen(w) < Limit)
        BY <2>1 DEF Passing
    <2>3. Seen(w) \in Nat
        BY DEF Seen, UsageTypeOK, UsageRow
    <2> QED BY <2>2, <2>3, UsageAssumption
<1> QED BY <1>2, <1>3, <1>6, <1>7, <1>8 DEF Uncounted, Counting

\* A step that counts nothing and lets nobody through, and pays for each
\* identification it loses, leaves the month accounted for.
LEMMA QuietMonth ==
    ASSUME UsageInv, UsageTypeOK', UNCHANGED <<month, usage, made, resets>>,
           NEW w \in Workers, \A v \in Workers \ {w} : worker'[v] = worker[v],
           worker'[w].at \notin {"resolve", "count"},
           worker'[w].at = "check" => worker'[w].batch = {},
           \/ worker[w].at # "count" /\ lapses' \in {lapses, lapses + 1}
           \/ lapses' = lapses + 1
    PROVE  CountExact' /\ LimitKept'
<1> USE DEF UsageInv
<1>1. /\ Cardinality(Counting) \in Nat /\ Cardinality(Passing) \in Nat /\ Cardinality(Workers) \in Nat
      /\ IsFiniteSet(Counting) /\ IsFiniteSet(Passing) /\ Uncounted = Cardinality(Counting)
    BY WorkersCounted
<1>2. Passing' \subseteq Passing
    BY DEF Passing, Seen
<1>3. Cardinality(Passing') \in Nat /\ Cardinality(Passing') <= Cardinality(Passing)
    BY <1>1, <1>2, PartCount
<1>4. Counting' = Counting \ {w} /\ (worker[w].at = "count" <=> w \in Counting)
    BY DEF Counting
<1>5. /\ Cardinality(Counting') \in Nat
      /\ Cardinality(Counting') = Cardinality(Counting) - (IF worker[w].at = "count" THEN 1 ELSE 0)
    <2>1. IsFiniteSet(Counting') /\ Cardinality(Counting') = IF w \in Counting THEN Cardinality(Counting) - 1 ELSE Cardinality(Counting)
        BY <1>1, <1>4, FS_RemoveElement
    <2> QED BY <1>1, <1>4, <2>1, FS_CardinalityType
<1>6. Uncounted' = Cardinality(Counting')
    BY DEF Uncounted, Counting
<1>7. lapses \in Nat /\ made \in Nat /\ resets \in Nat /\ Limit \in Nat /\ usage.count \in Nat
    BY UsageAssumption DEF UsageTypeOK, UsageRow
<1>8. CountExact'
    BY <1>1, <1>5, <1>6, <1>7 DEF CountExact
<1>9. LimitKept'
    BY <1>1, <1>3, <1>7 DEF LimitKept
<1> QED BY <1>8, <1>9

\* A month begins with nothing made, and nobody past the check.
LEMMA MonthTurns ==
    ASSUME UsageInv, UsageTypeOK', NewMonth
    PROVE  UsageInv'
<1> USE DEF UsageInv
<1>1. Anchored'
    BY DEF Anchored, NewMonth, UsageTypeOK, UsageRow, NoMonth
<1>2. ClickOnce'
    BY DEF ClickOnce, NewMonth
<1>3. CountExact'
    BY DEF CountExact, Anchored, NewMonth, UsageTypeOK, UsageRow, NoMonth
<1>4. LimitKept'
    <2>1. /\ Cardinality(Passing') \in Nat /\ Cardinality(Passing') <= Cardinality(Workers)
          /\ Cardinality(Workers) \in Nat /\ Cardinality(Workers) >= 1
        <3>1. Passing' \subseteq Workers /\ IsFiniteSet(Workers)
            BY UsageAssumption DEF Passing
        <3> QED BY <3>1, PartCount, WorkersCounted
    <2>3. Cardinality(Passing') = 0 \/ Limit >= 1
        <3>1. CASE Passing' = {}
            BY <3>1, FS_EmptySet
        <3>2. CASE Passing' # {}
            <4>1. PICK w \in Workers : Seen(w)' < Limit
                BY <3>2 DEF Passing, NewMonth
            <4>2. Seen(w)' \in Nat
                BY DEF Seen, UsageTypeOK, UsageRow
            <4> QED BY <4>1, <4>2, UsageAssumption
        <3> QED BY <3>1, <3>2
    <2>2. made' = 0 /\ lapses' \in Nat /\ Limit \in Nat
        BY UsageAssumption DEF NewMonth, UsageTypeOK
    <2> QED BY <2>1, <2>2, <2>3 DEF LimitKept
<1> QED BY <1>1, <1>2, <1>3, <1>4

\* A worker that is not at a check, a resolution or a count leaves the rest as it was.
LEMMA QuietStep ==
    ASSUME UsageInv, UsageTypeOK', UNCHANGED <<month, usage, made, resets>>,
           NEW w \in Workers, \A v \in Workers \ {w} : worker'[v] = worker[v],
           worker'[w].at \in {"off", "open", "read"} \/ (worker'[w].at = "check" /\ worker'[w].batch = {}),
           worker'[w].at = "check" => worker[w].at \in {"resolve", "count"} /\ worker'[w].copy = worker[w].copy,
           w \notin Sweepers => worker'[w].batch \subseteq worker[w].batch,
           \/ worker[w].at # "count" /\ lapses' \in {lapses, lapses + 1}
           \/ lapses' = lapses + 1
    PROVE  UsageInv'
<1>1. CountExact' /\ LimitKept'
    BY QuietMonth
<1>2. Anchored'
    BY DEF UsageInv, Anchored, NoCopy, UsageTypeOK, UsageRow, NoMonth
<1>3. ClickOnce'
    BY DEF UsageInv, ClickOnce
<1> QED BY <1>1, <1>2, <1>3 DEF UsageInv

\* The row is copied before it is checked: a count below the limit is of this month,
\* with what was made of it, or of an earlier month, and nothing was made yet.
LEMMA CopyStep ==
    ASSUME UsageInv, UsageTypeOK', UNCHANGED <<month, usage, made, resets, lapses>>,
           NEW w \in Workers, \A v \in Workers \ {w} : worker'[v] = worker[v],
           worker[w].at \notin {"check", "resolve", "count"},
           worker'[w].at = "check", worker'[w].copy = usage,
           w \notin Sweepers => \A u, v \in worker'[w].batch : u = v
    PROVE  UsageInv'
<1> USE DEF UsageInv
<1>0. resets' = resets /\ made' = made /\ lapses' = lapses
    OBVIOUS
<1>1. Anchored'
    BY DEF Anchored, UsageTypeOK, UsageRow, NoMonth
<1>2. ClickOnce'
    BY DEF ClickOnce
<1>3. Counting' = Counting
    BY DEF Counting
<1>4. Uncounted' = Cardinality(Counting) /\ Uncounted = Cardinality(Counting)
    BY <1>3 DEF Uncounted, Counting
<1>5. CountExact'
    BY <1>4 DEF CountExact
<1>6. /\ Cardinality(Counting) \in Nat /\ Cardinality(Passing) \in Nat /\ IsFiniteSet(Passing)
      /\ Cardinality(Workers) \in Nat /\ Cardinality(Workers) >= 1
      /\ Cardinality(Passing) + Cardinality(Counting) + 1 <= Cardinality(Workers)
    BY WorkersCounted
<1>7. lapses \in Nat /\ made \in Nat /\ resets \in Nat /\ Limit \in Nat /\ usage.count \in Nat
    BY UsageAssumption DEF UsageTypeOK, UsageRow
<1>8. ASSUME Seen(w)' < Limit
      PROVE  LimitKept'
    <2>1. Passing' \subseteq Passing \union {w}
        BY DEF Passing, Seen
    <2>2. Cardinality(Passing') \in Nat /\ Cardinality(Passing') <= Cardinality(Passing) + 1
        BY <1>6, <2>1, OneMoreCount
    <2>3. CASE usage.anchor = month
        <3>1. Seen(w)' = usage.count
            BY <2>3 DEF Seen
        <3>2. resets <= 1 => made <= usage.count + Cardinality(Counting) + lapses
            BY <1>4, <2>3 DEF CountExact
        <3> QED BY <1>0, <1>6, <1>7, <1>8, <2>2, <3>1, <3>2 DEF LimitKept
    <2>4. CASE usage.anchor # month
        <3>1. made = 0
            BY <2>4 DEF Anchored
        <3>2. Seen(w)' \in Nat
            BY DEF Seen, UsageTypeOK, UsageRow
        <3> QED BY <1>0, <1>6, <1>7, <1>8, <2>2, <3>1, <3>2 DEF LimitKept
    <2> QED BY <2>3, <2>4
<1>9. ASSUME ~(Seen(w)' < Limit)
      PROVE  LimitKept'
    <2>1. Passing' \subseteq Passing
        BY <1>9 DEF Passing, Seen
    <2>2. Cardinality(Passing') \in Nat /\ Cardinality(Passing') <= Cardinality(Passing)
        BY <1>6, <2>1, PartCount
    <2> QED BY <1>0, <1>6, <1>7, <2>2 DEF LimitKept
<1> QED BY <1>1, <1>2, <1>5, <1>8, <1>9

\* The check anchors the row in this month, or resets it when the copy is of an
\* earlier one; whoever it lets through was counted as passing.
LEMMA CheckStep ==
    ASSUME UsageInv, UsageTypeOK', NEW w \in Workers, Check(w)
    PROVE  UsageInv'
<1> USE DEF UsageInv
<1> DEFINE copy == worker[w].copy
           stale == copy.anchor # NoMonth /\ copy.anchor # month
<1>1. PICK row \in WorkerRow :
         /\ worker' = [worker EXCEPT ![w] = row]
         /\ \/ row.at = "resolve" /\ row.copy = NoCopy /\ row.batch = worker[w].batch /\ Seen(w) < Limit
            \/ row.at \in {"off", "open"} /\ row.batch = {}
    <2>1. CASE Seen(w) < Limit /\ worker' = [worker EXCEPT ![w].at = "resolve", ![w].copy = NoCopy]
        <3> DEFINE r == [worker[w] EXCEPT !.at = "resolve", !.copy = NoCopy]
        <3>1. r \in WorkerRow /\ r.at = "resolve" /\ r.copy = NoCopy /\ r.batch = worker[w].batch
            BY DEF UsageTypeOK, WorkerRow, Steps, NoCopy, UsageRow, NoMonth
        <3>2. worker' = [worker EXCEPT ![w] = r]
            BY <2>1
        <3> HIDE DEF r
        <3> QED BY <2>1, <3>1, <3>2
    <2>2. CASE Stop(w)
        BY <2>2, WorkerMoves
    <2> QED BY <2>1, <2>2 DEF Check, Seen
<1>2. /\ worker'[w] = row
      /\ \A v \in Workers \ {w} : worker'[v] = worker[v]
    BY <1>1, RowsTyped
<1>3. /\ worker[w].at = "check" /\ worker[w].batch # {}
      /\ month' = month /\ made' = made /\ lapses' = lapses
      /\ stale => usage' = [count |-> 0, anchor |-> month] /\ resets' = resets + 1
      /\ ~stale => resets' = resets /\ usage' = IF copy.anchor = NoMonth THEN [usage EXCEPT !.anchor = month] ELSE usage
    BY DEF Check
<1>4. /\ usage'.anchor = month
      /\ usage'.count = (IF stale THEN 0 ELSE usage.count)
      /\ ~stale => usage.anchor \in {NoMonth, month}
    <2>1. usage \in UsageRow /\ month \in Nat /\ usage.anchor <= month /\ copy.anchor \in Int
        BY DEF UsageTypeOK, UsageRow, Anchored, NoMonth
    <2>2. copy.anchor <= usage.anchor /\ (copy.anchor = NoMonth => usage.anchor \in {NoMonth, month})
        BY <1>3 DEF Anchored
    <2>3. CASE stale
        BY <1>3, <2>3
    <2>4. CASE copy.anchor = NoMonth
        BY <1>3, <2>1, <2>2, <2>4 DEF UsageRow
    <2>5. CASE copy.anchor = month
        <3>1. usage.anchor = month
            BY <2>1, <2>2, <2>5 DEF UsageRow, NoMonth
        <3>2. usage' = usage \/ usage' = [usage EXCEPT !.anchor = month]
            BY <1>3, <2>5
        <3>3. ~stale
            BY <2>5
        <3> QED BY <2>1, <3>1, <3>2, <3>3 DEF UsageRow
    <2> QED BY <2>3, <2>4, <2>5
<1>5. stale /\ resets = 0 => usage.anchor # month
    BY <1>3 DEF Anchored
<1>6. ClickOnce'
    BY <1>1, <1>2 DEF ClickOnce
<1>7. Anchored'
    <2>1. \A v \in Workers : worker[v].at = "check" => worker[v].copy.anchor <= month
        BY DEF Anchored, UsageTypeOK, UsageRow, NoMonth
    <2>2. resets' = 0 => \A v \in Workers : worker[v].at = "check" => worker[v].copy.anchor \in {NoMonth, month}
        <3> SUFFICES ASSUME resets' = 0, NEW v \in Workers, worker[v].at = "check"
                     PROVE  worker[v].copy.anchor \in {NoMonth, month}
            OBVIOUS
        <3>1. resets = 0 /\ ~stale
            BY <1>3 DEF UsageTypeOK
        <3>2. CASE usage.anchor = month
            BY <3>1, <3>2 DEF Anchored
        <3>3. CASE usage.anchor = NoMonth
            BY <3>3 DEF Anchored, UsageTypeOK, UsageRow, NoMonth
        <3> QED BY <1>4, <3>1, <3>2, <3>3
    <2>3. month \in Nat /\ NoMonth # month
        BY DEF UsageTypeOK, NoMonth
    <2> HIDE DEF copy, stale
    <2>4. \A v \in Workers : worker'[v].at = "check" => worker[v].at = "check" /\ worker'[v].copy = worker[v].copy
        BY <1>1, <1>2
    <2>5. \A v \in Workers : worker'[v].at \in {"resolve", "count"} =>
             worker'[v].copy = NoCopy
        BY <1>1, <1>2 DEF Anchored
    <2>6. usage'.anchor <= month
        BY <1>4, <2>3
    <2> QED BY <1>3, <1>4, <2>1, <2>2, <2>3, <2>4, <2>5, <2>6 DEF Anchored
<1>8. Counting' = Counting
    BY <1>1, <1>2, <1>3 DEF Counting
<1>9. Uncounted' = Cardinality(Counting) /\ Uncounted = Cardinality(Counting)
    BY <1>8 DEF Uncounted, Counting
<1>10. /\ Cardinality(Counting) \in Nat /\ Cardinality(Passing) \in Nat /\ IsFiniteSet(Passing)
       /\ lapses \in Nat /\ made \in Nat /\ resets \in Nat /\ Limit \in Nat /\ usage.count \in Nat
    BY UsageAssumption, WorkersCounted DEF UsageTypeOK, UsageRow
<1>11. usage.anchor # month => made = 0 /\ Counting = {}
    BY DEF Anchored, Counting
<1>12. CountExact'
    <2>1. CASE usage.anchor # month
        <3>1. usage'.count = 0
            <4>1. ~stale => usage.anchor = NoMonth
                BY <1>4, <2>1
            <4> QED BY <1>4, <4>1 DEF Anchored
        <3>2. made = 0 /\ Cardinality(Counting) = 0
            BY <1>11, <2>1, FS_EmptySet
        <3> QED BY <1>3, <1>9, <1>10, <3>1, <3>2 DEF CountExact
    <2>2. CASE usage.anchor = month
        <3>1. CASE stale
            <4>1. resets' > 1
                BY <1>3, <1>5, <1>10, <2>2, <3>1
            <4> QED BY <1>3, <1>10, <3>1, <4>1 DEF CountExact
        <3>2. CASE ~stale
            BY <1>3, <1>4, <1>9, <2>2, <3>2 DEF CountExact
        <3> QED BY <3>1, <3>2
    <2> QED BY <2>1, <2>2
<1>13. LimitKept'
    <2>1. \A v \in Workers : Seen(v)' = IF worker'[v].copy.anchor \in {NoMonth, month} THEN worker'[v].copy.count ELSE 0
        BY <1>3 DEF Seen
    <2>2. Passing' \subseteq Passing
        BY <1>1, <1>2, <1>3, <2>1 DEF Passing, Seen
    <2>3. Cardinality(Passing') \in Nat /\ Cardinality(Passing') <= Cardinality(Passing)
        BY <1>10, <2>2, PartCount
    <2>4. Cardinality(Workers) \in Nat
        BY WorkersCounted
    <2>5. resets' \in Nat /\ resets <= resets'
        BY <1>3, <1>10
    <2> HIDE DEF copy, stale
    <2> QED BY <1>3, <1>10, <2>3, <2>4, <2>5 DEF LimitKept
<1> QED BY <1>6, <1>7, <1>12, <1>13

\* An identification is one fewer that may pass, and one more to count.
LEMMA ResolveStep ==
    ASSUME UsageInv, UsageTypeOK', NEW w \in Workers, Resolve(w)
    PROVE  UsageInv'
<1> USE DEF UsageInv
<1>1. PICK row \in WorkerRow, v \in worker[w].batch :
         /\ worker' = [worker EXCEPT ![w] = row] /\ row.copy = worker[w].copy
         /\ row.batch = worker[w].batch \ {v}
         /\ \/ row.at = NextVisitor(w) /\ UNCHANGED <<known, made>>
            \/ row.at = "count" /\ made' = made + 1 /\ known' = known \union {v}
    BY WorkerMoves
<1>2. /\ worker'[w] = row
      /\ \A u \in Workers \ {w} : worker'[u] = worker[u]
    BY <1>1, RowsTyped
<1>3. /\ worker[w].at = "resolve"
      /\ month' = month /\ usage' = usage /\ resets' = resets /\ lapses' = lapses
    BY DEF Resolve
<1>4. w \notin Sweepers => row.batch = {}
    BY <1>1 DEF ClickOnce
<1>5. CASE row.at = NextVisitor(w) /\ UNCHANGED <<known, made>>
    <2>1. row.at \in {"read"} \/ (row.at = "check" /\ row.batch = {})
        BY <1>4, <1>5 DEF NextVisitor
    <2> QED BY <1>1, <1>2, <1>3, <1>5, <2>1, QuietStep
<1>6. CASE row.at = "count" /\ made' = made + 1
    <2>1. ClickOnce'
        BY <1>1, <1>2, <1>4, <1>6 DEF ClickOnce
    <2>2. Anchored'
        <3>1. usage.anchor = month /\ row.copy = NoCopy
            BY <1>1, <1>3 DEF Anchored
        <3> QED BY <1>2, <1>3, <1>6, <3>1 DEF Anchored
    <2>3. Counting' = Counting \union {w} /\ w \notin Counting
        BY <1>2, <1>3, <1>6 DEF Counting
    <2>4. Passing' \subseteq Passing \ {w} /\ w \in Passing
        BY <1>2, <1>3, <1>6 DEF Passing, Seen
    <2>5. /\ Cardinality(Counting) \in Nat /\ Cardinality(Passing) \in Nat /\ IsFiniteSet(Passing)
          /\ IsFiniteSet(Counting) /\ Cardinality(Workers) \in Nat /\ Uncounted = Cardinality(Counting)
          /\ lapses \in Nat /\ made \in Nat /\ resets \in Nat /\ Limit \in Nat /\ usage.count \in Nat
        BY UsageAssumption, WorkersCounted DEF UsageTypeOK, UsageRow
    <2>6. Cardinality(Counting') = Cardinality(Counting) + 1
        BY <2>3, <2>5, FS_AddElement
    <2>7. Cardinality(Passing') \in Nat /\ Cardinality(Passing') + 1 <= Cardinality(Passing)
        BY <2>4, <2>5, OneLessCount
    <2>8. Uncounted' = Cardinality(Counting')
        BY DEF Uncounted, Counting
    <2>9. CountExact'
        BY <1>3, <1>6, <2>5, <2>6, <2>8 DEF CountExact
    <2>10. LimitKept'
        BY <1>3, <1>6, <2>5, <2>7 DEF LimitKept
    <2> QED BY <2>1, <2>2, <2>9, <2>10
<1> QED BY <1>1, <1>5, <1>6

\* The increment takes one from what is to be counted and adds one to the count.
LEMMA CountStep ==
    ASSUME UsageInv, UsageTypeOK', NEW w \in Workers, Count(w) \/ CountFails(w)
    PROVE  UsageInv'
<1> USE DEF UsageInv
<1> DEFINE row == [worker[w] EXCEPT !.at = NextVisitor(w)]
<1>1. row \in WorkerRow /\ row.at = NextVisitor(w) /\ row.batch = worker[w].batch /\ row.copy = worker[w].copy
    BY DEF UsageTypeOK, WorkerRow, Steps, NextVisitor
<1>2. worker' = [worker EXCEPT ![w] = row]
    BY DEF Count, CountFails
<1> HIDE DEF row
<1>3. /\ worker'[w] = row
      /\ \A u \in Workers \ {w} : worker'[u] = worker[u]
    BY <1>1, <1>2, RowsTyped
<1>4. /\ worker[w].at = "count"
      /\ month' = month /\ resets' = resets /\ made' = made
    BY DEF Count, CountFails
<1>5. row.at \in {"read"} \/ (row.at = "check" /\ row.batch = {})
    BY <1>1, <1>4 DEF NextVisitor, ClickOnce
<1>6. CASE CountFails(w)
    <2>1. usage' = usage /\ lapses' = lapses + 1
        BY <1>6 DEF CountFails, Lapse
    <2> QED BY <1>1, <1>3, <1>4, <1>5, <2>1, QuietStep
<1>7. CASE Count(w)
    <2>1. usage' = [usage EXCEPT !.count = @ + 1] /\ lapses' = lapses
        BY <1>7 DEF Count
    <2>2. usage'.count = usage.count + 1 /\ usage'.anchor = usage.anchor
        BY <2>1 DEF UsageTypeOK, UsageRow
    <2>3. ClickOnce'
        BY <1>1, <1>3, <1>5 DEF ClickOnce
    <2>4. Anchored'
        <3>1. usage.anchor = month /\ row.copy = NoCopy
            BY <1>1, <1>4 DEF Anchored
        <3> QED BY <1>3, <1>4, <1>5, <2>2, <3>1 DEF Anchored, NoCopy, UsageTypeOK, NoMonth
    <2>5. Counting' = Counting \ {w} /\ w \in Counting
        BY <1>3, <1>4, <1>5 DEF Counting
    <2>6. Passing' \subseteq Passing
        BY <1>3, <1>4, <1>5 DEF Passing, Seen
    <2>7. /\ Cardinality(Counting) \in Nat /\ Cardinality(Passing) \in Nat /\ IsFiniteSet(Passing)
          /\ IsFiniteSet(Counting) /\ Cardinality(Workers) \in Nat /\ Uncounted = Cardinality(Counting)
          /\ lapses \in Nat /\ made \in Nat /\ resets \in Nat /\ Limit \in Nat /\ usage.count \in Nat
        BY UsageAssumption, WorkersCounted DEF UsageTypeOK, UsageRow
    <2>8. Cardinality(Counting') = Cardinality(Counting) - 1
        BY <2>5, <2>7, FS_RemoveElement
    <2>9. Cardinality(Passing') \in Nat /\ Cardinality(Passing') <= Cardinality(Passing)
        BY <2>6, <2>7, PartCount
    <2>10. Uncounted' = Cardinality(Counting')
        BY DEF Uncounted, Counting
    <2>11. CountExact'
        BY <1>4, <2>1, <2>2, <2>7, <2>8, <2>10 DEF CountExact
    <2>12. LimitKept'
        BY <1>4, <2>1, <2>7, <2>9 DEF LimitKept
    <2> QED BY <2>3, <2>4, <2>11, <2>12
<1> QED BY <1>6, <1>7

\* No step of a sweep, a click or the calendar breaks the account of the month.
LEMMA UsageStepInv == UsageInv /\ [UsageNext]_usageVars => UsageInv'
<1> SUFFICES ASSUME UsageInv, [UsageNext]_usageVars
             PROVE  UsageInv'
    OBVIOUS
<1>0. UsageTypeOK /\ UsageTypeOK'
    BY UsageTypeStep DEF UsageInv
<1>1. CASE NewMonth
    BY <1>0, <1>1, MonthTurns
<1>2. ASSUME NEW w \in Sweepers, StartResolutionSweep(w)
      PROVE  UsageInv'
    <2>1. w \in Workers
        BY DEF Workers
    <2>2. PICK row \in WorkerRow : worker' = [worker EXCEPT ![w] = row] /\ row.at = "open" /\ row.batch = worker[w].batch
        BY <1>0, <1>2, <2>1, WorkerMoves
    <2>3. worker'[w] = row /\ \A u \in Workers \ {w} : worker'[u] = worker[u]
        BY <1>0, <2>1, <2>2, RowsTyped
    <2>4. /\ month' = month /\ usage' = usage /\ made' = made /\ resets' = resets
          /\ worker[w].at = "off" /\ lapses' \in {lapses, lapses + 1}
        BY <1>2 DEF StartResolutionSweep, Lapse
    <2> QED BY <1>0, <2>1, <2>2, <2>3, <2>4, QuietStep
<1>3. ASSUME NEW w \in Sweepers, OpenSite(w)
      PROVE  UsageInv'
    <2>1. w \in Workers
        BY DEF Workers
    <2>2. PICK row \in WorkerRow : worker' = [worker EXCEPT ![w] = row] /\ row.at = "read"
        BY <1>0, <1>3, <2>1, WorkerMoves
    <2>3. worker'[w] = row /\ \A u \in Workers \ {w} : worker'[u] = worker[u]
        BY <1>0, <2>1, <2>2, RowsTyped
    <2>4. /\ month' = month /\ usage' = usage /\ made' = made /\ resets' = resets
          /\ worker[w].at = "open" /\ lapses' = lapses
        BY <1>3 DEF OpenSite
    <2> QED BY <1>0, <2>1, <2>2, <2>3, <2>4, QuietStep
<1>4. ASSUME NEW w \in Sweepers, ReadOwner(w)
      PROVE  UsageInv'
    <2>1. w \in Workers
        BY DEF Workers
    <2>2. PICK row \in WorkerRow : worker' = [worker EXCEPT ![w] = row] /\ row.at = "check" /\ row.copy = usage
        BY <1>0, <1>4, <2>1, WorkerMoves
    <2>3. worker'[w] = row /\ \A u \in Workers \ {w} : worker'[u] = worker[u]
        BY <1>0, <2>1, <2>2, RowsTyped
    <2>4. /\ month' = month /\ usage' = usage /\ made' = made /\ resets' = resets
          /\ worker[w].at = "read" /\ lapses' = lapses
        BY <1>4 DEF ReadOwner
    <2> QED BY <1>0, <2>1, <2>2, <2>3, <2>4, CopyStep
<1>5. ASSUME NEW w \in Clicks, Click(w)
      PROVE  UsageInv'
    <2>1. w \in Workers
        BY DEF Workers
    <2>2. PICK row \in WorkerRow, v \in Visitors :
             worker' = [worker EXCEPT ![w] = row] /\ row.at = "check" /\ row.copy = usage /\ row.batch = {v}
        BY <1>0, <1>5, <2>1, WorkerMoves
    <2>3. worker'[w] = row /\ \A u \in Workers \ {w} : worker'[u] = worker[u]
        BY <1>0, <2>1, <2>2, RowsTyped
    <2>4. /\ month' = month /\ usage' = usage /\ made' = made /\ resets' = resets
          /\ worker[w].at = "off" /\ lapses' = lapses
        BY <1>5 DEF Click
    <2> QED BY <1>0, <2>1, <2>2, <2>3, <2>4, CopyStep
<1>6. ASSUME NEW w \in Workers, Check(w)
      PROVE  UsageInv'
    BY <1>0, <1>6, CheckStep
<1>7. ASSUME NEW w \in Workers, Finish(w)
      PROVE  UsageInv'
    <2>1. /\ month' = month /\ usage' = usage /\ made' = made /\ resets' = resets
          /\ worker[w].at \in {"read", "check"} /\ lapses' = lapses /\ Stop(w)
        BY <1>7 DEF Finish, NextVisitor
    <2>2. PICK row \in WorkerRow : worker' = [worker EXCEPT ![w] = row] /\ row.at \in {"off", "open"} /\ row.batch = {}
        BY <1>0, <2>1, WorkerMoves
    <2>3. worker'[w] = row /\ \A u \in Workers \ {w} : worker'[u] = worker[u]
        BY <1>0, <2>2, RowsTyped
    <2> QED BY <1>0, <2>1, <2>2, <2>3, QuietStep
<1>8. ASSUME NEW w \in Workers, Resolve(w)
      PROVE  UsageInv'
    BY <1>0, <1>8, ResolveStep
<1>9. ASSUME NEW w \in Workers, Count(w) \/ CountFails(w)
      PROVE  UsageInv'
    BY <1>0, <1>9, CountStep
<1>10. ASSUME NEW w \in Workers, WorkerDies(w)
      PROVE  UsageInv'
    <2>1. /\ month' = month /\ usage' = usage /\ made' = made /\ resets' = resets
          /\ lapses' = lapses + 1
        BY <1>10 DEF WorkerDies, Lapse
    <2>2. PICK row \in WorkerRow : worker' = [worker EXCEPT ![w] = row] /\ row.at = "off" /\ row.batch = {}
        BY <1>0, <1>10, WorkerMoves
    <2>3. worker'[w] = row /\ \A u \in Workers \ {w} : worker'[u] = worker[u]
        BY <1>0, <2>2, RowsTyped
    <2> QED BY <1>0, <2>1, <2>2, <2>3, QuietStep
<1>11. CASE UNCHANGED usageVars
    BY <1>11 DEF usageVars, UsageInv, UsageTypeOK, Anchored, ClickOnce, CountExact, Uncounted, LimitKept,
          Passing, Seen
<1> QED BY <1>1, <1>2, <1>3, <1>4, <1>5, <1>6, <1>7, <1>8, <1>9, <1>10, <1>11 DEF UsageNext

\* A month begins with no usage.
LEMMA UsageInitInv == UsageInit => UsageInv
<1> SUFFICES ASSUME UsageInit
             PROVE  UsageInv
    OBVIOUS
<1>1. UsageTypeOK
    BY UsageAssumption DEF UsageInit, UsageTypeOK, UsageRow, Steps, NoCopy, NoMonth
<1>2. Anchored /\ ClickOnce
    BY DEF UsageInit, Anchored, ClickOnce, NoMonth
<1>3. Passing = {} /\ Counting = {}
    BY DEF UsageInit, Passing, Counting
<1>4. Cardinality(Passing) = 0 /\ Uncounted = 0 /\ Cardinality(Workers) \in Nat /\ Cardinality(Workers) >= 1
    BY <1>1, <1>3, FS_EmptySet, WorkersCounted
<1>5. CountExact /\ LimitKept
    BY <1>4, UsageAssumption DEF UsageInit, CountExact, LimitKept
<1> QED BY <1>1, <1>2, <1>5 DEF UsageInv

\* The inductive invariant of the month: what was identified and what the limit has
\* let through stay within it, but for the other workers (services/billing.py).
THEOREM MonthInvariance == UsageSpec => []UsageInv
    BY UsageInitInv, UsageStepInv, PTL DEF UsageSpec

\* The counter is the number of identifications made, less those not yet counted or
\* lost, and goes past the limit by one for each other worker at most, for any limit
\* and any number of sweeps, clicks and visitors.
THEOREM MonthIsAccounted == UsageSpec => []MonthAccounted
<1>1. UsageInv => MonthAccounted
    <2> SUFFICES ASSUME UsageInv PROVE MonthAccounted
        OBVIOUS
    <2>1. Cardinality(Passing) \in Nat /\ Cardinality(Workers) \in Nat
        BY WorkersCounted DEF UsageInv
    <2> QED BY <2>1, UsageAssumption
            DEF UsageInv, UsageTypeOK, LimitKept, MonthAccounted, OverrunBounded
<1> QED BY <1>1, MonthInvariance, PTL

-----------------------------------------------------------------------------
(* Co-op credits *)

\* A transaction that holds the key of uq_coop_accrued_site_email: there is one
\* for a person, and no accrued event of that person has been committed.
CreditExclusive ==
    /\ \A r, s \in Resolves :
          tx[r].at = "credit" /\ tx[s].at = "credit" /\ tx[r].person = tx[s].person => r = s
    /\ \A r \in Resolves : tx[r].at = "credit" =>
          \A e \in events : e.accrued => e.person # tx[r].person

\* Lots and accrued events are committed together, one of each for a person; a lot
\* whose event a deletion of the site left behind is gone with it.
LotsBacked ==
    /\ \A r \in lots : tx[r].at = "over"
    /\ \A r, s \in lots : tx[r].person = tx[s].person => r = s
    /\ \A r \in lots : \E e \in events : e.accrued /\ e.person = tx[r].person
    /\ \A e \in events : e.accrued => e.person \in split \/ \E r \in lots : e.person = tx[r].person

\* A sweep that has inserted the EXPIRE of a lot is alone in that and the lot has
\* none yet; the lot of a statement is there, or was when the deletion caught it.
ExpireExclusive ==
    /\ \A x, y \in Expirers :
          expirer[x].at = "commit" /\ expirer[y].at = "commit" /\ x # y => expirer[x].lot # expirer[y].lot
    /\ \A x \in Expirers : expirer[x].at = "commit" => expires[expirer[x].lot] = 0
    /\ \A x \in Expirers : expirer[x].at \in {"place", "commit"} => expirer[x].lot \in lots \union caught

\* What LedgerSound says of the EXPIRE rows.
ExpiredOnce == \A r \in Resolves : expires[r] <= 1 /\ (expires[r] = 1 => r \in lots \union caught)

\* A deletion takes rows that are there, the events first.
RemovalOrdered ==
    /\ removal.at = "events" => removal = NoRemoval
    /\ removal.events \subseteq events /\ removal.lots \subseteq lots
    /\ removal.at = "ledger" => removal.lots = {} /\ removal.expires = {}

\* The lot of an event that a deletion takes is taken with it, and a lot is taken
\* without its event only between the two statements.
CreditsTaken ==
    /\ removal.at = "ledger" =>
          \A e \in events \ removal.events : e.accrued => e.person \in split
    /\ removal.at = "commit" =>
          /\ \A r \in lots, e \in removal.events :
                e.accrued /\ e.person = tx[r].person => r \in removal.lots
          /\ \A e \in events \ removal.events : e.accrued =>
                e.person \in split \/ \E r \in lots \ removal.lots : e.person = tx[r].person

\* An EXPIRE that outlives its lot belongs to a statement that the deletion caught.
ExpiresTaken ==
    /\ \A x \in Expirers : expirer[x].at = "commit" => expirer[x].lot \notin removal.expires
    /\ removal.at = "commit" =>
          /\ \A x \in Expirers : expirer[x].at \in {"place", "commit"} =>
                expirer[x].lot \in (lots \ removal.lots) \union caught
          /\ \A l \in Resolves : expires[l] = 1 =>
                l \in removal.expires \union (lots \ removal.lots) \union caught

CoopInv ==
    /\ CoopTypeOK /\ CreditExclusive /\ LotsBacked /\ ExpireExclusive /\ ExpiredOnce
    /\ RemovalOrdered /\ CreditsTaken /\ ExpiresTaken

-----------------------------------------------------------------------------

\* A site starts with neither table.
LEMMA CoopInitInv == CoopInit => CoopInv
<1> SUFFICES ASSUME CoopInit
             PROVE  CoopInv
    OBVIOUS
<1> USE CoopAssumption DEF CoopInit
<1>1. PICK p \in Persons : tx = [r \in Resolves |-> [at |-> "off", person |-> p, day |-> 0]]
    OBVIOUS
<1>2. PICK l \in Resolves : expirer = [x \in Expirers |-> [at |-> "off", left |-> {}, lot |-> l]]
    OBVIOUS
<1>3. /\ date = 0 /\ events = {} /\ lots = {} /\ expires = [r \in Resolves |-> 0]
      /\ removal = NoRemoval /\ caught = {} /\ split = {} /\ deaths = 0
    OBVIOUS
<1> HIDE DEF CoopInit
<1>4. CoopTypeOK
    BY <1>1, <1>2, <1>3 DEF CoopTypeOK, NoRemoval
<1>5. CreditExclusive /\ LotsBacked /\ RemovalOrdered /\ CreditsTaken
    BY <1>1, <1>3 DEF CreditExclusive, LotsBacked, RemovalOrdered, CreditsTaken, NoRemoval
<1>6. ExpireExclusive /\ ExpiredOnce /\ ExpiresTaken
    BY <1>2, <1>3 DEF ExpireExclusive, ExpiredOnce, ExpiresTaken, NoRemoval
<1> QED
    BY <1>4, <1>5, <1>6 DEF CoopInv

\* A transaction that moves on, other than to "credit", and commits at most an
\* event without credit, leaves the ledger as it is.
LEMMA TxMoves ==
    ASSUME CoopInv, NEW r \in Resolves, r \notin lots,
           NEW row \in [at : {"event", "over"}, person : Persons, day : 0..LastDate],
           tx' = [tx EXCEPT ![r] = row],
           events' = events \/ \E e \in Event : ~e.accrued /\ events' = events \union {e},
           UNCHANGED lots, UNCHANGED removal, UNCHANGED split
    PROVE  CreditExclusive' /\ LotsBacked' /\ RemovalOrdered' /\ CreditsTaken'
<1>1. \A q \in Resolves : tx'[q].at = "credit" => tx'[q] = tx[q]
    BY DEF CoopInv, CoopTypeOK
<1>2. \A q \in lots : tx'[q] = tx[q]
    BY DEF CoopInv, CoopTypeOK
<1>3. (\A e \in events : e \in events') /\ (\A e \in events' : e.accrued => e \in events)
    OBVIOUS
<1>4. CreditExclusive'
    BY <1>1, <1>3 DEF CoopInv, CreditExclusive
<1>5. LotsBacked'
    BY <1>2, <1>3 DEF CoopInv, LotsBacked
<1>6. RemovalOrdered'
    BY <1>3 DEF CoopInv, RemovalOrdered
<1>7. CreditsTaken'
    BY <1>2, <1>3 DEF CoopInv, CreditsTaken
<1> QED
    BY <1>4, <1>5, <1>6, <1>7

\* So does a transaction that commits its event without credit.
LEMMA CommitsUncredited ==
    ASSUME CoopInv, NEW r \in Resolves, tx[r].at = "event", CommitEvent(r, FALSE),
           UNCHANGED lots, UNCHANGED removal, UNCHANGED split
    PROVE  /\ CreditExclusive' /\ LotsBacked' /\ RemovalOrdered' /\ CreditsTaken'
           /\ events' \subseteq Event
           /\ tx' \in [Resolves -> [at : {"off", "event", "credit", "over"}, person : Persons,
                                   day : 0..LastDate]]
<1>1. r \notin lots
    BY DEF CoopInv, LotsBacked
<1>2. PICK row \in [at : {"event", "over"}, person : Persons, day : 0..LastDate] :
         tx' = [tx EXCEPT ![r] = row]
    BY DEF CommitEvent, TxGoto, CoopInv, CoopTypeOK
<1>3. PICK e \in Event : ~e.accrued /\ events' = events \union {e}
    BY DEF CommitEvent, CoopInv, CoopTypeOK, Event
<1>4. CreditExclusive' /\ LotsBacked' /\ RemovalOrdered' /\ CreditsTaken'
    BY <1>1, <1>2, <1>3, TxMoves
<1> QED
    BY <1>2, <1>3, <1>4 DEF CoopInv, CoopTypeOK

\* What the sweeps did stands while nothing they read or write changes.
LEMMA ExpiresStand ==
    ASSUME CoopInv, UNCHANGED expires, UNCHANGED expirer, UNCHANGED removal, UNCHANGED caught,
           lots \subseteq lots'
    PROVE  ExpireExclusive' /\ ExpiredOnce' /\ ExpiresTaken'
    BY DEF CoopInv, ExpireExclusive, ExpiredOnce, ExpiresTaken

\* What the contributions did stands while nothing they read or write changes.
LEMMA CreditsStand ==
    ASSUME CoopInv, UNCHANGED events, UNCHANGED lots, UNCHANGED tx, UNCHANGED removal, UNCHANGED split
    PROVE  CreditExclusive' /\ LotsBacked' /\ RemovalOrdered' /\ CreditsTaken'
    BY DEF CoopInv, CreditExclusive, LotsBacked, RemovalOrdered, CreditsTaken

ExpirerRows == [at : {"off", "next", "insert", "place", "commit"}, left : SUBSET Resolves,
                lot : Resolves]

\* A sweep that moves on, other than to "place" and "commit", claims no lot.
LEMMA ExpirerMoves ==
    ASSUME CoopInv, NEW x \in Expirers,
           NEW row \in ExpirerRows, row.at \in {"off", "next", "insert"},
           expirer' = [expirer EXCEPT ![x] = row],
           UNCHANGED expires, UNCHANGED lots, caught \subseteq caught', UNCHANGED removal
    PROVE  /\ ExpireExclusive' /\ ExpiredOnce' /\ ExpiresTaken'
           /\ expirer' \in [Expirers -> ExpirerRows]
<1>1. \A y \in Expirers : expirer'[y].at \in {"place", "commit"} => expirer'[y] = expirer[y]
    BY DEF CoopInv, CoopTypeOK
<1>2. ExpireExclusive' /\ ExpiredOnce' /\ ExpiresTaken'
    BY <1>1 DEF CoopInv, ExpireExclusive, ExpiredOnce, ExpiresTaken
<1>3. expirer \in [Expirers -> ExpirerRows]
    BY DEF CoopInv, CoopTypeOK, ExpirerRows
<1> QED
    BY <1>2, <1>3

\* The statements of record_contribution keep the invariant.
LEMMA ContributionKeeps ==
    ASSUME CoopInv, NEW r \in Resolves,
           \/ \E p \in Persons : InsertEvent(r, p)
           \/ Exclude(r) \/ Accrue(r) \/ CommitCredit(r) \/ ContributionFails(r)
    PROVE  CoopInv'
<1> USE CoopAssumption DEF CoopInv, CoopTypeOK
<1>1. ASSUME NEW p \in Persons, InsertEvent(r, p)
      PROVE  CoopInv'
    <2>1. r \notin lots
        BY <1>1 DEF InsertEvent, LotsBacked
    <2>2. PICK row \in [at : {"event", "over"}, person : Persons, day : 0..LastDate] :
             tx' = [tx EXCEPT ![r] = row]
        <3> DEFINE row(at) == [at |-> at, person |-> p, day |-> date]
        <3>1. \E at \in {"event", "over"} : tx' = [tx EXCEPT ![r] = row(at)]
            BY <1>1 DEF InsertEvent
        <3>2. \A at \in {"event", "over"} : row(at) \in [at : {"event", "over"}, person : Persons, day : 0..LastDate]
            OBVIOUS
        <3> QED BY <3>1, <3>2
    <2>3. /\ UNCHANGED date /\ UNCHANGED events /\ UNCHANGED lots /\ UNCHANGED expires
          /\ UNCHANGED expirer /\ UNCHANGED removal /\ UNCHANGED caught /\ UNCHANGED split
          /\ UNCHANGED deaths
        BY <1>1 DEF InsertEvent
    <2>4. CreditExclusive' /\ LotsBacked' /\ RemovalOrdered' /\ CreditsTaken'
        BY <2>1, <2>2, <2>3, TxMoves
    <2>5. ExpireExclusive' /\ ExpiredOnce' /\ ExpiresTaken'
        BY <2>3, ExpiresStand
    <2>6. CoopTypeOK'
        BY <2>2, <2>3
    <2> QED BY <2>4, <2>5, <2>6
<1>2. CASE Exclude(r)
    <2>1. /\ UNCHANGED date /\ UNCHANGED lots /\ UNCHANGED expires
          /\ UNCHANGED expirer /\ UNCHANGED removal /\ UNCHANGED caught /\ UNCHANGED split
          /\ UNCHANGED deaths
        BY <1>2 DEF Exclude
    <2>2. tx[r].at = "event" /\ CommitEvent(r, FALSE)
        BY <1>2 DEF Exclude
    <2>3. ExpireExclusive' /\ ExpiredOnce' /\ ExpiresTaken'
        BY <2>1, ExpiresStand
    <2> QED BY <2>1, <2>2, <2>3, CommitsUncredited
<1>3. CASE Accrue(r)
    <2>1. /\ UNCHANGED date /\ UNCHANGED lots /\ UNCHANGED expires
          /\ UNCHANGED expirer /\ UNCHANGED removal /\ UNCHANGED caught /\ UNCHANGED split
          /\ UNCHANGED deaths
        BY <1>3 DEF Accrue
    <2>2. tx[r].at = "event" /\ \A s \in Resolves : tx[s].at = "credit" => tx[s].person # tx[r].person
        BY <1>3 DEF Accrue
    <2>3. ExpireExclusive' /\ ExpiredOnce' /\ ExpiresTaken'
        BY <2>1, ExpiresStand
    <2>4. CASE CommitEvent(r, FALSE)
        BY <2>1, <2>2, <2>3, <2>4, CommitsUncredited
    <2>5. CASE ~(\E e \in events : e.person = tx[r].person /\ e.accrued)
        <3>1. tx' = [tx EXCEPT ![r].at = "credit"] /\ UNCHANGED events
            BY <1>3, <2>5 DEF Accrue, TxGoto
        <3>2. CreditExclusive' /\ LotsBacked' /\ RemovalOrdered' /\ CreditsTaken'
            BY <2>1, <2>2, <2>5, <3>1
               DEF CreditExclusive, LotsBacked, RemovalOrdered, CreditsTaken
        <3>3. tx' \in [Resolves -> [at : {"off", "event", "credit", "over"}, person : Persons,
                                    day : 0..LastDate]]
            BY <3>1
        <3>4. CoopTypeOK'
            BY <2>1, <3>1, <3>3
        <3> QED BY <2>3, <3>2, <3>4
    <2> QED BY <1>3, <2>4, <2>5 DEF Accrue
<1>4. CASE CommitCredit(r)
    <2> DEFINE event == [person |-> tx[r].person, day |-> tx[r].day, accrued |-> TRUE]
    <2>1. /\ tx[r].at = "credit" /\ event \in Event /\ event.accrued /\ event.person = tx[r].person
          /\ tx' = [tx EXCEPT ![r].at = "over"]
          /\ events' = events \union {event} /\ lots' = lots \union {r}
        BY <1>4 DEF CommitCredit, CommitEvent, TxGoto, Event
    <2>2. /\ UNCHANGED date /\ UNCHANGED expires /\ UNCHANGED expirer /\ UNCHANGED removal
          /\ UNCHANGED caught /\ UNCHANGED deaths
        BY <1>4 DEF CommitCredit
    <2>3. /\ split \subseteq split' /\ split' \subseteq Persons
          /\ removal.at = "ledger" => tx[r].person \in split'
        BY <1>4 DEF CommitCredit
    <2>4. \A e \in events : e.accrued => e.person # tx[r].person
        BY <2>1 DEF CreditExclusive
    <2> HIDE DEF event
    <2>5. CoopTypeOK'
        BY <2>1, <2>2, <2>3
    <2>6. \A q \in Resolves : tx'[q].person = tx[q].person /\ (q # r => tx'[q] = tx[q]) /\ tx'[r].at = "over"
        BY <2>1
    <2>7. (\A q \in lots : tx[q].person # tx[r].person) /\ r \notin lots
        BY <2>1, <2>4 DEF LotsBacked
    <2>8. CreditExclusive'
        <3>1. \A q \in Resolves : tx'[q].at = "credit" => q # r /\ tx'[q] = tx[q]
            BY <2>6
        <3>2. \A q \in Resolves : tx[q].at = "credit" /\ q # r => tx[q].person # tx[r].person
            BY <2>1 DEF CreditExclusive
        <3> QED BY <2>1, <3>1, <3>2 DEF CreditExclusive
    <2>9. LotsBacked'
        BY <2>1, <2>3, <2>6, <2>7 DEF LotsBacked
    <2>10. RemovalOrdered'
        BY <2>1, <2>2 DEF RemovalOrdered
    <2>11. CreditsTaken'
        <3>1. event \notin removal.events
            BY <2>1, <2>4 DEF RemovalOrdered
        <3>2. r \notin removal.lots
            BY <2>7 DEF RemovalOrdered
        <3>3. removal.at = "ledger" =>
                 \A e \in events' \ removal.events : e.accrued => e.person \in split'
            BY <2>1, <2>3 DEF CreditsTaken
        <3>4. removal.at = "commit" =>
                 \A q \in lots', e \in removal.events :
                    e.accrued /\ e.person = tx'[q].person => q \in removal.lots
            BY <2>1, <2>4, <2>6 DEF CreditsTaken, RemovalOrdered
        <3>5. removal.at = "commit" =>
                 \A e \in events' \ removal.events : e.accrued =>
                    e.person \in split' \/ \E q \in lots' \ removal.lots : e.person = tx'[q].person
            BY <2>1, <2>3, <2>6, <3>2 DEF CreditsTaken
        <3> QED BY <2>2, <3>3, <3>4, <3>5 DEF CreditsTaken
    <2>12. ExpireExclusive' /\ ExpiredOnce' /\ ExpiresTaken'
        BY <2>1, <2>2, ExpiresStand
    <2> QED BY <2>5, <2>8, <2>9, <2>10, <2>11, <2>12
<1>5. CASE ContributionFails(r)
    <2>1. r \notin lots
        BY <1>5 DEF ContributionFails, LotsBacked
    <2>2. PICK row \in [at : {"event", "over"}, person : Persons, day : 0..LastDate] :
             tx' = [tx EXCEPT ![r] = row]
        BY <1>5 DEF ContributionFails, TxGoto
    <2>3. /\ UNCHANGED date /\ UNCHANGED events /\ UNCHANGED lots /\ UNCHANGED expires
          /\ UNCHANGED expirer /\ UNCHANGED removal /\ UNCHANGED caught /\ UNCHANGED split
          /\ deaths' \in 0..MaxDeaths
        BY <1>5 DEF ContributionFails
    <2>4. CreditExclusive' /\ LotsBacked' /\ RemovalOrdered' /\ CreditsTaken'
        BY <2>1, <2>2, <2>3, TxMoves
    <2>5. ExpireExclusive' /\ ExpiredOnce' /\ ExpiresTaken'
        BY <2>3, ExpiresStand
    <2>6. CoopTypeOK'
        BY <2>2, <2>3
    <2> QED BY <2>4, <2>5, <2>6
<1> QED
    BY <1>1, <1>2, <1>3, <1>4, <1>5

\* The statements of a sweep keep it.
LEMMA ExpiryKeeps ==
    ASSUME CoopInv, NEW x \in Expirers,
           \/ SelectLapsed(x) \/ NextLot(x) \/ InsertExpire(x) \/ PlaceExpire(x)
           \/ CommitExpire(x) \/ ExpireFails(x)
    PROVE  CoopInv'
<1> USE CoopAssumption DEF CoopInv, CoopTypeOK
<1> DEFINE Waiting == {row \in ExpirerRows : row.at \in {"off", "next", "insert"}}
<1>1. /\ UNCHANGED date /\ UNCHANGED events /\ UNCHANGED lots /\ UNCHANGED tx
      /\ UNCHANGED removal /\ UNCHANGED split /\ deaths' \in 0..MaxDeaths
      /\ caught \subseteq caught' /\ caught' \subseteq Resolves
    BY DEF SelectLapsed, NextLot, InsertExpire, PlaceExpire, CommitExpire, ExpireFails
<1>2. CreditExclusive' /\ LotsBacked' /\ RemovalOrdered' /\ CreditsTaken'
    BY <1>1, CreditsStand
<1>3. expirer \in [Expirers -> ExpirerRows]
    BY DEF ExpirerRows
<1>4. ASSUME NEW row \in Waiting, expirer' = [expirer EXCEPT ![x] = row], UNCHANGED expires
      PROVE  CoopInv'
    <2>1. /\ ExpireExclusive' /\ ExpiredOnce' /\ ExpiresTaken'
          /\ expirer' \in [Expirers -> ExpirerRows]
        BY <1>1, <1>4, ExpirerMoves
    <2> QED BY <1>1, <1>2, <1>4, <2>1 DEF ExpirerRows
<1> HIDE DEF Waiting
<1>5. CASE SelectLapsed(x)
    <2>1. PICK row \in Waiting : expirer' = [expirer EXCEPT ![x] = row]
        BY <1>5 DEF SelectLapsed, Waiting, ExpirerRows
    <2> QED BY <1>4, <1>5, <2>1 DEF SelectLapsed
<1>6. CASE NextLot(x)
    <2>1. PICK row \in Waiting : expirer' = [expirer EXCEPT ![x] = row]
        BY <1>6 DEF NextLot, ExpirerGoto, Waiting, ExpirerRows
    <2> QED BY <1>4, <1>6, <2>1 DEF NextLot
<1>7. CASE ExpireFails(x)
    <2>1. PICK step \in {"next", "off"} : expirer' = [expirer EXCEPT ![x].at = step]
        BY <1>7 DEF ExpireFails, ExpirerGoto
    <2> DEFINE row == [expirer[x] EXCEPT !.at = step]
    <2>2. row \in Waiting
        BY <1>3 DEF Waiting, ExpirerRows
    <2>3. expirer' = [expirer EXCEPT ![x] = row]
        BY <1>3, <2>1
    <2> HIDE DEF row
    <2> QED BY <1>4, <1>7, <2>2, <2>3 DEF ExpireFails
<1>8. CASE InsertExpire(x)
    <2>1. CASE expirer[x].lot \in lots
        <3>1. expirer' = [expirer EXCEPT ![x].at = "place"] /\ UNCHANGED expires
            BY <1>8, <2>1 DEF InsertExpire, ExpirerGoto
        <3>2. expirer[x].lot \in removal.lots => expirer[x].lot \in caught'
            BY <1>8 DEF InsertExpire
        <3>3. \A y \in Expirers : y # x => expirer'[y] = expirer[y]
            BY <3>1
        <3>4. expirer'[x].at = "place" /\ expirer'[x].lot = expirer[x].lot
            BY <3>1
        <3>5. ExpireExclusive'
            BY <1>1, <2>1, <3>1, <3>3, <3>4 DEF ExpireExclusive
        <3>6. ExpiredOnce'
            BY <1>1, <3>1 DEF ExpiredOnce
        <3>7. ExpiresTaken'
            BY <1>1, <2>1, <3>1, <3>2, <3>3, <3>4 DEF ExpiresTaken
        <3>8. CoopTypeOK'
            BY <1>1, <3>1
        <3> QED BY <1>2, <3>5, <3>6, <3>7, <3>8
    <2>2. CASE expirer[x].lot \notin lots
        <3> DEFINE row == [expirer[x] EXCEPT !.at = "next"]
        <3>1. expirer' = [expirer EXCEPT ![x] = row] /\ UNCHANGED expires
            BY <1>8, <2>2 DEF InsertExpire, ExpirerGoto
        <3>2. row \in Waiting
            BY <1>3 DEF Waiting, ExpirerRows
        <3> HIDE DEF row
        <3> QED BY <1>4, <3>1, <3>2
    <2> QED BY <2>1, <2>2
<1>9. CASE PlaceExpire(x)
    <2> DEFINE lot == expirer[x].lot
    <2>1. CASE expires[lot] = 0
        <3>1. /\ expirer' = [expirer EXCEPT ![x].at = "commit"] /\ UNCHANGED expires /\ UNCHANGED caught
              /\ expirer[x].at = "place" /\ lot \notin removal.expires
              /\ \A y \in Expirers : expirer[y].at = "commit" => expirer[y].lot # lot
            BY <1>9, <2>1 DEF PlaceExpire, ExpirerGoto
        <3>2. \A y \in Expirers : y # x => expirer'[y] = expirer[y]
            BY <3>1
        <3>3. expirer'[x].at = "commit" /\ expirer'[x].lot = lot
            BY <3>1
        <3>4. ExpireExclusive'
            BY <1>1, <2>1, <3>1, <3>2, <3>3 DEF ExpireExclusive
        <3>5. ExpiredOnce'
            BY <1>1, <3>1 DEF ExpiredOnce
        <3>6. ExpiresTaken'
            BY <1>1, <3>1, <3>2, <3>3 DEF ExpiresTaken
        <3>7. CoopTypeOK'
            BY <1>1, <3>1
        <3> QED BY <1>2, <3>4, <3>5, <3>6, <3>7
    <2>2. CASE expires[lot] # 0
        <3> DEFINE row == [expirer[x] EXCEPT !.at = "next"]
        <3>1. expirer' = [expirer EXCEPT ![x] = row] /\ UNCHANGED expires
            BY <1>9, <2>2 DEF PlaceExpire, ExpirerGoto
        <3>2. row \in Waiting
            BY <1>3 DEF Waiting, ExpirerRows
        <3> HIDE DEF row
        <3> QED BY <1>4, <3>1, <3>2
    <2> QED BY <2>1, <2>2
<1>10. CASE CommitExpire(x)
    <2> DEFINE lot == expirer[x].lot
    <2>1. /\ expirer[x].at = "commit" /\ lot \in Resolves /\ lot \in lots \union caught
          /\ expires[lot] = 0 /\ lot \notin removal.expires
          /\ removal.at = "commit" => lot \in (lots \ removal.lots) \union caught
        BY <1>10 DEF CommitExpire, ExpireExclusive, ExpiresTaken
    <2>2. /\ expires' = [expires EXCEPT ![lot] = 1] /\ UNCHANGED caught
          /\ expirer' = [expirer EXCEPT ![x].at = "next"]
        BY <1>10, <2>1 DEF CommitExpire, ExpirerGoto
    <2>3. /\ \A y \in Expirers : expirer'[y].at \in {"place", "commit"} => expirer'[y] = expirer[y]
          /\ \A y \in Expirers : expirer'[y].at = "commit" => expirer[y].lot # lot
        BY <2>1, <2>2 DEF ExpireExclusive
    <2> HIDE DEF lot
    <2>4. CoopTypeOK'
        BY <1>1, <2>2
    <2>5. \A l \in Resolves : l # lot => expires'[l] = expires[l]
        BY <2>2
    <2>6. ExpireExclusive'
        BY <1>1, <2>2, <2>3, <2>5 DEF ExpireExclusive
    <2>7. ExpiredOnce'
        BY <1>1, <2>1, <2>2 DEF ExpiredOnce
    <2>8. ExpiresTaken'
        BY <1>1, <2>1, <2>2, <2>3, <2>5 DEF ExpiresTaken
    <2> QED BY <1>2, <2>4, <2>6, <2>7, <2>8
<1> QED
    BY <1>5, <1>6, <1>7, <1>8, <1>9, <1>10

\* The statements of the delete, its commit and its rollback keep it.
LEMMA RemovalKeeps ==
    ASSUME CoopInv, DeleteEvents \/ DeleteLedger \/ CommitDelete \/ RollbackDelete
    PROVE  CoopInv'
<1> USE CoopAssumption DEF CoopInv, CoopTypeOK
<1>1. CASE DeleteEvents
    <2>1. /\ removal' = [removal EXCEPT !.at = "ledger", !.events = events]
          /\ removal = NoRemoval /\ UNCHANGED date /\ UNCHANGED events /\ UNCHANGED lots
          /\ UNCHANGED expires /\ UNCHANGED tx /\ UNCHANGED expirer /\ UNCHANGED caught
          /\ UNCHANGED split /\ UNCHANGED deaths
        BY <1>1 DEF DeleteEvents, RemovalOrdered
    <2>2. /\ removal'.at = "ledger" /\ removal'.events = events
          /\ removal'.lots = {} /\ removal'.expires = {}
        BY <2>1 DEF NoRemoval
    <2>3. CoopTypeOK'
        BY <2>1 DEF NoRemoval
    <2> QED BY <2>1, <2>2, <2>3 DEF CreditExclusive, LotsBacked, ExpireExclusive, ExpiredOnce,
               RemovalOrdered, CreditsTaken, ExpiresTaken
<1>2. CASE DeleteLedger
    <2> DEFINE having == {l \in Resolves : expires[l] > 0}
               busy == {y \in Expirers : expirer[y].at \in {"place", "commit"}}
    <2>1. /\ removal' = [removal EXCEPT !.at = "commit", !.lots = lots, !.expires = having]
          /\ removal.at = "ledger" /\ UNCHANGED date /\ UNCHANGED events /\ UNCHANGED lots
          /\ UNCHANGED expires /\ UNCHANGED tx /\ UNCHANGED expirer /\ UNCHANGED split
          /\ UNCHANGED deaths /\ caught' = caught \union {expirer[x].lot : x \in busy}
        BY <1>2 DEF DeleteLedger
    <2>2. /\ removal'.at = "commit" /\ removal'.events = removal.events
          /\ removal'.lots = lots /\ removal'.expires = having
        BY <2>1
    <2>3. caught \subseteq caught' /\ caught' \subseteq Resolves
          /\ \A x \in busy : expirer[x].lot \in caught'
        BY <2>1
    <2>4. CoopTypeOK'
        <3>1. having \subseteq Resolves
            OBVIOUS
        <3> HIDE DEF having
        <3> QED BY <2>1, <2>3, <3>1
    <2>5. CreditExclusive' /\ LotsBacked' /\ RemovalOrdered'
        BY <2>1, <2>2 DEF CreditExclusive, LotsBacked, RemovalOrdered
    <2>6. CreditsTaken'
        BY <2>1, <2>2 DEF CreditsTaken
    <2>7. ExpireExclusive' /\ ExpiredOnce'
        BY <2>1, <2>3 DEF ExpireExclusive, ExpiredOnce
    <2>8. ExpiresTaken'
        BY <2>1, <2>2, <2>3 DEF ExpiresTaken, ExpireExclusive
    <2> QED BY <2>4, <2>5, <2>6, <2>7, <2>8
<1>3. CASE CommitDelete
    <2>1. /\ removal.at = "commit" /\ removal' = NoRemoval
          /\ events' = events \ removal.events /\ lots' = lots \ removal.lots
          /\ expires' = [l \in Resolves |-> IF l \in removal.expires THEN 0 ELSE expires[l]]
          /\ UNCHANGED date /\ UNCHANGED tx /\ UNCHANGED expirer /\ UNCHANGED caught
          /\ UNCHANGED split /\ UNCHANGED deaths
        BY <1>3 DEF CommitDelete
    <2>2. \A l \in Resolves : expires'[l] = 0 \/ (l \notin removal.expires /\ expires'[l] = expires[l])
        BY <2>1
    <2>3. CoopTypeOK'
        <3>1. expires' \in [Resolves -> Nat]
            BY <2>1
        <3> QED BY <2>1, <3>1 DEF NoRemoval
    <2>4. CreditExclusive'
        BY <2>1 DEF CreditExclusive
    <2>5. LotsBacked'
        BY <2>1 DEF LotsBacked, CreditsTaken
    <2>6. ExpireExclusive'
        BY <2>1, <2>2 DEF ExpireExclusive, ExpiresTaken
    <2>7. ExpiredOnce'
        BY <2>1, <2>2 DEF ExpiredOnce, ExpiresTaken
    <2>8. RemovalOrdered' /\ CreditsTaken' /\ ExpiresTaken'
        BY <2>1 DEF RemovalOrdered, CreditsTaken, ExpiresTaken, NoRemoval
    <2> QED BY <2>3, <2>4, <2>5, <2>6, <2>7, <2>8
<1>4. CASE RollbackDelete
    <2>1. /\ removal' = NoRemoval /\ UNCHANGED date /\ UNCHANGED events /\ UNCHANGED lots
          /\ UNCHANGED expires /\ UNCHANGED tx /\ UNCHANGED expirer /\ UNCHANGED caught
          /\ UNCHANGED split /\ UNCHANGED deaths
        BY <1>4 DEF RollbackDelete
    <2>2. CoopTypeOK'
        BY <2>1 DEF NoRemoval
    <2>3. CreditExclusive' /\ LotsBacked' /\ ExpireExclusive' /\ ExpiredOnce'
        BY <2>1 DEF CreditExclusive, LotsBacked, ExpireExclusive, ExpiredOnce
    <2>4. RemovalOrdered' /\ CreditsTaken' /\ ExpiresTaken'
        BY <2>1 DEF RemovalOrdered, CreditsTaken, ExpiresTaken, NoRemoval
    <2> QED BY <2>2, <2>3, <2>4
<1> QED
    BY <1>1, <1>2, <1>3, <1>4

\* Every step keeps the invariant.
LEMMA CoopStepInv == CoopInv /\ [CoopNext]_coopVars => CoopInv'
<1> SUFFICES ASSUME CoopInv, [CoopNext]_coopVars
             PROVE  CoopInv'
    OBVIOUS
<1>1. CASE NextDate
    <2>1. /\ date' \in 0..LastDate /\ UNCHANGED events /\ UNCHANGED lots /\ UNCHANGED expires
          /\ UNCHANGED tx /\ UNCHANGED expirer /\ UNCHANGED removal /\ UNCHANGED caught
          /\ UNCHANGED split /\ UNCHANGED deaths
        BY <1>1, CoopAssumption DEF NextDate, CoopInv, CoopTypeOK
    <2> QED BY <2>1, ExpiresStand, CreditsStand DEF CoopInv, CoopTypeOK
<1>2. CASE UNCHANGED coopVars
    BY <1>2, ExpiresStand, CreditsStand DEF coopVars, CoopInv, CoopTypeOK
<1> QED
    BY <1>1, <1>2, ContributionKeeps, ExpiryKeeps, RemovalKeeps DEF CoopNext

\* The inductive invariant of the ledger: one transaction credits a person and one
\* expires a lot (services/identity_coop.py).
THEOREM CreditAndExpiryExclusive == CoopSpec => []CoopInv
    BY CoopInitInv, CoopStepInv, PTL DEF CoopSpec

\* One credit for a person, backed by its event; one EXPIRE for a lot, and none without
\* its ACCRUE but for one whose statement overlapped the deletion of the site, for any
\* number of resolves and sweeps (services/identity_coop.py, routers/sites.py).
THEOREM LedgerKept == CoopSpec => []LedgerSound
<1>1. CoopInv => LedgerSound
    BY DEF CoopInv, LotsBacked, ExpiredOnce, LedgerSound
<1> QED
    BY <1>1, CreditAndExpiryExclusive, PTL

-----------------------------------------------------------------------------
(* The yield marker of the aggregation *)

LEMMA KeysInit == Init => KeysInv
BY KeysAssumption DEF Init, KeysInv, TypeOK, MarkerCleared

LEMMA KeysStep == KeysInv /\ [Next]_vars => KeysInv'
<1> SUFFICES ASSUME KeysInv, [Next]_vars PROVE KeysInv'
  OBVIOUS
<1> USE KeysAssumption DEF KeysInv, TypeOK, MarkerCleared, IngestGoto, SweepGoto, RedisFails, RedisAnswers,
            MarkerTTL, Patience
<1>1. ASSUME NEW c \in Containers, CheckMarker(c) \/ FinishIngest(c) PROVE KeysInv'
  BY <1>1 DEF CheckMarker, FinishIngest
<1>2. ASSUME NEW c \in Containers, AcquireIngest(c) PROVE KeysInv'
  BY <1>2 DEF AcquireIngest
<1>3. ASSUME NEW c \in Containers, BeginPass(c) \/ EndOfPass(c) \/ GiveUp(c) \/ FinishRecompute(c)
      PROVE  KeysInv'
  BY <1>3 DEF BeginPass, EndOfPass, GiveUp, FinishRecompute
\* Without a fault the job goes on to run, and clears the marker afterwards.
<1>4. ASSUME NEW c \in Containers, TryAcquire(c) PROVE KeysInv'
  <2>1. TypeOK'
    BY <1>4 DEF TryAcquire, Leave, Recompute
  <2>2. faults' = 0 => sweep'[c] = "run"
    BY <1>4 DEF TryAcquire, Recompute
  <2>3. QED
    BY <2>1, <2>2
<1>5. ASSUME NEW c \in Containers, FirstTry(c) \/ Poll(c) PROVE KeysInv'
  BY <1>4, <1>5 DEF FirstTry, Poll
<1>6. ASSUME NEW c \in Containers, Defer(c) PROVE KeysInv'
  BY <1>6 DEF Defer
<1>7. ASSUME NEW c \in Containers, ReleaseMarker(c) PROVE KeysInv'
  BY <1>7 DEF ReleaseMarker, Leave
<1>8. ASSUME NEW c \in Containers, Restart(c) PROVE KeysInv'
  BY <1>8 DEF Restart
<1>9. CASE Tick
  <2>1. \A n \in Nat : Minus1(n) \in Nat /\ (n = 0 => Minus1(n) = 0)
    BY DEF Minus1
  <2>2. QED
    BY <1>9, <2>1 DEF Tick
<1>10. CASE UNCHANGED vars
  BY <1>10 DEF vars
<1>11. QED
  BY <1>1, <1>2, <1>3, <1>5, <1>6, <1>7, <1>8, <1>9, <1>10 DEF Next, IngestStep, SweepStep

\* However many sweeps contend for a site, and delete each other's marker, none
\* leaves one behind unless Redis failed or a process died: KeysInv.
THEOREM NoMarkerLeft == Spec => []KeysInv
BY KeysInit, KeysStep, PTL DEF Spec

-----------------------------------------------------------------------------
(* Paid calls *)

\* The steps of a call between its claim of the row and its mark.
Holding == {"handle", "settle", "settled"} \union Failures

\* The row is a lock: one call holds it, while it is "pending", and only a call
\* that died leaves it held by none.
ClaimHeld ==
    /\ \A c, d \in Calls : call[c] \in Holding /\ call[d] \in Holding => c = d
    /\ \A c \in Calls : call[c] \in Holding => paid = "pending"
    /\ paid = "pending" => (\E c \in Calls : call[c] \in Holding) \/ died > 0

\* What the facilitator was paid for and reported is one settlement: none before a
\* call reaches "settled", and the holder's own while the row is "pending".
ChargeHeld ==
    /\ charges = lost \/ charges = lost + 1
    /\ paid = "settled" => charges = lost + 1
    /\ \A c \in Calls : call[c] = "settled" => charges = lost + 1
    /\ charges = lost + 1 => /\ paid \in {"pending", "settled"}
                             /\ \A c \in Calls : call[c] \in Holding => call[c] = "settled"

\* Content is told from a settled row, and the call that settled it was told.
ContentTold ==
    /\ \A c \in Calls : call[c] # "over" => told[c] = "nothing"
    /\ \A c \in Calls : told[c] = "content" => paid = "settled"
    /\ paid = "settled" => \E c \in Calls : told[c] = "content"

GateInv == PaidTypeOK /\ ClaimHeld /\ ChargeHeld /\ ContentTold

\* The gate starts with no row, no call and no charge.
LEMMA GateInitInv == PaidInit => GateInv
  BY DEF PaidInit, GateInv, PaidTypeOK, ClaimHeld, ChargeHeld, ContentTold, Holding, Failures

\* No step of run_paid lets a second call into the claim, or a second settlement
\* be reported.
LEMMA GateStepInv == GateInv /\ [PaidNext]_paidVars => GateInv'
<1> SUFFICES ASSUME GateInv, [PaidNext]_paidVars
             PROVE  GateInv'
  OBVIOUS
<1> USE DEF GateInv, PaidTypeOK, ClaimHeld, ChargeHeld, ContentTold, Holding, Failures
<1>1. ASSUME NEW c \in Calls, Replay(c)
      PROVE  GateInv'
  BY <1>1 DEF Replay, CallGoto, Answer
<1>2. ASSUME NEW c \in Calls, Verify(c)
      PROVE  GateInv'
  <2>1. CASE CallGoto(c, "claim")
    BY <1>2, <2>1 DEF Verify, CallGoto
  <2>2. CASE Answer(c, "refused")
    BY <1>2, <2>2 DEF Verify, Answer
  <2> QED
    BY <1>2, <2>1, <2>2 DEF Verify
<1>3. ASSUME NEW c \in Calls, Claim(c)
      PROVE  GateInv'
  BY <1>3 DEF Claim, CallGoto, Answer
<1>4. ASSUME NEW c \in Calls, Handle(c)
      PROVE  GateInv'
  BY <1>4 DEF Handle, CallGoto
<1>5. ASSUME NEW c \in Calls, Settle(c)
      PROVE  GateInv'
  BY <1>5 DEF Settle, CallGoto
<1>6. ASSUME NEW c \in Calls, Mark(c)
      PROVE  GateInv'
  BY <1>6 DEF Mark, Answer
<1>7. ASSUME NEW c \in Calls, CallDies(c)
      PROVE  GateInv'
  BY <1>7 DEF CallDies, CallGoto
<1>8. CASE UNCHANGED paidVars
  BY <1>8 DEF paidVars
<1> QED
  BY <1>1, <1>2, <1>3, <1>4, <1>5, <1>6, <1>7, <1>8 DEF PaidNext

\* The inductive invariant of a paid call: the claim of its row is a lock, and what
\* the facilitator was paid for is one settlement (services/x402_seller.py).
THEOREM PaidClaimExclusive == PaidSpec => []GateInv
  BY GateInitInv, GateStepInv, PTL DEF PaidSpec

\* A buyer is charged again only after a settlement whose answer was lost, and for
\* nothing only then or when the call died, for any number of repeated calls.
THEOREM PaidCharged == PaidSpec => []ChargedForContent
<1>1. GateInv => ChargedForContent
  BY DEF GateInv, PaidTypeOK, ClaimHeld, ChargeHeld, ContentTold, Holding, Failures, ChargedForContent
<1> QED
  BY <1>1, PaidClaimExclusive, PTL

-----------------------------------------------------------------------------
(* The IP tables *)

\* Only the creator of the staging table fills it and renames it.
OneBuilder == \A r \in Refreshes : refresh[r].at \in {"copy", "swap"} => staging = r

\* What a builder copied over is what the live table still holds.
CopyCurrent == \A r \in Refreshes : refresh[r].at = "swap" => refresh[r].others = rows

\* A run that no swap of its source overtook has a dataset no older than the live one.
NoOlder ==
    /\ \A s \in Sources : rows[s] <= published[s]
    /\ \A r \in Refreshes : refresh[r].at \in {"lock", "create", "blocked", "copy", "swap"} =>
          /\ refresh[r].has <= published[SourceOf[r]]
          /\ r \in overtaken \/ rows[SourceOf[r]] <= refresh[r].has

SwapInv == SwapTypeOK /\ OneBuilder /\ CopyCurrent /\ NoOlder

\* No job runs yet, and the table has no rows.
LEMMA SwapInitInv == SwapInit => SwapInv
    BY SwapAssumption DEF SwapInit, SwapInv, SwapTypeOK, OneBuilder, CopyCurrent, NoOlder, Versions, Nothing

\* The swap replaces the rows of its own source alone.
LEMMA SwapRows ==
    ASSUME SwapInv, NEW r \in Refreshes, Swap(r)
    PROVE  /\ rows' = [rows EXCEPT ![SourceOf[r]] = refresh[r].has]
           /\ refresh[r].has \in Versions
           /\ r \in overtaken \/ rows[SourceOf[r]] <= refresh[r].has
    BY DEF Swap, SwapInv, SwapTypeOK, CopyCurrent, NoOlder

\* The statements of the jobs, in any order, keep all four.
LEMMA SwapStepInv == SwapInv /\ [SwapNext]_swapVars => SwapInv'
<1> SUFFICES ASSUME SwapInv, [SwapNext]_swapVars
             PROVE  SwapInv'
    OBVIOUS
<1> USE SwapAssumption DEF SwapInv, SwapTypeOK, OneBuilder, CopyCurrent, NoOlder, Versions, Nothing
<1>1. ASSUME NEW s \in Sources, PublishDataset(s)
      PROVE  SwapInv'
    BY <1>1 DEF PublishDataset
<1>2. ASSUME NEW r \in Refreshes, Download(r)
      PROVE  SwapInv'
    <2>1. CASE refresh' = [refresh EXCEPT ![r] = [@ EXCEPT !.at = "lock",
                                                           !.has = published[SourceOf[r]]]]
        <3> UNCHANGED published /\ UNCHANGED rows /\ UNCHANGED staging /\ UNCHANGED overtaken
            BY <1>2 DEF Download
        <3>1. published[SourceOf[r]] \in Versions /\ rows[SourceOf[r]] <= published[SourceOf[r]]
            OBVIOUS
        <3>2. refresh'[r] = [at |-> "lock", has |-> published[SourceOf[r]], others |-> refresh[r].others]
            BY <2>1
        <3>3. \A q \in Refreshes \ {r} : refresh'[q] = refresh[q]
            BY <2>1
        <3>4. SwapTypeOK'
            BY <1>2, <2>1, <3>1, <3>2 DEF Download
        <3>5. \A q \in Refreshes : refresh'[q].at \in {"copy", "swap"} => refresh'[q] = refresh[q]
            BY <3>2, <3>3
        <3>7. OneBuilder' /\ CopyCurrent'
            BY <3>5 DEF OneBuilder, CopyCurrent
        <3>6. NoOlder'
            BY <3>1, <3>2, <3>3
        <3> QED BY <3>4, <3>6, <3>7
    <2>2. CASE RefreshGoto(r, "over")
        BY <1>2, <2>2 DEF Download, RefreshGoto
    <2> QED BY <1>2, <2>1, <2>2 DEF Download
<1>3. ASSUME NEW r \in Refreshes, TryWriteLock(r)
      PROVE  SwapInv'
    <2>1. writeLock' \in Refreshes \union {Nobody} /\ hitches' \in 0..MaxHitches
        BY <1>3 DEF TryWriteLock, Hitch
    <2>2. PICK step \in {"create", "over"} : RefreshGoto(r, step)
        BY <1>3 DEF TryWriteLock
    <2> QED BY <1>3, <2>1, <2>2 DEF TryWriteLock, RefreshGoto
<1>4. ASSUME NEW r \in Refreshes, CreateStaging(r)
      PROVE  SwapInv'
    <2>1. CASE staging = Nobody /\ staging' = r /\ RefreshGoto(r, "copy")
        BY <1>4, <2>1 DEF CreateStaging, RefreshGoto
    <2>2. CASE RefreshGoto(r, "blocked") /\ UNCHANGED staging
        BY <1>4, <2>2 DEF CreateStaging, RefreshGoto
    <2> QED BY <1>4, <2>1, <2>2 DEF CreateStaging
<1>5. ASSUME NEW r \in Refreshes, Unblock(r)
      PROVE  SwapInv'
    BY <1>5 DEF Unblock, RefreshGoto
<1>6. ASSUME NEW r \in Refreshes, CarryOver(r)
      PROVE  SwapInv'
    BY <1>6 DEF CarryOver
<1>7. ASSUME NEW r \in Refreshes, Swap(r)
      PROVE  SwapInv'
    BY <1>7, SwapRows DEF Swap
<1>8. ASSUME NEW r \in Refreshes, LoadFails(r)
      PROVE  SwapInv'
    BY <1>8 DEF LoadFails, Hitch
<1>9. ASSUME NEW r \in Refreshes, ReleaseWriteLock(r)
      PROVE  SwapInv'
    BY <1>9 DEF ReleaseWriteLock, RefreshGoto
<1>10. ASSUME NEW r \in Refreshes, LockSessionLost(r)
       PROVE  SwapInv'
    BY <1>10 DEF LockSessionLost, Hitch
<1>11. ASSUME NEW r \in Refreshes, RefreshDies(r)
       PROVE  SwapInv'
    BY <1>11 DEF RefreshDies, Hitch
<1>12. CASE UNCHANGED swapVars
    BY <1>12 DEF swapVars
<1> QED
    BY <1>1, <1>2, <1>3, <1>4, <1>5, <1>6, <1>7, <1>8, <1>9, <1>10, <1>11, <1>12 DEF SwapNext

\* The inductive invariant of the swap: one refresh builds the staging table, and
\* what it copied is what the live table holds (services/ip_org_ingest.py).
THEOREM BuilderExclusive == SwapSpec => []SwapInv
    BY SwapInitInv, SwapStepInv, PTL DEF SwapSpec

\* A swap changes the rows of its own source alone, and puts it back only if another
\* swap of the source overtook it, for any number of jobs and sources.
THEOREM OthersKept == SwapSpec => SwapKeepsOthers
<1> DEFINE Kept == \A s \in Sources : rows'[s] # rows[s] =>
          \E r \in Refreshes :
             /\ SourceOf[r] = s /\ refresh[r].at = "swap" /\ refresh'[r].at = "unlock"
             /\ rows'[s] < rows[s] => r \in overtaken
<1>1. ASSUME SwapInv, NEW r \in Refreshes, Swap(r)
      PROVE  Kept
    <2>1. refresh[r].at = "swap" /\ refresh'[r].at = "unlock"
        BY <1>1 DEF Swap, SwapInv, SwapTypeOK
    <2>2. \A s \in Sources : rows'[s] # rows[s] => SourceOf[r] = s /\ rows'[s] = refresh[r].has
        BY <1>1, SwapRows DEF SwapInv, SwapTypeOK
    <2>3. \A s \in Sources : rows'[s] < rows[s] /\ SourceOf[r] = s /\ rows'[s] = refresh[r].has
             => r \in overtaken
        BY <1>1, SwapRows DEF SwapInv, SwapTypeOK, Versions
    <2> QED BY <2>1, <2>2, <2>3
<1>2. SwapInv /\ SwapNext => Kept
    <2> SUFFICES ASSUME SwapInv, SwapNext
                 PROVE  Kept
        OBVIOUS
    <2>1. UNCHANGED rows \/ \E r \in Refreshes : Swap(r)
        BY DEF SwapNext, PublishDataset, Download, TryWriteLock, CreateStaging, Unblock, CarryOver,
               LoadFails, ReleaseWriteLock, LockSessionLost, RefreshDies
    <2> QED BY <1>1, <2>1
<1>3. SwapInv /\ [SwapNext]_swapVars => [Kept]_swapVars
    BY <1>2
<1> HIDE DEF Kept
<1>4. SwapSpec => [][Kept]_swapVars
    BY <1>3, BuilderExclusive, PTL DEF SwapSpec
<1> QED
    BY <1>4 DEF Kept, SwapKeepsOthers

-----------------------------------------------------------------------------
(* The composition *)

\* What is left out of a part's behaviour is left alone.
LEMMA RecordsParts ==
    [MCNext]_recordVars =>
       /\ [AccountsNext]_accountVars /\ [UsageNext]_usageVars /\ [CoopNext]_coopVars
       /\ [PaidNext]_paidVars /\ [SwapNext]_swapVars
    BY DEF MCNext, recordVars

\* The parts stay well typed together, for any number of actors in each: MCTypeOK.
THEOREM RecordsTyped == MCSpec => []MCTypeOK
<1> DEFINE Inv == PaidInv /\ UsageInv /\ CoopInv /\ GateInv /\ SwapInv
<1>1. MCInit => Inv
    BY PlansInitially, UsageInitInv, CoopInitInv, GateInitInv, SwapInitInv DEF MCInit
<1>2. Inv /\ [MCNext]_recordVars => Inv'
    BY RecordsParts, PlansPreserved, UsageStepInv, CoopStepInv, GateStepInv, SwapStepInv
<1>3. Inv => MCTypeOK
    BY DEF MCTypeOK, PaidInv, UsageInv, CoopInv, GateInv, SwapInv
<1> HIDE DEF Inv
<1> QED BY <1>1, <1>2, <1>3, PTL DEF MCSpec
=============================================================================
