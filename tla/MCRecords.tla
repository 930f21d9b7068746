------------------------------ MODULE MCRecords ------------------------------
(***************************************************************************)
(* Instances of Accounts, Usage, CoopLedger, AggregationKeys, PaidGate and     *)
(* IpOrgSwap for TLC: rows, keys and tables that webhooks, requests, sweeps    *)
(* and jobs write in turn.  They share no variable, so a behaviour of each is  *)
(* checked on its own: `part' says whose turn it is.  Accounts is checked twice: *)
(* over all days with one delivery at a time, and on the first day with several. *)
(* The fairness of Accounts and AggregationKeys is restated for the parts.    *)
(***************************************************************************)
EXTENDS Accounts, Usage, CoopLedger, AggregationKeys, PaidGate, IpOrgSwap, TLC

CONSTANT FirstHook      \* the delivery of the part with one at a time

VARIABLE part

Plans == part \in {"accounts", "first pings"}

recordVars == <<part, accountVars, usageVars, coopVars, vars, paidVars, swapVars>>

MCSiteOf == [v \in Visitors |-> IF v = 1 THEN 1 ELSE 2]
MCSourceOf == [r \in Refreshes |-> IF r = "rir1" THEN "rir" ELSE "caida"]

MCInit ==
    /\ part \in {"accounts", "first pings", "usage", "coop", "keys", "paid", "iporg"}
    /\ AccountsInit /\ UsageInit /\ CoopInit /\ Init /\ PaidInit /\ SwapInit
    /\ ~Plans => spelt = "own" /\ account = Unregistered

MCNext ==
    \/ /\ Plans /\ AccountsNext
       /\ part = "accounts" => \A h \in Hooks \ {FirstHook} : hook'[h] = NoDelivery
       /\ part = "first pings" => day' = 0
       /\ UNCHANGED <<part, usageVars, coopVars, vars, paidVars, swapVars>>
    \/ /\ part = "usage" /\ UsageNext
       /\ UNCHANGED <<part, accountVars, coopVars, vars, paidVars, swapVars>>
    \/ /\ part = "coop" /\ CoopNext
       /\ UNCHANGED <<part, accountVars, usageVars, vars, paidVars, swapVars>>
    \/ /\ part = "keys" /\ Next
       /\ UNCHANGED <<part, accountVars, usageVars, coopVars, paidVars, swapVars>>
    \/ /\ part = "paid" /\ PaidNext
       /\ UNCHANGED <<part, accountVars, usageVars, coopVars, vars, swapVars>>
    \/ /\ part = "iporg" /\ SwapNext
       /\ UNCHANGED <<part, accountVars, usageVars, coopVars, vars, paidVars>>

MCSpec ==
    /\ MCInit /\ [][MCNext]_recordVars
    /\ \A h \in Hooks : WF_accountVars(Plans /\ ApplyPing(h))
    /\ \A d \in Days :
          SF_accountVars(/\ Plans
                         /\ \E h \in Hooks : FindForPing(h, [kind |-> "sale", on |-> d]))
    /\ \A i \in SignIns : /\ SF_accountVars(Plans /\ FindForSignIn(i, spelt))
                          /\ WF_accountVars(Plans /\ FinishSignIn(i))
    /\ WF_vars(part = "keys" /\ Tick)
    /\ \A c \in Containers : /\ WF_vars(part = "keys" /\ IngestStep(c))
                             /\ WF_vars(part = "keys" /\ SweepStep(c))

MCTypeOK ==
    /\ AccountsTypeOK /\ UsageTypeOK /\ CoopTypeOK
    /\ PaidTypeOK /\ SwapTypeOK

\* PlanReached, in the behaviours of Accounts.
PlanIsReached == Plans => PlanReached

\* RepairNotStarved, in the behaviours of AggregationKeys.
SweepNotStarved == part = "keys" => RepairNotStarved
=============================================================================
