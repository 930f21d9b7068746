------------------------------ MODULE PaidGate ------------------------------
(***************************************************************************)
(* The pay-per-call gate (services/x402_seller.py, routers/paid.py): calls     *)
(* that present one signed payment payload, which a client repeats when it    *)
(* gets no answer or a refusal.  The row of the payload in paid_requests is    *)
(* the guard: a call claims it, runs the handler, settles with the facilitator *)
(* and marks the row.                                                        *)
(*                                                                          *)
(* A statement on the row, the handler and each call of the facilitator is a   *)
(* step.  The facilitator is external: it verifies or refuses a payload as it  *)
(* likes, and is not assumed to know one it has settled before.  The handlers  *)
(* are read-only.                                                            *)
(***************************************************************************)
EXTENDS Naturals

CONSTANTS
    Calls,          \* the calls that present the payload
    MaxLosses       \* bound: settlements whose answer is lost, and calls that die

ASSUME PaidAssumption == MaxLosses \in Nat

VARIABLES
    paid,           \* status of the payload's row, "none" before there is one
    call,           \* the step of each call
    told,           \* what each was answered
    \* history
    charges,        \* settlements the facilitator has made of the payload
    lost,           \* of these, the ones reported as failed
    died            \* calls that died holding the claim

paidVars == <<paid, call, told, charges, lost, died>>

Failures == {"handler_failed", "settle_failed"}

PaidTypeOK ==
    /\ paid \in {"none", "pending", "settled"} \union Failures
    /\ call \in [Calls -> {"off", "verify", "claim", "handle", "settle", "settled", "over"}
                          \union Failures]
    /\ told \in [Calls -> {"nothing", "content", "refused"}]
    /\ charges \in Nat /\ lost \in Nat /\ died \in Nat

PaidInit ==
    /\ paid = "none"
    /\ call = [c \in Calls |-> "off"]
    /\ told = [c \in Calls |-> "nothing"]
    /\ charges = 0 /\ lost = 0 /\ died = 0

CallGoto(c, step) == call' = [call EXCEPT ![c] = step] /\ UNCHANGED told
Answer(c, what) ==
    /\ call' = [call EXCEPT ![c] = "over"]
    /\ told' = [told EXCEPT ![c] = what]
Lossy == lost + died < MaxLosses

-----------------------------------------------------------------------------
(* run_paid *)

\* get_settled: the cached answer of a settled payload.
Replay(c) ==
    /\ call[c] = "off"
    /\ IF paid = "settled" THEN Answer(c, "content") ELSE CallGoto(c, "verify")
    /\ UNCHANGED <<paid, charges, lost, died>>

\* process_http_request: verified; or refused, or the facilitator failed.
Verify(c) ==
    /\ call[c] = "verify"
    /\ CallGoto(c, "claim") \/ Answer(c, "refused")
    /\ UNCHANGED <<paid, charges, lost, died>>

\* Bug: whatever is not settled is claimed again.
ClaimBug(c) ==
    /\ call[c] = "claim"
    /\ IF paid # "settled" THEN paid' = "pending" /\ CallGoto(c, "handle")
       ELSE UNCHANGED paid /\ Answer(c, "content")
    /\ UNCHANGED <<charges, lost, died>>

\* The insert, or the update of a failed row; else the answer of a settled row
\* (which stays one) or 409.
Claim(c) ==
    /\ call[c] = "claim"
    /\ IF paid \in {"none"} \union Failures
       THEN paid' = "pending" /\ CallGoto(c, "handle")
       ELSE UNCHANGED paid /\ Answer(c, IF paid = "settled" THEN "content" ELSE "refused")
    /\ UNCHANGED <<charges, lost, died>>

Handle(c) ==
    /\ call[c] = "handle"
    /\ \E next \in {"settle", "handler_failed"} : CallGoto(c, next)
    /\ UNCHANGED <<paid, charges, lost, died>>

\* process_settlement: settled; refused; or settled and the answer lost.
Settle(c) ==
    /\ call[c] = "settle"
    /\ \/ CallGoto(c, "settled") /\ charges' = charges + 1 /\ UNCHANGED lost
       \/ CallGoto(c, "settle_failed") /\ UNCHANGED <<charges, lost>>
       \/ Lossy /\ CallGoto(c, "settle_failed") /\ charges' = charges + 1 /\ lost' = lost + 1
    /\ UNCHANGED <<paid, died>>

\* mark_failed with the call's failure, or mark_settled.
Mark(c) ==
    /\ call[c] \in Failures \union {"settled"}
    /\ paid' = call[c]
    /\ Answer(c, IF call[c] = "settled" THEN "content" ELSE "refused")
    /\ UNCHANGED <<charges, lost, died>>

\* The process dies, or the statement that marks the row fails: the row stays
\* "pending", and nothing ever takes it up.
CallDies(c) ==
    /\ call[c] \in {"handle", "settle", "settled"} \union Failures
    /\ Lossy
    /\ died' = died + 1
    /\ CallGoto(c, "over")
    /\ UNCHANGED <<paid, charges, lost>>

PaidNext ==
    \E c \in Calls : \/ Replay(c) \/ Verify(c) \/ Claim(c) \/ Handle(c)
                     \/ Settle(c) \/ Mark(c) \/ CallDies(c)

PaidSpec == PaidInit /\ [][PaidNext]_paidVars

-----------------------------------------------------------------------------
(* Properties *)

\* A buyer whose client repeats a payment is charged again only after a
\* settlement whose answer was lost, and charged without being served, once all
\* calls are over, only then or when the call died (models/paid_request.py: the
\* buyer is never charged twice).  Nobody is served unless there was a charge.
ChargedForContent ==
    /\ charges <= 1 + lost
    /\ \A c \in Calls : told[c] = "content" => charges > lost
    /\ charges > 0 /\ (\A c \in Calls : call[c] \in {"off", "over"}) =>
          \/ paid = "settled" /\ \E c \in Calls : told[c] = "content"
          \/ lost + died > 0
=============================================================================
