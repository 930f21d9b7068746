------------------------------ MODULE EmailCap ------------------------------
(***************************************************************************)
(* The per-site hourly e-mail cap (services/email_rate_limiter.py): one      *)
(* Redis counter for each clock hour, used by the campaign loop, which hands *)
(* a slot back when it does not send, and by test sends, which never do.     *)
(*                                                                          *)
(* Each Redis call is one step.  A client works out the key, which names the *)
(* hour, before it calls.  An absent key counts as 0, which is what INCR and *)
(* DECR make of it, so DELETE and expiry are both "the counter is 0".        *)
(***************************************************************************)
EXTENDS Integers, FiniteSets

CONSTANTS
    Clients,        \* sends in progress for one site, over all workers
    Cap,            \* settings.max_emails_per_hour_per_site
    LastHour,       \* bound: hours are 0..LastHour
    RedisOutages    \* whether Redis calls may fail

ASSUME CapAssumption ==
    /\ IsFiniteSet(Clients)
    /\ Cap \in Nat \ {0}
    /\ LastHour \in Nat
    /\ RedisOutages \in BOOLEAN

Hours == 0..LastHour
NoSlot == -1

VARIABLES
    hour,       \* the clock
    counter,    \* email_rate:{site}:{hour}
    pc,         \* what each client is about to do
    key,        \* the hour its key names
    slot,       \* the hour whose counter includes it
    \* history
    sent,       \* messages sent on a reservation of each hour
    open,       \* reservations granted because Redis failed
    erased      \* slots taken off a counter by someone who did not hold them

clientVars == <<pc, key, slot>>
capHistory == <<sent, open, erased>>
capVars == <<hour, counter, clientVars, capHistory>>

CapTypeOK ==
    /\ hour \in Hours
    /\ counter \in [Hours -> Int]
    /\ pc \in [Clients -> {"idle", "incr", "undo", "held", "decr", "drop"}]
    /\ key \in [Clients -> Hours]
    /\ slot \in [Clients -> Hours \union {NoSlot}]
    /\ sent \in [Hours -> Nat]
    /\ open \in [Hours -> Nat]
    /\ erased \in [Hours -> Nat]

CapInit ==
    /\ hour = 0
    /\ counter = [h \in Hours |-> 0]
    /\ pc = [c \in Clients |-> "idle"]
    /\ key = [c \in Clients |-> 0]
    /\ slot = [c \in Clients |-> NoSlot]
    /\ sent = [h \in Hours |-> 0]
    /\ open = [h \in Hours |-> 0]
    /\ erased = [h \in Hours |-> 0]

-----------------------------------------------------------------------------
(* Helpers *)

Proceed(c, step) == pc' = [pc EXCEPT ![c] = step]
Occupy(c) == slot' = [slot EXCEPT ![c] = key[c]]
Vacate(c) == slot' = [slot EXCEPT ![c] = NoSlot]
Count(h, n) == counter' = [counter EXCEPT ![h] = @ + n]
Erase(h, n) == erased' = [erased EXCEPT ![h] = @ + n]

\* except Exception: return True.
FailOpen(c) ==
    /\ Proceed(c, "held")
    /\ open' = [open EXCEPT ![key[c]] = @ + 1]
    /\ UNCHANGED <<key, sent, erased>>

-----------------------------------------------------------------------------
(* check_and_reserve_email *)

Reserve(c) ==
    /\ pc[c] = "idle"
    /\ Proceed(c, "incr")
    /\ key' = [key EXCEPT ![c] = hour]
    /\ UNCHANGED <<hour, counter, slot, capHistory>>

\* Bug: compares the count before the increment with the cap.
IncrBug(c) ==
    /\ pc[c] = "incr"
    /\ Count(key[c], 1)
    /\ Occupy(c)
    /\ Proceed(c, IF counter[key[c]] > Cap THEN "undo" ELSE "held")
    /\ UNCHANGED <<hour, key, capHistory>>

\* INCR answers the new count; over the cap, the client will take it back.
Incr(c) ==
    /\ pc[c] = "incr"
    /\ Count(key[c], 1)
    /\ Occupy(c)
    /\ Proceed(c, IF counter[key[c]] + 1 > Cap THEN "undo" ELSE "held")
    /\ UNCHANGED <<hour, key, capHistory>>

\* The call fails, before or after Redis has counted it.
IncrFails(c) ==
    /\ RedisOutages
    /\ pc[c] = "incr"
    /\ \/ Count(key[c], 1) /\ Occupy(c)
       \/ UNCHANGED <<counter, slot>>
    /\ FailOpen(c)
    /\ UNCHANGED hour

\* The send is refused.
Undo(c) ==
    /\ pc[c] = "undo"
    /\ Count(key[c], -1)
    /\ Vacate(c)
    /\ Proceed(c, "idle")
    /\ UNCHANGED <<hour, key, capHistory>>

\* The same handler catches a failing DECR: the refused send goes out.
UndoFails(c) ==
    /\ RedisOutages
    /\ pc[c] = "undo"
    /\ \/ Count(key[c], -1) /\ Vacate(c)
       \/ UNCHANGED <<counter, slot>>
    /\ FailOpen(c)
    /\ UNCHANGED hour

-----------------------------------------------------------------------------
(* What the caller does with its slot *)

Send(c) ==
    /\ pc[c] = "held"
    /\ sent' = [sent EXCEPT ![key[c]] = @ + 1]
    /\ Vacate(c)
    /\ Proceed(c, "idle")
    /\ UNCHANGED <<hour, counter, key, open, erased>>

\* Bug: gives the slot back and sends all the same.
GiveBackBug(c) ==
    /\ pc[c] = "held"
    /\ key' = [key EXCEPT ![c] = hour]
    /\ Proceed(c, "decr")
    /\ sent' = [sent EXCEPT ![key[c]] = @ + 1]
    /\ UNCHANGED <<hour, counter, slot, open, erased>>

\* A lost claim or a failed send: release_email_reservation works out the key
\* again, from the clock of this moment.
GiveBack(c) ==
    /\ pc[c] = "held"
    /\ key' = [key EXCEPT ![c] = hour]
    /\ Proceed(c, "decr")
    /\ UNCHANGED <<hour, counter, slot, capHistory>>

\* A failed test send, an exception, a restart: nobody releases the slot.
Abandon(c) ==
    /\ pc[c] # "idle"
    /\ Vacate(c)
    /\ Proceed(c, "idle")
    /\ UNCHANGED <<hour, counter, key, capHistory>>

-----------------------------------------------------------------------------
(* release_email_reservation *)

\* DECR; the slot may have been counted on another hour's key, or on none.
TakeOff(c) ==
    /\ Count(key[c], -1)
    /\ Erase(key[c], IF slot[c] = key[c] THEN 0 ELSE 1)

Decr(c) ==
    /\ pc[c] = "decr"
    /\ TakeOff(c)
    /\ Vacate(c)
    /\ Proceed(c, IF counter[key[c]] - 1 < 0 THEN "drop" ELSE "idle")
    /\ UNCHANGED <<hour, key, sent, open>>

DecrFails(c) ==
    /\ RedisOutages
    /\ pc[c] = "decr"
    /\ TakeOff(c) \/ UNCHANGED <<counter, erased>>
    /\ Vacate(c)
    /\ Proceed(c, "idle")
    /\ UNCHANGED <<hour, key, sent, open>>

\* DELETE, whatever the counter has become since the DECR.
DropKey(c) ==
    /\ pc[c] = "drop"
    /\ counter' = [counter EXCEPT ![key[c]] = 0]
    /\ Erase(key[c], IF counter[key[c]] > 0 THEN counter[key[c]] ELSE 0)
    /\ Proceed(c, "idle")
    /\ UNCHANGED <<hour, key, slot, sent, open>>

\* A failed DELETE that Redis did not execute; one it did is a DropKey.
DropFails(c) ==
    /\ RedisOutages
    /\ pc[c] = "drop"
    /\ Proceed(c, "idle")
    /\ UNCHANGED <<hour, counter, key, slot, capHistory>>

NextHour ==
    /\ hour < LastHour
    /\ hour' = hour + 1
    /\ UNCHANGED <<counter, clientVars, capHistory>>

CapNext ==
    \/ \E c \in Clients :
          \/ Reserve(c) \/ Incr(c) \/ IncrFails(c) \/ Undo(c) \/ UndoFails(c)
          \/ Send(c) \/ GiveBack(c) \/ Abandon(c)
          \/ Decr(c) \/ DecrFails(c) \/ DropKey(c) \/ DropFails(c)
    \/ NextHour

CapSpec == CapInit /\ [][CapNext]_capVars

-----------------------------------------------------------------------------
(* Properties *)

\* Clients with a granted reservation of hour h in hand.
Granted(h) == {c \in Clients : pc[c] = "held" /\ key[c] = h}

\* Clients the counter of hour h stands for.
Counted(h) ==
    {c \in Clients : \/ pc[c] \in {"undo", "held"} /\ key[c] = h
                     \/ pc[c] = "decr" /\ slot[c] = h}

\* email_rate_limiter.py:1 - a hard cap on the messages of each clock hour.
CapHonoured == \A h \in Hours : sent[h] <= Cap

\* What holds in general.  Every message over the cap, and every grant that
\* would lead to one, is owed to a Redis failure or to a slot that was taken off
\* the hour's counter by a client that did not hold it there.
CapAccounted ==
    \A h \in Hours : sent[h] + Cardinality(Granted(h)) <= Cap + open[h] + erased[h]

\* Why: the counter falls behind what it stands for only by those amounts.
CounterCovers ==
    \A h \in Hours :
        sent[h] + Cardinality(Counted(h)) <= counter[h] + open[h] + erased[h]

SlotMatchesKey ==
    \A c \in Clients :
        /\ pc[c] \in {"idle", "incr", "drop"} => slot[c] = NoSlot
        /\ pc[c] \in {"undo", "held"} => slot[c] \in {key[c], NoSlot}

CapInv == CapTypeOK /\ SlotMatchesKey /\ CounterCovers /\ CapAccounted
=============================================================================
