--------------------------- MODULE OutreachProofs ---------------------------
(***************************************************************************)
(* Proved for every value of the constants: what holds mail back, the cap      *)
(* (EmailCap) and the opt-outs (OptOut), and what comes of it (Conversions).   *)
(* The three share nothing.                                                  *)
(***************************************************************************)
EXTENDS EmailCap, OptOut, Conversions, FiniteSetTheorems, TLAPS

(* The cap *)

LEMMA CapTypeInit == CapInit => CapTypeOK
BY CapAssumption DEF CapInit, CapTypeOK, Hours, NoSlot

LEMMA CapTypeStep == CapTypeOK /\ [CapNext]_capVars => CapTypeOK'
<1> SUFFICES ASSUME CapTypeOK, [CapNext]_capVars PROVE CapTypeOK'
  OBVIOUS
<1> USE DEF CapTypeOK, clientVars, capHistory, Proceed, Occupy, Vacate, Count
<1>1. ASSUME NEW c \in Clients, Reserve(c) \/ Send(c) \/ GiveBack(c) \/ Abandon(c) PROVE CapTypeOK'
  BY <1>1 DEF Reserve, Send, GiveBack, Abandon
<1>2. ASSUME NEW c \in Clients, Incr(c) \/ Undo(c) PROVE CapTypeOK'
  BY <1>2 DEF Incr, Undo
<1>3. ASSUME NEW c \in Clients, IncrFails(c) \/ UndoFails(c) PROVE CapTypeOK'
  BY <1>3 DEF IncrFails, UndoFails, FailOpen
<1>4. ASSUME NEW c \in Clients, Decr(c) \/ DecrFails(c) PROVE CapTypeOK'
  BY <1>4 DEF Decr, DecrFails, TakeOff, Erase
<1>5. ASSUME NEW c \in Clients, DropKey(c) \/ DropFails(c) PROVE CapTypeOK'
  BY <1>5 DEF DropKey, DropFails, Erase
<1>6. CASE NextHour
  <2>1. hour' \in Hours
    BY <1>6, CapAssumption DEF NextHour, Hours
  <2>2. QED
    BY <1>6, <2>1 DEF NextHour
<1>7. CASE UNCHANGED capVars
  BY <1>7 DEF capVars
<1>8. QED
  BY <1>1, <1>2, <1>3, <1>4, <1>5, <1>6, <1>7 DEF CapNext

-----------------------------------------------------------------------------
(* How many clients a step adds to a set of them, or takes away *)

LEMMA Size ==
    ASSUME NEW S \in SUBSET Clients
    PROVE  IsFiniteSet(S) /\ Cardinality(S) \in Nat
BY CapAssumption, FS_Subset, FS_CardinalityType

LEMMA NoneJoins ==
    ASSUME NEW S \in SUBSET Clients, NEW T, T \subseteq S
    PROVE  Cardinality(T) <= Cardinality(S)
BY Size, FS_Subset

LEMMA OneJoins ==
    ASSUME NEW S \in SUBSET Clients, NEW c, NEW T, T \subseteq S \union {c}
    PROVE  Cardinality(T) <= Cardinality(S) + 1
<1>1. IsFiniteSet(S \union {c}) /\ Cardinality(S \union {c}) <= Cardinality(S) + 1
  BY Size, FS_AddElement
<1>2. Cardinality(T) <= Cardinality(S \union {c}) /\ Cardinality(T) \in Nat
  BY <1>1, FS_Subset, FS_CardinalityType
<1>3. Cardinality(S \union {c}) \in Nat /\ Cardinality(S) \in Nat
  BY <1>1, Size, FS_CardinalityType
<1>4. QED
  BY <1>1, <1>2, <1>3

LEMMA OneLeaves ==
    ASSUME NEW S \in SUBSET Clients, NEW c \in S, NEW T, T \subseteq S \ {c}
    PROVE  Cardinality(T) + 1 <= Cardinality(S)
<1>1. IsFiniteSet(S \ {c}) /\ Cardinality(S \ {c}) = Cardinality(S) - 1
  BY Size, FS_RemoveElement
<1>2. Cardinality(T) <= Cardinality(S \ {c}) /\ Cardinality(T) \in Nat
  BY <1>1, FS_Subset, FS_CardinalityType
<1>3. QED
  BY <1>1, <1>2, Size

-----------------------------------------------------------------------------
(* The accounting *)

LEMMA CapStart == CapInit => CapInv
<1> SUFFICES ASSUME CapInit PROVE CapInv
  OBVIOUS
<1>1. \A h \in Hours : Granted(h) = {} /\ Counted(h) = {}
  BY DEF CapInit, Granted, Counted
<1>2. Cardinality({}) = 0
  BY FS_EmptySet
<1>3. CounterCovers /\ CapAccounted
  BY <1>1, <1>2, CapAssumption DEF CapInit, CounterCovers, CapAccounted
<1>4. QED
  BY <1>3, CapTypeInit DEF CapInv, CapInit, SlotMatchesKey

LEMMA SlotStep == CapTypeOK /\ SlotMatchesKey /\ [CapNext]_capVars => SlotMatchesKey'
<1> SUFFICES ASSUME CapTypeOK, SlotMatchesKey, [CapNext]_capVars PROVE SlotMatchesKey'
  OBVIOUS
<1> USE DEF CapTypeOK, SlotMatchesKey, Proceed, Occupy, Vacate
<1>1. ASSUME NEW c \in Clients, Reserve(c) \/ Send(c) \/ GiveBack(c) \/ Abandon(c)
      PROVE  SlotMatchesKey'
  BY <1>1 DEF Reserve, Send, GiveBack, Abandon
<1>2. ASSUME NEW c \in Clients, Incr(c) \/ Undo(c) PROVE SlotMatchesKey'
  BY <1>2 DEF Incr, Undo
<1>3. ASSUME NEW c \in Clients, IncrFails(c) \/ UndoFails(c) PROVE SlotMatchesKey'
  BY <1>3 DEF IncrFails, UndoFails, FailOpen
<1>4. ASSUME NEW c \in Clients, Decr(c) \/ DecrFails(c) PROVE SlotMatchesKey'
  BY <1>4 DEF Decr, DecrFails
<1>5. ASSUME NEW c \in Clients, DropKey(c) \/ DropFails(c) PROVE SlotMatchesKey'
  BY <1>5 DEF DropKey, DropFails
<1>6. CASE NextHour \/ UNCHANGED capVars
  BY <1>6 DEF NextHour, capVars, clientVars
<1>7. QED
  BY <1>1, <1>2, <1>3, <1>4, <1>5, <1>6 DEF CapNext

LEMMA CapPreserved == CapInv /\ [CapNext]_capVars => CapInv'
<1> SUFFICES ASSUME CapInv, [CapNext]_capVars PROVE CapInv'
  OBVIOUS
<1> CapTypeOK /\ CapTypeOK'
  BY CapTypeStep DEF CapInv
<1> DEFINE Covers(h) ==
             sent[h] + Cardinality(Counted(h)) <= counter[h] + open[h] + erased[h]
           Accounted(h) ==
             sent[h] + Cardinality(Granted(h)) <= Cap + open[h] + erased[h]
<1>a. SlotMatchesKey'
  BY SlotStep DEF CapInv
<1> SUFFICES ASSUME NEW h \in Hours PROVE Covers(h)' /\ Accounted(h)'
  BY <1>a DEF CapInv, CounterCovers, CapAccounted
<1>1. Covers(h) /\ Accounted(h)
  BY DEF CapInv, CounterCovers, CapAccounted
<1>2. /\ Cap \in Nat
      /\ sent[h] \in Nat /\ open[h] \in Nat /\ erased[h] \in Nat /\ counter[h] \in Int
      /\ sent'[h] \in Nat /\ open'[h] \in Nat /\ erased'[h] \in Nat /\ counter'[h] \in Int
  BY CapAssumption DEF CapTypeOK
<1>3. /\ Granted(h) \in SUBSET Clients /\ Counted(h) \in SUBSET Clients
      /\ Granted(h)' \in SUBSET Clients /\ Counted(h)' \in SUBSET Clients
  BY DEF Granted, Counted
<1>4. /\ Cardinality(Granted(h)) \in Nat /\ Cardinality(Counted(h)) \in Nat
      /\ Cardinality(Granted(h)') \in Nat /\ Cardinality(Counted(h)') \in Nat
  BY <1>3, Size
<1>5. Cardinality(Granted(h)) <= Cardinality(Counted(h))
  BY <1>3, NoneJoins DEF Granted, Counted
\* A step that moves none of the hour's numbers and lets nobody join is harmless.
<1>6. ASSUME sent'[h] = sent[h], open'[h] >= open[h], erased'[h] >= erased[h],
             counter'[h] + open'[h] + erased'[h] >= counter[h] + open[h] + erased[h],
             Granted(h)' \subseteq Granted(h), Counted(h)' \subseteq Counted(h)
      PROVE  Covers(h)' /\ Accounted(h)'
  <2>1. /\ Cardinality(Granted(h)') <= Cardinality(Granted(h))
        /\ Cardinality(Counted(h)') <= Cardinality(Counted(h))
    BY <1>3, <1>6, NoneJoins
  <2>2. QED
    BY <1>1, <1>2, <1>4, <1>6, <2>1
<1>7. ASSUME NEW c \in Clients, Reserve(c) \/ GiveBack(c) \/ Abandon(c) PROVE Covers(h)' /\ Accounted(h)'
  <2>1. Granted(h)' \subseteq Granted(h)
    BY <1>7 DEF Reserve, GiveBack, Abandon, Proceed, Granted, CapTypeOK
  <2>2. h # NoSlot
    BY CapAssumption DEF Hours, NoSlot
  <2>3. Counted(h)' \subseteq Counted(h)
    <3>1. CASE Reserve(c) \/ Abandon(c)
      BY <3>1, <2>2 DEF Reserve, Abandon, Proceed, Vacate, Counted, CapTypeOK
    <3>2. CASE GiveBack(c)
      BY <3>2, <2>2 DEF GiveBack, Proceed, Counted, CapTypeOK, SlotMatchesKey, CapInv
    <3>3. QED
      BY <1>7, <3>1, <3>2
  <2>4. UNCHANGED <<counter, capHistory>>
    BY <1>7 DEF Reserve, GiveBack, Abandon
  <2>5. QED
    BY <1>2, <1>6, <2>1, <2>3, <2>4 DEF capHistory
\* A grant is given below the cap, where the counter leaves room for it.
<1>8. ASSUME NEW c \in Clients, Incr(c) PROVE Covers(h)' /\ Accounted(h)'
  <2> UNCHANGED capHistory /\ pc[c] = "incr"
    BY <1>8 DEF Incr
  <2>1. CASE key[c] # h
    <3>1. Granted(h)' \subseteq Granted(h) /\ Counted(h)' \subseteq Counted(h)
      BY <1>8, <2>1 DEF Incr, Proceed, Occupy, Granted, Counted, CapTypeOK
    <3>2. counter'[h] = counter[h]
      BY <1>8, <2>1 DEF Incr, Count, CapTypeOK
    <3>3. QED
      BY <1>2, <1>6, <3>1, <3>2 DEF capHistory
  <2>2. CASE key[c] = h
    <3>1. Counted(h)' \subseteq Counted(h) \union {c}
      BY <1>8 DEF Incr, Proceed, Occupy, Counted, CapTypeOK
    <3>2. Cardinality(Counted(h)') <= Cardinality(Counted(h)) + 1
      BY <1>3, <3>1, OneJoins
    <3>3. counter'[h] = counter[h] + 1
      BY <1>8, <2>2 DEF Incr, Count, CapTypeOK
    <3>4. Covers(h)'
      BY <1>1, <1>2, <1>4, <3>2, <3>3 DEF capHistory
    <3>5. CASE counter[h] + 1 > Cap
      <4>1. Granted(h)' \subseteq Granted(h)
        BY <1>8, <2>2, <3>5 DEF Incr, Proceed, Granted, CapTypeOK
      <4>2. QED
        BY <1>1, <1>2, <1>3, <1>4, <3>4, <4>1, NoneJoins DEF capHistory
    <3>6. CASE ~(counter[h] + 1 > Cap)
      <4>1. Granted(h)' \subseteq Granted(h) \union {c}
        BY <1>8 DEF Incr, Proceed, Granted, CapTypeOK
      <4>2. Cardinality(Granted(h)') <= Cardinality(Granted(h)) + 1
        BY <1>3, <4>1, OneJoins
      <4>3. QED
        BY <1>1, <1>2, <1>4, <1>5, <3>4, <3>6, <4>2 DEF capHistory
    <3>7. QED
      BY <3>5, <3>6
  <2>3. QED
    BY <2>1, <2>2
\* A grant made because Redis failed is paid for by open.
<1>9. ASSUME NEW c \in Clients, IncrFails(c) \/ UndoFails(c) PROVE Covers(h)' /\ Accounted(h)'
  <2>1. UNCHANGED <<key, sent, erased>> /\ open'[key[c]] = open[key[c]] + 1
    BY <1>9 DEF IncrFails, UndoFails, FailOpen, CapTypeOK
  <2>2. CASE key[c] # h
    <3>1. Granted(h)' \subseteq Granted(h) /\ Counted(h)' \subseteq Counted(h)
      BY <1>9, <2>2 DEF IncrFails, UndoFails, FailOpen, Proceed, Occupy, Vacate, Granted, Counted, CapTypeOK
    <3>2. counter'[h] = counter[h] /\ open'[h] = open[h]
      BY <1>9, <2>2 DEF IncrFails, UndoFails, FailOpen, Count, CapTypeOK
    <3>3. QED
      BY <1>2, <1>6, <2>1, <3>1, <3>2
  <2>3. CASE key[c] = h
    <3>1. Granted(h)' \subseteq Granted(h) \union {c}
      BY <1>9 DEF IncrFails, UndoFails, FailOpen, Proceed, Granted, CapTypeOK
    <3>2. Cardinality(Granted(h)') <= Cardinality(Granted(h)) + 1
      BY <1>3, <3>1, OneJoins
    <3>3. CASE IncrFails(c)
      <4>1. Counted(h)' \subseteq Counted(h) \union {c}
        BY <3>3 DEF IncrFails, FailOpen, Proceed, Occupy, Counted, CapTypeOK
      <4>2. Cardinality(Counted(h)') <= Cardinality(Counted(h)) + 1
        BY <1>3, <4>1, OneJoins
      <4>3. counter'[h] >= counter[h]
        BY <1>2, <2>3, <3>3 DEF IncrFails, Count, CapTypeOK
      <4>4. QED
        BY <1>1, <1>2, <1>4, <2>1, <2>3, <3>2, <4>2, <4>3
    <3>4. CASE UndoFails(c)
      <4>1. Counted(h)' \subseteq Counted(h)
        BY <3>4 DEF UndoFails, FailOpen, Proceed, Vacate, Counted, CapTypeOK
      <4>2. Cardinality(Counted(h)') <= Cardinality(Counted(h))
        BY <1>3, <4>1, NoneJoins
      <4>3. counter'[h] >= counter[h] - 1
        BY <1>2, <2>3, <3>4 DEF UndoFails, Count, CapTypeOK
      <4>4. QED
        BY <1>1, <1>2, <1>4, <2>1, <2>3, <3>2, <4>2, <4>3
    <3>5. QED
      BY <1>9, <3>3, <3>4
  <2>4. QED
    BY <2>2, <2>3
\* A refused client leaves the counter as it takes its increment back.
<1>10. ASSUME NEW c \in Clients, Undo(c) PROVE Covers(h)' /\ Accounted(h)'
  <2> UNCHANGED capHistory
    BY <1>10 DEF Undo
  <2>1. Granted(h)' \subseteq Granted(h)
    BY <1>10 DEF Undo, Proceed, Granted, CapTypeOK
  <2>2. Accounted(h)'
    BY <1>1, <1>2, <1>3, <1>4, <2>1, NoneJoins DEF capHistory
  <2>3. CASE key[c] # h
    <3>1. Counted(h)' \subseteq Counted(h) /\ counter'[h] = counter[h]
      BY <1>10, <2>3 DEF Undo, Proceed, Vacate, Count, Counted, CapTypeOK
    <3>2. QED
      BY <1>2, <1>6, <2>1, <3>1 DEF capHistory
  <2>4. CASE key[c] = h
    <3>1. c \in Counted(h) /\ Counted(h)' \subseteq Counted(h) \ {c} /\ counter'[h] = counter[h] - 1
      BY <1>10, <2>4 DEF Undo, Proceed, Vacate, Count, Counted, CapTypeOK
    <3>2. Cardinality(Counted(h)') + 1 <= Cardinality(Counted(h))
      BY <1>3, <3>1, OneLeaves
    <3>3. QED
      BY <1>1, <1>2, <1>4, <2>2, <3>1, <3>2 DEF capHistory
  <2>5. QED
    BY <2>3, <2>4
\* A message replaces the grant it was sent on.
<1>11. ASSUME NEW c \in Clients, Send(c) PROVE Covers(h)' /\ Accounted(h)'
  <2> UNCHANGED <<counter, open, erased>>
    BY <1>11 DEF Send
  <2>1. CASE key[c] # h
    <3>1. Granted(h)' \subseteq Granted(h) /\ Counted(h)' \subseteq Counted(h)
      BY <1>11 DEF Send, Proceed, Vacate, Granted, Counted, CapTypeOK
    <3>2. sent'[h] = sent[h]
      BY <1>11, <2>1 DEF Send, CapTypeOK
    <3>3. QED
      BY <1>2, <1>6, <3>1, <3>2
  <2>2. CASE key[c] = h
    <3>1. /\ c \in Counted(h) /\ Counted(h)' \subseteq Counted(h) \ {c}
          /\ c \in Granted(h) /\ Granted(h)' \subseteq Granted(h) \ {c}
      BY <1>11, <2>2 DEF Send, Proceed, Vacate, Counted, Granted, CapTypeOK
    <3>2. /\ Cardinality(Counted(h)') + 1 <= Cardinality(Counted(h))
          /\ Cardinality(Granted(h)') + 1 <= Cardinality(Granted(h))
      BY <1>3, <3>1, OneLeaves
    <3>3. sent'[h] = sent[h] + 1
      BY <1>11, <2>2 DEF Send, CapTypeOK
    <3>4. QED
      BY <1>1, <1>2, <1>4, <3>2, <3>3
  <2>3. QED
    BY <2>1, <2>2
\* A slot handed back to its own counter leaves it; to another, it is erased there.
<1>12. ASSUME NEW c \in Clients, Decr(c) \/ DecrFails(c) PROVE Covers(h)' /\ Accounted(h)'
  <2> UNCHANGED <<sent, open, key>> /\ pc[c] = "decr"
    BY <1>12 DEF Decr, DecrFails
  <2>1. Granted(h)' \subseteq Granted(h) /\ Counted(h)' \subseteq Counted(h)
    BY <1>12 DEF Decr, DecrFails, Proceed, Vacate, Granted, Counted, CapTypeOK
  <2>2. CASE UNCHANGED <<counter, erased>>
    BY <1>2, <1>6, <2>1, <2>2
  <2>3. CASE TakeOff(c)
    <3>1. CASE key[c] # h
      <4>1. counter'[h] = counter[h] /\ erased'[h] = erased[h]
        BY <2>3, <3>1 DEF TakeOff, Count, Erase, CapTypeOK
      <4>2. QED
        BY <1>2, <1>6, <2>1, <4>1
    <3>2. CASE key[c] = h /\ slot[c] # h
      <4>1. counter'[h] = counter[h] - 1 /\ erased'[h] = erased[h] + 1
        BY <2>3, <3>2 DEF TakeOff, Count, Erase, CapTypeOK
      <4>2. QED
        BY <1>2, <1>6, <2>1, <4>1
    <3>3. CASE key[c] = h /\ slot[c] = h
      <4>1. counter'[h] = counter[h] - 1 /\ erased'[h] = erased[h]
        BY <1>2, <2>3, <3>3 DEF TakeOff, Count, Erase, CapTypeOK
      <4>2. c \in Counted(h) /\ Counted(h)' \subseteq Counted(h) \ {c}
        BY <1>12, <3>3 DEF Decr, DecrFails, Proceed, Vacate, Counted, CapTypeOK
      <4>3. Cardinality(Counted(h)') + 1 <= Cardinality(Counted(h))
        BY <1>3, <4>2, OneLeaves
      <4>4. Cardinality(Granted(h)') <= Cardinality(Granted(h))
        BY <1>3, <2>1, NoneJoins
      <4>5. QED
        BY <1>1, <1>2, <1>4, <4>1, <4>3, <4>4
    <3>4. QED
      BY <3>1, <3>2, <3>3
  <2>4. QED
    BY <1>12, <2>2, <2>3 DEF Decr, DecrFails
<1>13. ASSUME NEW c \in Clients, DropKey(c) \/ DropFails(c) PROVE Covers(h)' /\ Accounted(h)'
  <2>1. Granted(h)' \subseteq Granted(h) /\ Counted(h)' \subseteq Counted(h) /\ UNCHANGED <<sent, open>>
    BY <1>13 DEF DropKey, DropFails, Proceed, Granted, Counted, CapTypeOK, capHistory
  <2>2. erased'[h] >= erased[h] /\ counter'[h] + erased'[h] >= counter[h] + erased[h]
    BY <1>2, <1>13 DEF DropKey, DropFails, Erase, CapTypeOK, capHistory
  <2>3. QED
    BY <1>2, <1>6, <2>1, <2>2
<1>14. CASE NextHour \/ UNCHANGED capVars
  BY <1>2, <1>6, <1>14 DEF NextHour, capVars, clientVars, capHistory, Granted, Counted
<1>15. QED
  BY <1>7, <1>8, <1>9, <1>10, <1>11, <1>12, <1>13, <1>14 DEF CapNext

\* The accounting holds for any clients, cap and hours: CapInv.
THEOREM Accounting == CapSpec => []CapInv
BY CapStart, CapPreserved, PTL DEF CapSpec

\* Every message over the cap is owed to a failure or to a foreign release: CapAccounted.
THEOREM CapIsAccounted == CapSpec => []CapAccounted
<1>1. CapInv => CapAccounted
  BY DEF CapInv
<1>2. QED
  BY Accounting, <1>1, PTL
-----------------------------------------------------------------------------
(* Within one hour and without Redis failures the cap is strict *)

\* Every client beyond the INCR is counted, and nobody has been robbed of a slot.
Quiet ==
    /\ \A c \in Clients :
          /\ pc[c] \in {"undo", "held", "decr"} => slot[c] = key[c]
          /\ pc[c] # "drop"
    /\ \A h \in Hours : open[h] = 0 /\ erased[h] = 0

LEMMA QuietStep ==
    ASSUME LastHour = 0, ~RedisOutages, CapInv, Quiet, [CapNext]_capVars
    PROVE  Quiet'
<1> USE DEF Proceed, Occupy, Vacate, capHistory, clientVars
<1> CapTypeOK /\ Hours = {0}
  BY DEF CapInv, Hours
<1>1. hour = 0 /\ \A c \in Clients : key[c] = 0
  BY DEF CapTypeOK
<1>2. ASSUME NEW c \in Clients, Reserve(c) \/ Incr(c) \/ Undo(c) \/ Send(c) \/ GiveBack(c) \/ Abandon(c)
      PROVE  Quiet'
  BY <1>1, <1>2 DEF Quiet, CapTypeOK, Reserve, Incr, Undo, Send, GiveBack, Abandon
<1>3. ASSUME NEW c \in Clients, Decr(c)
      PROVE  Quiet'
  <2>1. pc[c] = "decr" /\ slot[c] = 0 /\ key[c] = 0
    BY <1>1, <1>3 DEF Decr, Quiet
  <2>2. Counted(0) \in SUBSET Clients /\ c \in Counted(0)
    BY <2>1 DEF Counted
  <2>3. Cardinality({}) + 1 <= Cardinality(Counted(0))
    BY <2>2, OneLeaves
  <2>4. counter[0] >= 1
    BY <2>2, <2>3, Size, FS_EmptySet DEF CapInv, CounterCovers, Quiet, CapTypeOK
  <2>5. pc' = [pc EXCEPT ![c] = "idle"]
    <3>1. ~(counter[key[c]] - 1 < 0)
      BY <2>1, <2>4 DEF CapTypeOK
    <3>2. QED
      BY <1>3, <3>1 DEF Decr
  <2>6. UNCHANGED open /\ \A h \in Hours : erased'[h] = erased[h]
    BY <1>3, <2>1 DEF Decr, TakeOff, Erase, CapTypeOK
  <2>7. UNCHANGED key /\ slot' = [slot EXCEPT ![c] = NoSlot]
    BY <1>3 DEF Decr
  <2>8. QED
    BY <2>5, <2>6, <2>7 DEF Quiet, CapTypeOK
<1>4. ~\E c \in Clients : IncrFails(c) \/ UndoFails(c) \/ DecrFails(c) \/ DropFails(c) \/ DropKey(c)
  BY DEF IncrFails, UndoFails, DecrFails, DropFails, DropKey, Quiet
<1>5. ~NextHour
  BY <1>1 DEF NextHour
<1>6. CASE UNCHANGED capVars
  BY <1>6 DEF capVars, Quiet
<1>7. QED
  BY <1>2, <1>3, <1>4, <1>5, <1>6 DEF CapNext

\* No hour's messages exceed the cap while the clock hour lasts and Redis answers: CapHonoured.
THEOREM CapWithinOneHour ==
    ASSUME LastHour = 0, ~RedisOutages
    PROVE  CapSpec => []CapHonoured
<1>1. CapInit => Quiet
  BY DEF CapInit, Quiet
<1>2. CapInv /\ Quiet /\ [CapNext]_capVars => Quiet'
  BY QuietStep
<1>3. CapInv /\ Quiet => CapHonoured
  <2> SUFFICES ASSUME CapInv, Quiet, NEW h \in Hours PROVE sent[h] <= Cap
    BY DEF CapHonoured
  <2>1. Cardinality(Granted(h)) \in Nat
    BY Size DEF Granted
  <2>2. QED
    BY <2>1, CapAssumption DEF CapInv, CapAccounted, Quiet, CapTypeOK
<1>4. QED
  BY <1>1, <1>2, <1>3, Accounting, PTL DEF CapSpec

-----------------------------------------------------------------------------
(* Opt-outs *)

USE OptOutAssumption

OneHolder == \A p, q \in RowsWithAddress : p = q

\* What a job in progress holds.
JobTyped(job) ==
    /\ job.at # "off" => job.who \in Tracked
    /\ job.at \in {"dedupe", "save", "check", "overwrite"} => job.mail \in {"this", "other"}
    /\ job.at \in {"check", "overwrite"} => identity[job.who] # Absent

\* A job that clears the flag of a row an opt-out has flagged is late: what it
\* read had the address already, and it found the entry; or it read before.
FlagRespected(job) ==
    job.at \in {"check", "overwrite"} /\ job.who \in flagged =>
        \/ job.late
        \/ /\ job.stored.mail = "this"
           /\ job.at = "overwrite" /\ job.clear /\ job.mail = "this" => lifted

\* A job nobody has overtaken still finds no other row with its address.
HolderFound(job) ==
    job.at \in {"save", "check", "overwrite"} /\ job.mail = "this" =>
        RowsWithAddress \subseteq {job.who}

\* Why OptOutSound holds.
OptOutInv ==
    /\ OptOutTypeOK
    /\ FlagsKept
    /\ flagged \subseteq RowsWithAddress
    /\ flagged # {} => lifted \/ Suppressed({"do_not_email"})
    /\ crossed \/ (OneHolder /\ Cardinality(Imported) <= MaxImported)
    /\ \A j \in Jobs : /\ JobTyped(resolver[j]) /\ FlagRespected(resolver[j])
                       /\ crossed \/ j \in looked \/ HolderFound(resolver[j])
    /\ \A u \in Uploads : upload[u] # "off" =>
          \/ crossed \/ u \in looked
          \/ RowsWithAddress = {} /\ Cardinality(Imported) + 1 <= MaxImported

\* What two of a job's reads leave it with.
LEMMA Matched ==
    \A old \in Resolutions, mail \in {"this", "other"} :
        LET job == [old EXCEPT !.at = "dedupe", !.mail = mail]
        IN  job \in Resolutions /\ job.at = "dedupe" /\ job.who = old.who /\ job.mail = mail
BY DEF Resolutions

LEMMA RowRead ==
    \A old \in Resolutions, row \in Identities :
        LET job == [old EXCEPT !.at = "check", !.stored = row]
        IN  /\ job \in Resolutions /\ job.at = "check" /\ job.who = old.who
            /\ job.mail = old.mail /\ job.stored = row
BY DEF Resolutions

LEMMA OptOutStart == OptOutInit => OptOutInv
<1> SUFFICES ASSUME OptOutInit PROVE OptOutInv
  OBVIOUS
<1>1. /\ identity \in [Everyone -> Identities] /\ resolver \in [Jobs -> Resolutions]
      /\ OneHolder /\ Imported = {}
  BY DEF OptOutInit, Everyone, Identities, Resolutions, NoJob, Absent, OneHolder,
         RowsWithAddress, Imported
<1>2. Cardinality(Imported) = 0
  BY <1>1, FS_EmptySet
<1>3. OptOutTypeOK
  BY <1>1 DEF OptOutInit, OptOutTypeOK
<1>4. QED
  BY <1>1, <1>2, <1>3 DEF OptOutInit, OptOutInv, FlagsKept, JobTyped, FlagRespected, HolderFound,
         NoJob

\* What the flags' setting does to the rows.
LEMMA Flagged ==
    ASSUME OptOutTypeOK, NEW P
    PROVE  /\ Flag(P) \in [Everyone -> Identities]
           /\ \A p \in Everyone :
                 /\ Flag(P)[p].mail = identity[p].mail
                 /\ Flag(P)[p] = Absent <=> identity[p] = Absent
                 /\ identity[p].doNotEmail => Flag(P)[p].doNotEmail
                 /\ p \in P /\ identity[p] # Absent => Flag(P)[p].doNotEmail
BY DEF OptOutTypeOK, Flag, Identities, Absent

\* Steps that set flags, or touch neither identities nor jobs.
LEMMA FlagsGrow ==
    ASSUME OptOutInv, OptOutTypeOK',
           identity' = identity \/ \E P : identity' = Flag(P),
           UNCHANGED <<resolver, upload, flagged, lifted, overtaken, looked, crossed>>,
           listed' = listed
    PROVE  OptOutInv'
<1>1. \A p \in Everyone : /\ identity'[p].mail = identity[p].mail
                          /\ identity'[p] = Absent <=> identity[p] = Absent
                          /\ identity[p].doNotEmail => identity'[p].doNotEmail
  BY Flagged DEF OptOutInv
<1>2. RowsWithAddress' = RowsWithAddress /\ Imported' = Imported
  BY <1>1 DEF RowsWithAddress, Imported, Everyone
<1>3. FlagsKept'
  BY <1>1 DEF OptOutInv, FlagsKept, RowsWithAddress
<1>4. \A j \in Jobs : JobTyped(resolver[j])'
  BY <1>1 DEF OptOutInv, JobTyped, Everyone
<1>5. QED
  BY <1>2, <1>3, <1>4 DEF OptOutInv, OneHolder, FlagRespected, HolderFound, Suppressed

LEMMA SuppressPreserves ==
    ASSUME OptOutInv, NEW scope \in Scopes, Suppress(scope),
           UNCHANGED <<linked, upload, lifted, overtaken, looked, crossed, disregarded>>,
           clicked' \in BOOLEAN
    PROVE  OptOutInv'
<1> USE DEF Suppress
<1>1. /\ identity' \in [Everyone -> Identities]
      /\ \A p \in Everyone : /\ identity'[p].mail = identity[p].mail
                             /\ identity'[p] = Absent <=> identity[p] = Absent
                             /\ identity[p].doNotEmail => identity'[p].doNotEmail
                             /\ scope \in {"all", "do_not_email"} /\ p \in RowsWithAddress =>
                                    identity'[p].doNotEmail
  <2>1. \A p \in RowsWithAddress : identity[p] # Absent
    BY DEF RowsWithAddress, Absent
  <2>2. QED
    BY <2>1, Flagged DEF OptOutInv, OptOutTypeOK
<1>2. RowsWithAddress' = RowsWithAddress /\ Imported' = Imported
  BY <1>1 DEF RowsWithAddress, Imported, Everyone
<1>3. resolver' \in [Jobs -> Resolutions]
  <2>1. \A job \in Resolutions : [job EXCEPT !.late = TRUE] \in Resolutions
    BY DEF Resolutions
  <2>2. QED
    BY <2>1 DEF OptOutInv, OptOutTypeOK
<1>4. \A j \in Jobs :
        /\ resolver'[j].at = resolver[j].at /\ resolver'[j].who = resolver[j].who
        /\ resolver'[j].mail = resolver[j].mail /\ resolver'[j].stored = resolver[j].stored
        /\ resolver'[j].clear = resolver[j].clear
        /\ resolver[j].at \in {"check", "overwrite"} => resolver'[j].late
  BY DEF OptOutInv, OptOutTypeOK, Resolutions
<1>5. OptOutTypeOK'
  BY <1>1, <1>3 DEF OptOutInv, OptOutTypeOK, RowsWithAddress, Everyone
<1>6. FlagsKept' /\ flagged' \subseteq RowsWithAddress'
  BY <1>1, <1>2 DEF OptOutInv, FlagsKept, RowsWithAddress
<1>7. flagged' # {} => (lifted \/ Suppressed({"do_not_email"}))'
  BY DEF OptOutInv, Suppressed
<1>8. \A j \in Jobs : JobTyped(resolver[j])' /\ FlagRespected(resolver[j])'
  BY <1>1, <1>4 DEF OptOutInv, JobTyped, FlagRespected, Everyone
<1>9. QED
  BY <1>2, <1>4, <1>5, <1>6, <1>7, <1>8 DEF OptOutInv, OneHolder, HolderFound

OnlyReads == /\ UNCHANGED <<listed, held, linked, identity, clicked, upload>>
             /\ UNCHANGED <<flagged, lifted, overtaken, looked, crossed, disregarded>>

\* Steps in which a job reads, or ends.
LEMMA JobReads ==
    ASSUME OptOutInv, NEW j \in Jobs, NEW job \in Resolutions, Continue(j, job),
           UNCHANGED <<listed, held, linked, identity, clicked, upload, flagged, lifted,
                       overtaken, crossed, disregarded>>,
           looked' = looked \/ (looked' = looked \ {j} /\ job.at = "off"),
           JobTyped(job), FlagRespected(job), crossed \/ j \in looked \/ HolderFound(job)
    PROVE  OptOutInv'
<1>1. /\ resolver' \in [Jobs -> Resolutions] /\ resolver'[j] = job
      /\ \A i \in Jobs \ {j} : resolver'[i] = resolver[i]
  BY DEF OptOutInv, OptOutTypeOK, Continue
<1>2. RowsWithAddress' = RowsWithAddress /\ Imported' = Imported
  BY DEF RowsWithAddress, Imported
<1>3. OptOutTypeOK'
  BY <1>1 DEF OptOutInv, OptOutTypeOK
<1>4. \A i \in Jobs : JobTyped(resolver[i])' /\ FlagRespected(resolver[i])'
  BY <1>1 DEF OptOutInv, JobTyped, FlagRespected
<1>5. \A i \in Jobs : (crossed \/ i \in looked \/ HolderFound(resolver[i]))'
  <2>1. ASSUME NEW i \in Jobs \ {j} PROVE (crossed \/ i \in looked \/ HolderFound(resolver[i]))'
    BY <1>1, <1>2 DEF OptOutInv, HolderFound
  <2>2. (crossed \/ j \in looked \/ HolderFound(resolver[j]))'
    BY <1>1, <1>2 DEF OptOutInv, HolderFound
  <2>3. QED
    BY <2>1, <2>2
<1>6. \A u \in Uploads : u \in looked' <=> u \in looked
  OBVIOUS
<1>7. QED
  BY <1>2, <1>3, <1>4, <1>5, <1>6 DEF OptOutInv, FlagsKept, OneHolder, Suppressed

LEMMA SavePreserves ==
    ASSUME OptOutInv, NEW j \in Jobs, NEW row \in Identities \ {Absent}, SaveRow(j, row),
           resolver[j].at \in {"save", "overwrite"},
           \* a job that does not bring the address leaves a row without it alone
           row.mail = "this" => resolver[j].mail = "this" \/ resolver[j].who \in RowsWithAddress,
           resolver[j].who \in flagged /\ row.mail = "this" =>
               \/ row.doNotEmail \/ lifted \/ resolver[j].late
               \/ ~identity[resolver[j].who].doNotEmail
    PROVE  OptOutInv'
<1> DEFINE p == resolver[j].who
<1>1. p \in Tracked /\ p \in Everyone /\ p \notin Contacts
  BY DEF OptOutInv, JobTyped, Everyone
<1>2. /\ identity' \in [Everyone -> Identities] /\ identity'[p] = row
      /\ \A q \in Everyone \ {p} : identity'[q] = identity[q]
  BY <1>1 DEF OptOutInv, OptOutTypeOK, SaveRow
<1>3. /\ resolver' \in [Jobs -> Resolutions] /\ resolver'[j] = NoJob
      /\ \A i \in Jobs \ {j} : resolver'[i] = resolver[i]
  BY DEF OptOutInv, OptOutTypeOK, SaveRow, Continue, NoJob, Resolutions, Identities
<1>4. Imported' = Imported
  BY <1>1, <1>2 DEF Imported, Everyone
<1>5. RowsWithAddress' = IF row.mail = "this" THEN RowsWithAddress \union {p}
                         ELSE RowsWithAddress \ {p}
  BY <1>1, <1>2 DEF RowsWithAddress
<1>6. OptOutTypeOK'
  BY <1>1, <1>2, <1>3 DEF OptOutInv, OptOutTypeOK, SaveRow, Wrote
<1>7. FlagsKept' /\ flagged' \subseteq RowsWithAddress'
  <2>1. flagged' \subseteq RowsWithAddress'
    BY <1>5 DEF OptOutInv, SaveRow
  <2>2. ASSUME NEW q \in flagged' PROVE identity'[q].doNotEmail \/ lifted' \/ q \in overtaken'
    BY <1>1, <1>2 DEF OptOutInv, SaveRow, FlagsKept, RowsWithAddress
  <2>3. QED
    BY <2>1, <2>2 DEF FlagsKept
<1>8. flagged' # {} => (lifted \/ Suppressed({"do_not_email"}))'
  BY DEF OptOutInv, SaveRow, Suppressed
<1>9. \A i \in Jobs : JobTyped(resolver[i])' /\ FlagRespected(resolver[i])'
  BY <1>1, <1>2, <1>3 DEF OptOutInv, SaveRow, JobTyped, FlagRespected, NoJob, Everyone
<1>10. ASSUME ~crossed' PROVE OneHolder'
  <2>1. CASE row.mail = "this" /\ p \notin RowsWithAddress
    <3>1. RowsWithAddress \subseteq {p}
      BY <1>10, <2>1 DEF OptOutInv, SaveRow, Wrote, HolderFound
    <3>2. QED
      BY <1>5, <2>1, <3>1 DEF OneHolder
  <2>2. CASE row.mail # "this" \/ p \in RowsWithAddress
    BY <1>5, <1>10, <2>2 DEF OptOutInv, SaveRow, Wrote, OneHolder
  <2>3. QED
    BY <2>1, <2>2
<1>11. \A i \in Jobs : (crossed \/ i \in looked \/ HolderFound(resolver[i]))'
  <2>1. CASE row.mail = "this"
    BY <1>3, <2>1 DEF SaveRow, Wrote, HolderFound, NoJob
  <2>2. CASE row.mail # "this"
    <3>1. HolderFound(resolver[j])'
      BY <1>3 DEF HolderFound, NoJob
    <3>2. ASSUME NEW i \in Jobs \ {j}
          PROVE  crossed' \/ i \in looked' \/ HolderFound(resolver[i])'
      BY <1>3, <1>5, <2>2 DEF OptOutInv, SaveRow, Wrote, HolderFound
    <3>3. QED
      BY <3>1, <3>2
  <2>3. QED
    BY <2>1, <2>2
<1>12. \A u \in Uploads : upload'[u] # "off" =>
          \/ crossed' \/ u \in looked'
          \/ RowsWithAddress' = {} /\ Cardinality(Imported') + 1 <= MaxImported
  <2>1. CASE row.mail = "this"
    BY <2>1 DEF SaveRow, Wrote
  <2>2. CASE row.mail # "this"
    BY <1>4, <1>5, <2>2 DEF OptOutInv, SaveRow, Wrote
  <2>3. QED
    BY <2>1, <2>2
<1>13. QED
  BY <1>4, <1>6, <1>7, <1>8, <1>9, <1>10, <1>11, <1>12 DEF OptOutInv, SaveRow, Wrote

LEMMA ImportPreserves ==
    ASSUME OptOutInv, NEW u \in Uploads, NEW c \in Contacts, ImportContact(u, c)
    PROVE  OptOutInv'
<1> USE DEF ImportContact
<1>1. c \in Everyone /\ c \notin Tracked /\ identity[c] = Absent
  BY DEF Everyone, Imported
<1>2. /\ identity' \in [Everyone -> Identities] /\ identity'[c].mail = "this"
      /\ identity'[c] # Absent
      /\ \A q \in Everyone \ {c} : identity'[q] = identity[q]
  BY <1>1 DEF OptOutInv, OptOutTypeOK, Identities, Absent
<1>3. RowsWithAddress' = RowsWithAddress \union {c} /\ c \notin RowsWithAddress
  BY <1>1, <1>2 DEF RowsWithAddress, Absent
<1>4. Imported' = Imported \union {c}
  BY <1>1, <1>2 DEF Imported, Everyone
<1>5. OptOutTypeOK'
  BY <1>2 DEF OptOutInv, OptOutTypeOK, Wrote
<1>6. FlagsKept' /\ flagged' \subseteq RowsWithAddress'
  BY <1>2, <1>3 DEF OptOutInv, FlagsKept, RowsWithAddress
<1>7. flagged' # {} => (lifted \/ Suppressed({"do_not_email"}))'
  BY DEF OptOutInv, Suppressed
<1>8. \A i \in Jobs : JobTyped(resolver[i])' /\ FlagRespected(resolver[i])'
  BY <1>1, <1>2 DEF OptOutInv, JobTyped, FlagRespected, Everyone
<1>9. ASSUME ~crossed' PROVE OneHolder' /\ Cardinality(Imported') <= MaxImported
  <2>1. RowsWithAddress = {} /\ Cardinality(Imported) + 1 <= MaxImported
    BY <1>9 DEF OptOutInv, Wrote
  <2>2. IsFiniteSet(Imported)
    BY FS_Subset DEF Imported
  <2>3. Cardinality(Imported') = Cardinality(Imported) + 1 \/ Imported' = Imported
    BY <1>4, <2>2, FS_AddElement
  <2>4. OneHolder'
    BY <1>3, <2>1 DEF OneHolder
  <2>5. QED
    BY <1>4, <2>1, <2>2, <2>3, <2>4, FS_CardinalityType
<1>10. \A i \in Jobs : (crossed \/ i \in looked \/ HolderFound(resolver[i]))'
  BY DEF Wrote, HolderFound
<1>11. \A w \in Uploads : upload'[w] # "off" => w \in looked'
  BY DEF Wrote, OptOutInv, OptOutTypeOK
<1>12. QED
  BY <1>5, <1>6, <1>7, <1>8, <1>9, <1>10, <1>11 DEF OptOutInv, Wrote

\* Steps of an upload that write no row.
LEMMA UploadMoves ==
    ASSUME OptOutInv, NEW u \in Uploads, NEW at \in {"off", "gate", "commit"},
           upload' = [upload EXCEPT ![u] = at],
           UNCHANGED <<listed, held, linked, identity, clicked, resolver, flagged, lifted,
                       overtaken, crossed, disregarded>>,
           looked' = looked \/ (looked' = looked \ {u} /\ at = "off"),
           \/ at = "off"
           \/ crossed \/ u \in looked
           \/ RowsWithAddress = {} /\ Cardinality(Imported) + 1 <= MaxImported
    PROVE  OptOutInv'
<1>1. OptOutTypeOK'
  BY DEF OptOutInv, OptOutTypeOK
<1>2. RowsWithAddress' = RowsWithAddress /\ Imported' = Imported
  BY DEF RowsWithAddress, Imported
<1>3. upload'[u] = at /\ \A w \in Uploads \ {u} : upload'[w] = upload[w]
  BY DEF OptOutInv, OptOutTypeOK
<1>4. \A j \in Jobs : j \in looked' <=> j \in looked
  OBVIOUS
<1>5. \A w \in Uploads : upload'[w] # "off" =>
          \/ crossed' \/ w \in looked'
          \/ RowsWithAddress' = {} /\ Cardinality(Imported') + 1 <= MaxImported
  BY <1>2, <1>3 DEF OptOutInv
<1>6. QED
  BY <1>1, <1>2, <1>4, <1>5 DEF OptOutInv, FlagsKept, OneHolder, Suppressed, JobTyped,
     FlagRespected, HolderFound

LEMMA EventPreserves == OptOutInv /\ OptOutEvent => OptOutInv'
<1> SUFFICES ASSUME OptOutInv, OptOutEvent PROVE OptOutInv'
  OBVIOUS
<1> USE DEF optOutHistory, records, ReadOnly
<1>1. ASSUME NEW scope \in Scopes, AddSuppression(scope) PROVE OptOutInv'
  BY <1>1, SuppressPreserves DEF AddSuppression, OptOutInv, OptOutTypeOK
<1>2. ASSUME NEW scope \in Scopes, RemoveSuppression(scope) PROVE OptOutInv'
  <2>1. OptOutTypeOK'
    BY <1>2 DEF RemoveSuppression, OptOutInv, OptOutTypeOK
  <2>2. flagged' # {} => (lifted \/ Suppressed({"do_not_email"}))'
    BY <1>2 DEF RemoveSuppression, OptOutInv, Suppressed
  <2>3. RowsWithAddress' = RowsWithAddress /\ Imported' = Imported /\ lifted \in BOOLEAN
    BY <1>2 DEF RemoveSuppression, RowsWithAddress, Imported, OptOutInv, OptOutTypeOK
  <2>4. FlagsKept' /\ \A j \in Jobs : FlagRespected(resolver[j])'
    BY <1>2 DEF RemoveSuppression, OptOutInv, FlagsKept, FlagRespected
  <2>5. \A j \in Jobs : JobTyped(resolver[j])'
    BY <1>2 DEF RemoveSuppression, OptOutInv, JobTyped
  <2>6. QED
    BY <1>2, <2>1, <2>2, <2>3, <2>4, <2>5 DEF RemoveSuppression, OptOutInv, OneHolder, HolderFound
<1>3. ASSUME Unsubscribe PROVE OptOutInv'
  BY <1>3, SuppressPreserves DEF Unsubscribe
<1>4. ASSUME NEW p \in Everyone, Signal(p) \/ ClearHold(p) \/ GiveAddress(p) PROVE OptOutInv'
  <2>1. OptOutTypeOK'
    BY <1>4 DEF Signal, ClearHold, GiveAddress, OptOutInv, OptOutTypeOK, Everyone
  <2>2. QED
    BY <1>4, <2>1, FlagsGrow DEF Signal, ClearHold, GiveAddress
<1>5. ASSUME NEW p \in Everyone, RejectMatch(p) PROVE OptOutInv'
  <2>1. OptOutTypeOK'
    BY <1>5, Flagged DEF RejectMatch, OptOutInv, OptOutTypeOK
  <2>2. QED
    BY <1>5, <2>1, FlagsGrow DEF RejectMatch
<1>6. ASSUME NEW j \in Jobs, NEW p \in Tracked, StartResolve(j, p) PROVE OptOutInv'
  <2> DEFINE job == [NoJob EXCEPT !.at = "gate", !.who = p]
  <2>1. job \in Resolutions /\ job.at = "gate" /\ job.who = p
    BY DEF NoJob, Resolutions, Identities
  <2>2. JobTyped(job) /\ FlagRespected(job) /\ HolderFound(job)
    BY <2>1 DEF JobTyped, FlagRespected, HolderFound
  <2>3. Continue(j, job) /\ OnlyReads
    BY <1>6 DEF StartResolve, OnlyReads
  <2> HIDE DEF job
  <2>4. QED
    BY <2>1, <2>2, <2>3, JobReads DEF OnlyReads
<1>7. ASSUME NEW j \in Jobs, NEW p \in Tracked, StartWebhook(j, p) PROVE OptOutInv'
  <2>0. PICK h \in BOOLEAN :
            Continue(j, [NoJob EXCEPT !.at = "match", !.who = p, !.held = h])
    <3>1. (p \in held) \in BOOLEAN
      OBVIOUS
    <3>2. QED
      BY <1>7, <3>1 DEF StartWebhook
  <2> DEFINE job == [NoJob EXCEPT !.at = "match", !.who = p, !.held = h]
  <2>1. job \in Resolutions /\ job.at = "match" /\ job.who = p
    BY DEF NoJob, Resolutions, Identities
  <2>2. JobTyped(job) /\ FlagRespected(job) /\ HolderFound(job)
    BY <2>1 DEF JobTyped, FlagRespected, HolderFound
  <2>3. Continue(j, job) /\ OnlyReads
    BY <1>7, <2>0 DEF StartWebhook, OnlyReads
  <2> HIDE DEF job
  <2>4. QED
    BY <2>1, <2>2, <2>3, JobReads DEF OnlyReads
<1>8. ASSUME NEW u \in Uploads, StartUpload(u) PROVE OptOutInv'
  <2>1. /\ upload' = [upload EXCEPT ![u] = "gate"]
        /\ UNCHANGED <<listed, held, linked, identity, clicked, resolver, flagged, lifted,
                       overtaken, looked, crossed, disregarded>>
        /\ RowsWithAddress = {} /\ Cardinality(Imported) + 1 <= MaxImported
    BY <1>8 DEF StartUpload
  <2>2. QED
    BY <2>1, UploadMoves
<1>9. QED
  BY <1>1, <1>2, <1>3, <1>4, <1>5, <1>6, <1>7, <1>8 DEF OptOutEvent

LEMMA StepPreserves == OptOutInv /\ OptOutStep => OptOutInv'
<1> SUFFICES ASSUME OptOutInv, OptOutStep PROVE OptOutInv'
  OBVIOUS
<1> USE DEF optOutHistory, records, ReadOnly
<1>0. /\ NoJob \in Resolutions /\ JobTyped(NoJob) /\ FlagRespected(NoJob) /\ HolderFound(NoJob)
      /\ NoJob.at = "off"
  BY DEF NoJob, Resolutions, Identities, JobTyped, FlagRespected, HolderFound
<1>1. ASSUME FlagRows PROVE OptOutInv'
  <2>1. OptOutTypeOK'
    BY <1>1, Flagged DEF FlagRows, OptOutInv, OptOutTypeOK
  <2>2. QED
    BY <1>1, <2>1, FlagsGrow DEF FlagRows
<1>2. ASSUME NEW j \in Jobs, CheckOptedOut(j) PROVE OptOutInv'
  <2> DEFINE job == [resolver[j] EXCEPT !.at = "match"]
  <2>1. job \in Resolutions /\ job.at = "match" /\ job.who = resolver[j].who
    BY DEF OptOutInv, OptOutTypeOK, Resolutions
  <2>2. JobTyped(job) /\ FlagRespected(job) /\ HolderFound(job)
    BY <1>2, <2>1 DEF CheckOptedOut, OptOutInv, JobTyped, FlagRespected, HolderFound
  <2>3. (Continue(j, NoJob) \/ Continue(j, job)) /\ OnlyReads
    BY <1>2 DEF CheckOptedOut, StepTo, OnlyReads
  <2> HIDE DEF job
  <2>4. QED
    BY <1>0, <2>1, <2>2, <2>3, JobReads DEF OnlyReads
<1>3. ASSUME NEW j \in Jobs, NEW mail \in {"this", "other"}, FindMatch(j, mail) PROVE OptOutInv'
  <2> DEFINE job == [resolver[j] EXCEPT !.at = "dedupe", !.mail = mail]
  <2>1. job \in Resolutions /\ job.at = "dedupe" /\ job.who = resolver[j].who /\ job.mail = mail
    <3>1. resolver[j] \in Resolutions
      BY DEF OptOutInv, OptOutTypeOK
    <3>2. QED
      BY <3>1, Matched
  <2>2. JobTyped(job) /\ FlagRespected(job) /\ HolderFound(job)
    BY <1>3, <2>1 DEF FindMatch, OptOutInv, JobTyped, FlagRespected, HolderFound
  <2>3. Continue(j, job) /\ OnlyReads
    BY <1>3 DEF FindMatch, OnlyReads
  <2> HIDE DEF job
  <2>4. QED
    BY <2>1, <2>2, <2>3, JobReads DEF OnlyReads
<1>4. ASSUME NEW j \in Jobs, LookForHolder(j) PROVE OptOutInv'
  <2> DEFINE job == [resolver[j] EXCEPT !.at = "save"]
  <2>1. job \in Resolutions /\ job.at = "save" /\ job.who = resolver[j].who
        /\ job.mail = resolver[j].mail
    BY DEF OptOutInv, OptOutTypeOK, Resolutions
  <2>2. JobTyped(job) /\ FlagRespected(job)
    BY <1>4, <2>1 DEF LookForHolder, OptOutInv, JobTyped, FlagRespected
  <2>3. (Continue(j, NoJob) \/ (Continue(j, job) /\ HolderFound(job))) /\ OnlyReads
    BY <1>4, <2>1 DEF LookForHolder, StepTo, HolderFound, OnlyReads
  <2> HIDE DEF job
  <2>4. QED
    BY <1>0, <2>1, <2>2, <2>3, JobReads DEF OnlyReads
<1>5. ASSUME NEW j \in Jobs, InsertRow(j) PROVE OptOutInv'
  <2> DEFINE row == [mail |-> resolver[j].mail, doNotEmail |-> FALSE]
  <2>1. row \in Identities \ {Absent} /\ row.mail = resolver[j].mail
    BY <1>5 DEF InsertRow, OptOutInv, JobTyped, Identities, Absent
  <2>2. resolver[j].who \notin flagged
    BY <1>5 DEF InsertRow, OptOutInv, RowsWithAddress, Absent
  <2>3. QED
    BY <1>5, <2>1, <2>2, SavePreserves DEF InsertRow
<1>6. ASSUME NEW j \in Jobs, ReadRow(j) PROVE OptOutInv'
  <2> DEFINE job == [resolver[j] EXCEPT !.at = "check", !.stored = identity[resolver[j].who]]
  <2>1. resolver[j].who \in Tracked
    BY <1>6 DEF ReadRow, OptOutInv, JobTyped
  <2>2. job \in Resolutions /\ job.at = "check" /\ job.who = resolver[j].who
        /\ job.mail = resolver[j].mail /\ job.stored = identity[resolver[j].who]
    <3>1. resolver[j] \in Resolutions /\ identity[resolver[j].who] \in Identities
      BY <2>1 DEF OptOutInv, OptOutTypeOK, Everyone
    <3>2. QED
      BY <3>1, RowRead
  <2>3. JobTyped(job) /\ FlagRespected(job)
    BY <1>6, <2>2 DEF ReadRow, OptOutInv, JobTyped, FlagRespected, RowsWithAddress
  <2>4. crossed \/ j \in looked \/ HolderFound(job)
    BY <1>6, <2>2 DEF ReadRow, OptOutInv, HolderFound
  <2>5. Continue(j, job) /\ OnlyReads
    BY <1>6 DEF ReadRow, OnlyReads
  <2> HIDE DEF job
  <2>6. QED
    BY <2>2, <2>3, <2>4, <2>5, JobReads DEF OnlyReads
<1>7. ASSUME NEW j \in Jobs, CheckSuppressed(j) PROVE OptOutInv'
  <2> DEFINE clear == ~(resolver[j].mail = "this" /\ Suppressed({"do_not_email"}))
  <2>1. PICK changed \in BOOLEAN :
            Continue(j, [resolver[j] EXCEPT !.at = "overwrite", !.changed = changed,
                                            !.clear = clear])
    BY <1>7 DEF CheckSuppressed, Flush
  <2> DEFINE job == [resolver[j] EXCEPT !.at = "overwrite", !.changed = changed, !.clear = clear]
  <2>2. /\ job \in Resolutions /\ job.at = "overwrite" /\ job.who = resolver[j].who
        /\ job.mail = resolver[j].mail /\ job.stored = resolver[j].stored
        /\ job.late = resolver[j].late /\ job.clear = clear
    BY DEF OptOutInv, OptOutTypeOK, Resolutions
  <2>3. JobTyped(job)
    BY <1>7, <2>2 DEF CheckSuppressed, Flush, OptOutInv, JobTyped
  <2>4. FlagRespected(job)
    BY <1>7, <2>2 DEF CheckSuppressed, Flush, OptOutInv, FlagRespected
  <2>5. crossed \/ j \in looked \/ HolderFound(job)
    BY <1>7, <2>2 DEF CheckSuppressed, Flush, OptOutInv, HolderFound
  <2>6. Continue(j, job) /\ OnlyReads
    BY <1>7, <2>1 DEF CheckSuppressed, Flush, OnlyReads
  <2> HIDE DEF job
  <2>7. QED
    BY <2>2, <2>3, <2>4, <2>5, <2>6, JobReads DEF OnlyReads
<1>8. ASSUME NEW j \in Jobs, OverwriteRow(j) PROVE OptOutInv'
  <2> DEFINE now == identity[resolver[j].who]
             was == resolver[j].stored
             row == [mail |-> IF resolver[j].mail = was.mail THEN now.mail ELSE resolver[j].mail,
                     doNotEmail |-> IF resolver[j].clear /\ was.doNotEmail THEN FALSE
                                    ELSE now.doNotEmail]
  <2>1. resolver[j].who \in Everyone /\ now \in Identities \ {Absent}
        /\ resolver[j].mail \in {"this", "other"}
    BY <1>8 DEF OverwriteRow, OptOutInv, OptOutTypeOK, JobTyped, Everyone
  <2>2. row \in Identities \ {Absent}
    BY <2>1 DEF Identities, Absent
  <2>3. row.mail = "this" => resolver[j].mail = "this" \/ resolver[j].who \in RowsWithAddress
    BY <2>1 DEF RowsWithAddress
  <2>4. resolver[j].who \in flagged /\ row.mail = "this" =>
            row.doNotEmail \/ lifted \/ resolver[j].late \/ ~now.doNotEmail
    BY <1>8 DEF OverwriteRow, OptOutInv, FlagRespected
  <2>5. QED
    BY <1>8, <2>2, <2>3, <2>4, SavePreserves DEF OverwriteRow
<1>9. ASSUME NEW j \in Jobs, EndResolve(j) PROVE OptOutInv'
  BY <1>0, <1>9, JobReads DEF EndResolve
<1>10. ASSUME NEW u \in Uploads, CheckUpload(u) PROVE OptOutInv'
  <2>1. upload'[u] = "off" <=>
            Suppressed({"erased", "do_not_process", "do_not_email", "do_not_sell"})
    BY <1>10 DEF CheckUpload, OptOutInv, OptOutTypeOK
  <2>2. crossed \/ u \in looked \/ (RowsWithAddress = {} /\ Cardinality(Imported) + 1 <= MaxImported)
    BY <1>10 DEF CheckUpload, OptOutInv
  <2> DEFINE at == upload'[u]
  <2>3. upload' = [upload EXCEPT ![u] = at] /\ at \in {"off", "gate", "commit"}
    BY <1>10 DEF CheckUpload, OptOutInv, OptOutTypeOK
  <2>4. /\ UNCHANGED <<listed, held, linked, identity, clicked, resolver, flagged, lifted,
                       overtaken, crossed, disregarded>>
        /\ looked' = looked \/ (looked' = looked \ {u} /\ at = "off")
    BY <1>10 DEF CheckUpload
  <2> HIDE DEF at
  <2>5. QED
    BY <2>2, <2>3, <2>4, UploadMoves
<1>11. ASSUME NEW u \in Uploads, FailUpload(u) PROVE OptOutInv'
  BY <1>11, UploadMoves DEF FailUpload
<1>12. ASSUME NEW u \in Uploads, NEW c \in Contacts, ImportContact(u, c) PROVE OptOutInv'
  BY <1>12, ImportPreserves
<1>13. QED
  BY <1>1, <1>2, <1>3, <1>4, <1>5, <1>6, <1>7, <1>8, <1>9, <1>10, <1>11, <1>12 DEF OptOutStep

LEMMA OptOutPreserved == OptOutInv /\ [OptOutNext]_optOutVars => OptOutInv'
<1> SUFFICES ASSUME OptOutInv, UNCHANGED optOutVars PROVE OptOutInv'
  BY EventPreserves, StepPreserves DEF OptOutNext
<1>1. OptOutTypeOK'
  BY DEF OptOutInv, OptOutTypeOK, optOutVars
<1>2. QED
  BY <1>1, FlagsGrow DEF optOutVars

\* The inductive form of both properties: OptOutInv.
THEOREM OptOutInvariance == OptOutSpec => []OptOutInv
BY OptOutStart, OptOutPreserved, PTL DEF OptOutSpec

\* An opt-out's flag stays, and an address stays in one row, but for the
\* overlaps that OptOutSound names; for any visitors, jobs and uploads.
THEOREM OptOutsSound == OptOutSpec => []OptOutSound
<1>1. OptOutInv => OptOutSound
  <2> SUFFICES ASSUME OptOutInv, OneHolder PROVE Cardinality(RowsWithAddress) <= 1
    BY DEF OptOutInv, OptOutSound, AddressOnce
  <2>1. CASE RowsWithAddress = {}
    BY <2>1, FS_EmptySet
  <2>2. CASE RowsWithAddress # {}
    <3>1. PICK p : RowsWithAddress = {p}
      BY <2>2 DEF OneHolder
    <3>2. Cardinality(RowsWithAddress) = 1
      BY <3>1, FS_Singleton
    <3>3. QED
      BY <3>2
  <2>3. QED
    BY <2>1, <2>2
<1>2. QED
  BY <1>1, OptOutInvariance, PTL

-----------------------------------------------------------------------------
(* Conversions *)

\* Whom an order may have been attributed to: the visitors its customer's e-mail
\* was seen with, and the one derived from it.
Whos == {Minted} \union {seenAs[i] : i \in 1..Len(seenAs)}

\* The unique index.
OneForAKey == \A c, d \in conversions : c.key = d.key => c = d

\* An order's conversion has the key of one of these visitors, of the kind of the
\* goal unless that was edited.
OrdersKeyed ==
    \A c \in conversions : c.order \in Orders =>
       \E p \in Whos : \/ c.key = <<goal.id, p>> /\ (flips = 0 => ~goal.repeatable)
                       \/ c.key = <<goal.id, p, c.order>> /\ (flips = 0 => goal.repeatable)

\* The goal a writer has loaded is the present one, as it is unless it was edited,
\* or an earlier one.
GoalsLoaded ==
    \A w \in Writers : writer[w].at \in {"visitor", "credit", "insert"} =>
       /\ writer[w].goal.id <= goal.id
       /\ (writer[w].goal.id = goal.id /\ flips = 0) => writer[w].goal.repeatable = goal.repeatable

\* Orders come by webhook and are attributed to one of these visitors.
OrdersAttributed ==
    \A w \in Writers :
       /\ writer[w].order \in Orders => w \in Reports
       /\ (writer[w].order \in Orders /\ writer[w].at \in {"credit", "insert"}) => writer[w].who \in Whos
       /\ w \in Reports => writer[w].at # "click" /\ ~writer[w].owed
       /\ writer[w].at = "visitor" => w \in Reports
       /\ writer[w].at = "click" => writer[w].who \in Browsers

\* A landing owed a credit has its click stored, up to its credit.
ClicksStored ==
    \A w \in Writers : writer[w].owed =>
       \/ ~campaign
       \/ writer[w].at \in {"goals", "credit"} /\ writer[w].who \in landed
       \/ writer[w].at = "insert" /\ writer[w].credited

CreditsGiven == \A c \in conversions : c.owed => c.credited \/ ~campaign

ConversionsInv ==
    /\ ConversionsTypeOK /\ OneForAKey /\ OrdersKeyed
    /\ GoalsLoaded /\ OrdersAttributed /\ ClicksStored /\ CreditsGiven

WriterRow == [at : {"off", "click", "goals", "visitor", "credit", "insert", "over"},
              who : People, order : Orders \union {NoOrder},
              owed : BOOLEAN, credited : BOOLEAN, goal : Goal]

\* An image has no more elements than the set.
LEMMA ImageCount ==
    ASSUME NEW S, IsFiniteSet(S), NEW f, f = [x \in S |-> f[x]]
    PROVE  IsFiniteSet({f[x] : x \in S}) /\ Cardinality({f[x] : x \in S}) <= Cardinality(S)
<1> DEFINE T == {f[x] : x \in S}
<1>1. f \in Surjection(S, T)
    BY DEF Surjection
<1> QED BY <1>1, FS_Surjection

\* And one that tells the elements apart has no fewer.
LEMMA InjectiveCount ==
    ASSUME NEW S, NEW T, IsFiniteSet(T), NEW f \in [S -> T], \A x, y \in S : f[x] = f[y] => x = y
    PROVE  Cardinality(S) \in Nat /\ Cardinality(S) <= Cardinality(T)
<1>1. f \in Injection(S, T)
    BY DEF Injection, IsInjective
<1>2. IsFiniteSet(S) /\ Cardinality(S) <= Cardinality(T)
    BY <1>1, FS_Injection
<1> QED BY <1>2, FS_CardinalityType

\* A customer seen n times is n visitors at most, and the one derived from the e-mail.
LEMMA WhosCount ==
    ASSUME ConversionsTypeOK
    PROVE  IsFiniteSet(Whos) /\ Cardinality(Whos) <= 1 + Len(seenAs) /\ Len(seenAs) \in Nat
<1> DEFINE S == 1..Len(seenAs)
           f == [i \in S |-> seenAs[i]]
           T == {f[i] : i \in S}
<1>1. Len(seenAs) \in Nat
    BY DEF ConversionsTypeOK
<1>2. IsFiniteSet(S) /\ Cardinality(S) = Len(seenAs)
    <2>1. PICK n \in Nat : n = Len(seenAs)
        BY <1>1
    <2>2. IsFiniteSet(1..n) /\ Cardinality(1..n) = IF 1 > n THEN 0 ELSE n - 1 + 1
        BY FS_Interval
    <2> QED BY <2>1, <2>2
<1>3. IsFiniteSet(T) /\ Cardinality(T) <= Cardinality(S)
    <2>1. f = [i \in S |-> f[i]]
        OBVIOUS
    <2> HIDE DEF f, S
    <2> QED BY <1>2, <2>1, ImageCount
<1>4. Whos = T \union {Minted}
    BY DEF Whos
<1> HIDE DEF T, S
<1>5. Cardinality(T) \in Nat /\ Cardinality(S) \in Nat
    BY <1>2, <1>3, FS_CardinalityType
<1>6. /\ IsFiniteSet(T \union {Minted})
      /\ Cardinality(T \union {Minted}) = IF Minted \in T THEN Cardinality(T) ELSE Cardinality(T) + 1
    BY <1>3, FS_AddElement
<1> QED BY <1>1, <1>2, <1>3, <1>4, <1>5, <1>6

\* Two sets of at most n have at most 2 n between them.
LEMMA UnionCount ==
    ASSUME NEW F, NEW G, IsFiniteSet(F), IsFiniteSet(G), NEW n \in Nat,
           Cardinality(F) <= n, Cardinality(G) <= n
    PROVE  IsFiniteSet(F \union G) /\ Cardinality(F \union G) \in Nat /\ Cardinality(F \union G) <= 2 * n
<1>1. /\ IsFiniteSet(F \union G)
      /\ Cardinality(F \union G) = Cardinality(F) + Cardinality(G) - Cardinality(F \cap G)
    BY FS_Union
<1>2. IsFiniteSet(F \cap G)
    BY FS_Intersection
<1>3. {Cardinality(F), Cardinality(G), Cardinality(F \union G), Cardinality(F \cap G)} \subseteq Nat
    BY <1>1, <1>2, FS_CardinalityType
<1> QED BY <1>1, <1>3

\* The conversions of an order are no more than its keys.
LEMMA OrderCounted ==
    ASSUME ConversionsInv, NEW o \in Orders
    PROVE  Cardinality({c \in conversions : c.order = o}) <= (1 + Len(seenAs)) * (1 + flips)
<1> DEFINE C == {c \in conversions : c.order = o}
           short == [p \in Whos |-> <<goal.id, p>>]
           long == [p \in Whos |-> <<goal.id, p, o>>]
           F == {short[p] : p \in Whos}
           G == {long[p] : p \in Whos}
           keyOf == [c \in C |-> c.key]
           n == Cardinality(Whos)
<1>1. /\ IsFiniteSet(Whos) /\ n <= 1 + Len(seenAs) /\ Len(seenAs) \in Nat
    BY WhosCount DEF ConversionsInv
<1>2. /\ IsFiniteSet(F) /\ IsFiniteSet(G) /\ IsFiniteSet(F \union G)
      /\ Cardinality(F) <= n /\ Cardinality(G) <= n
      /\ Cardinality(F \union G) <= 2 * n
      /\ {Cardinality(F), Cardinality(G), n, Cardinality(F \union G)} \subseteq Nat
    <2>1. short = [p \in Whos |-> short[p]] /\ long = [p \in Whos |-> long[p]]
        OBVIOUS
    <2> HIDE DEF short, long
    <2>2. IsFiniteSet(F) /\ Cardinality(F) <= n
        BY <1>1, <2>1, ImageCount
    <2>3. IsFiniteSet(G) /\ Cardinality(G) <= n
        BY <1>1, <2>1, ImageCount
    <2> HIDE DEF F, G, n
    <2>4. {Cardinality(F), Cardinality(G), n} \subseteq Nat
        BY <1>1, <2>2, <2>3, FS_CardinalityType DEF n
    <2> QED BY <2>2, <2>3, <2>4, UnionCount
<1>3. \A c \in C : /\ c.key \in F \union G
                   /\ flips = 0 => c.key \in (IF goal.repeatable THEN G ELSE F)
    <2> SUFFICES ASSUME NEW c \in C
                 PROVE  /\ c.key \in F \union G
                        /\ flips = 0 => c.key \in (IF goal.repeatable THEN G ELSE F)
        OBVIOUS
    <2>1. PICK p \in Whos : \/ c.key = <<goal.id, p>> /\ (flips = 0 => ~goal.repeatable)
                            \/ c.key = <<goal.id, p, o>> /\ (flips = 0 => goal.repeatable)
        BY DEF ConversionsInv, OrdersKeyed
    <2>2. short[p] \in F /\ long[p] \in G /\ short[p] = <<goal.id, p>> /\ long[p] = <<goal.id, p, o>>
        OBVIOUS
    <2> HIDE DEF short, long, F, G
    <2> QED BY <2>1, <2>2
<1>4. \A c, d \in C : keyOf[c] = keyOf[d] => c = d
    BY DEF ConversionsInv, OneForAKey
<1>5. flips \in Nat
    BY ConversionsAssumption DEF ConversionsInv, ConversionsTypeOK
<1> HIDE DEF F, G, n
<1>6. CASE flips = 0
    <2> DEFINE K == IF goal.repeatable THEN G ELSE F
    <2>1. IsFiniteSet(K) /\ Cardinality(K) <= n /\ Cardinality(K) \in Nat
        BY <1>2
    <2>2. keyOf \in [C -> K]
        BY <1>3, <1>6
    <2> HIDE DEF K, keyOf, C
    <2>3. Cardinality(C) \in Nat /\ Cardinality(C) <= Cardinality(K)
        BY <1>4, <2>1, <2>2, InjectiveCount
    <2>4. Cardinality(C) <= 1 + Len(seenAs)
        BY <1>1, <1>2, <2>1, <2>3
    <2>5. (1 + Len(seenAs)) * (1 + flips) = 1 + Len(seenAs)
        BY <1>1, <1>6
    <2> QED BY <2>4, <2>5 DEF C
<1>7. CASE flips # 0
    <2> DEFINE K == F \union G
    <2>1. keyOf \in [C -> K]
        BY <1>3
    <2> HIDE DEF K, keyOf, C
    <2>2. Cardinality(C) \in Nat /\ Cardinality(C) <= Cardinality(K)
        BY <1>2, <1>4, <2>1, InjectiveCount DEF K
    <2>3. Cardinality(C) <= 2 * (1 + Len(seenAs))
        BY <1>1, <1>2, <2>2 DEF K
    <2>4. \A a, b \in Nat : b # 0 => 2 * a <= a * (1 + b)
        OBVIOUS
    <2>5. 2 * (1 + Len(seenAs)) <= (1 + Len(seenAs)) * (1 + flips)
        BY <1>1, <1>5, <1>7, <2>4
    <2>6. (1 + Len(seenAs)) * (1 + flips) \in Nat /\ 2 * (1 + Len(seenAs)) \in Nat
        BY <1>1, <1>5
    <2> QED BY <2>2, <2>3, <2>5, <2>6 DEF C
<1> QED BY <1>6, <1>7

\* What one writer's step has to keep.
LEMMA WriterMoves ==
    ASSUME ConversionsInv, NEW w \in Writers, NEW row \in WriterRow, writer' = [writer EXCEPT ![w] = row],
           goal' = goal, flips' = flips, seenAs' = seenAs, campaign' = campaign, landed \subseteq landed',
           row.at \in {"visitor", "credit", "insert"} =>
              /\ row.goal.id <= goal.id
              /\ (row.goal.id = goal.id /\ flips = 0) => row.goal.repeatable = goal.repeatable,
           row.order \in Orders => w \in Reports,
           (row.order \in Orders /\ row.at \in {"credit", "insert"}) => row.who \in Whos,
           w \in Reports => row.at # "click" /\ ~row.owed,
           row.at = "visitor" => w \in Reports,
           row.at = "click" => row.who \in Browsers,
           row.owed => \/ ~campaign
                       \/ row.at \in {"goals", "credit"} /\ row.who \in landed'
                       \/ row.at = "insert" /\ row.credited
    PROVE  writer' \in [Writers -> WriterRow] /\ GoalsLoaded' /\ OrdersAttributed' /\ ClicksStored'
<1>1. /\ writer' \in [Writers -> WriterRow] /\ writer'[w] = row
      /\ \A v \in Writers \ {w} : writer'[v] = writer[v]
    BY DEF ConversionsInv, ConversionsTypeOK, WriterRow
<1>2. Whos' = Whos
    BY DEF Whos
<1>3. GoalsLoaded'
    BY <1>1 DEF ConversionsInv, GoalsLoaded
<1>4. OrdersAttributed'
    BY <1>1, <1>2 DEF ConversionsInv, OrdersAttributed
<1>5. ClicksStored'
    BY <1>1 DEF ConversionsInv, ClicksStored
<1> QED BY <1>1, <1>3, <1>4, <1>5

\* The rows are as they were.
LEMMA RowsStay ==
    ASSUME ConversionsInv, conversions' = conversions, goal' = goal, flips' = flips, seenAs' = seenAs,
           campaign' = campaign
    PROVE  OneForAKey' /\ OrdersKeyed' /\ CreditsGiven'
<1>1. Whos' = Whos
    BY DEF Whos
<1> QED BY <1>1 DEF ConversionsInv, OneForAKey, OrdersKeyed, CreditsGiven

\* A writer's step that leaves the rows alone keeps the invariant.
LEMMA WriterKeeps ==
    ASSUME ConversionsInv, conversions' = conversions, goal' = goal, flips' = flips, seenAs' = seenAs,
           campaign' = campaign, landed' \subseteq Browsers, failures' \in Nat,
           writer' \in [Writers -> WriterRow], GoalsLoaded', OrdersAttributed', ClicksStored'
    PROVE  ConversionsInv'
<1>1. ConversionsTypeOK'
    BY DEF ConversionsInv, ConversionsTypeOK, WriterRow
<1>2. OneForAKey' /\ OrdersKeyed' /\ CreditsGiven'
    BY RowsStay
<1> QED BY <1>1, <1>2 DEF ConversionsInv

\* A new row for an order has the key of a visitor of its customer.
LEMMA RowInserted ==
    ASSUME ConversionsInv, NEW w \in Writers, InsertConversion(w)
    PROVE  ConversionsInv'
<1> DEFINE me == writer[w]
<1>0. /\ goal' = goal /\ campaign' = campaign /\ seenAs' = seenAs /\ landed' = landed
      /\ flips' = flips /\ failures' = failures
      /\ me.at = "insert" /\ writer' = [writer EXCEPT ![w] = Over]
    BY DEF InsertConversion
<1>1. /\ Over \in WriterRow /\ Over.at = "over" /\ Over.order = NoOrder /\ Over.owed = FALSE
    BY DEF Over, Idle, WriterRow, Goal, People
<1>2. PICK row \in WriterRow : row = Over
    BY <1>1
<1>3. writer' \in [Writers -> WriterRow] /\ GoalsLoaded' /\ OrdersAttributed' /\ ClicksStored'
    BY <1>0, <1>1, <1>2, WriterMoves, ConversionsAssumption
<1>4. PICK day \in SaleDays :
         LET entry == DedupeKey(me.goal, me.who, me.order, day)
             refused == me.goal.id # goal.id \/ (me.credited /\ ~campaign)
             known == \E c \in conversions : c.key = entry IN
         conversions' = IF refused \/ known THEN conversions
                        ELSE conversions \union {[key |-> entry, order |-> me.order,
                                                 credited |-> me.credited, owed |-> me.owed]}
    BY DEF InsertConversion
<1> DEFINE entry == DedupeKey(me.goal, me.who, me.order, day)
           new == [key |-> entry, order |-> me.order, credited |-> me.credited, owed |-> me.owed]
<1>5. CASE conversions' = conversions
    BY <1>0, <1>3, <1>5, WriterKeeps DEF ConversionsInv, ConversionsTypeOK
<1>6. CASE /\ conversions' = conversions \union {new} /\ me.goal.id = goal.id
           /\ \A c \in conversions : c.key # entry
    <2>1. new.key = entry /\ new.order = me.order /\ new.credited = me.credited /\ new.owed = me.owed
          /\ DOMAIN new = {"key", "order", "credited", "owed"}
        OBVIOUS
    <2>2. me.order \in Orders => \E p \in Whos : \/ entry = <<goal.id, p>> /\ (flips = 0 => ~goal.repeatable)
                                                 \/ entry = <<goal.id, p, me.order>> /\ (flips = 0 => goal.repeatable)
        <3> SUFFICES ASSUME me.order \in Orders
                     PROVE  \E p \in Whos : \/ entry = <<goal.id, p>> /\ (flips = 0 => ~goal.repeatable)
                                            \/ entry = <<goal.id, p, me.order>> /\ (flips = 0 => goal.repeatable)
            OBVIOUS
        <3>1. me.who \in Whos /\ me.order # NoOrder
            BY <1>0, ConversionsAssumption DEF ConversionsInv, OrdersAttributed
        <3>2. flips = 0 => me.goal.repeatable = goal.repeatable
            BY <1>0, <1>6 DEF ConversionsInv, GoalsLoaded
        <3>3. entry = IF ~me.goal.repeatable THEN <<goal.id, me.who>> ELSE <<goal.id, me.who, me.order>>
            BY <1>6, <3>1 DEF DedupeKey
        <3> HIDE DEF me, entry
        <3> QED BY <3>1, <3>2, <3>3
    <2>3. me.owed => me.credited \/ ~campaign
        BY <1>0 DEF ConversionsInv, ClicksStored
    <2> HIDE DEF me, entry, new
    <2>4. ConversionsTypeOK'
        BY <1>0, <1>3, <1>6, <2>1 DEF ConversionsInv, ConversionsTypeOK, WriterRow
    <2>5. OneForAKey'
        BY <1>6, <2>1 DEF ConversionsInv, OneForAKey
    <2>6. Whos' = Whos
        BY <1>0 DEF Whos
    <2>7. OrdersKeyed'
        BY <1>0, <1>6, <2>1, <2>2, <2>6 DEF ConversionsInv, OrdersKeyed
    <2>8. CreditsGiven'
        BY <1>0, <1>6, <2>1, <2>3 DEF ConversionsInv, CreditsGiven
    <2> QED BY <1>3, <2>4, <2>5, <2>7, <2>8 DEF ConversionsInv
<1> HIDE DEF me
<1> QED BY <1>4, <1>5, <1>6

\* A delivery has an order and is owed nothing; a batch has a visitor.
LEMMA Arrives ==
    ASSUME ConversionsInv, NEW w \in Writers,
           \/ \E o \in Orders : Report(w, o)
           \/ \E b \in Browsers, overLink \in BOOLEAN : Land(w, b, overLink)
    PROVE  ConversionsInv'
<1>0. /\ goal' = goal /\ campaign' = campaign /\ seenAs' = seenAs /\ landed' = landed
      /\ conversions' = conversions /\ flips' = flips /\ failures' = failures
    BY DEF Report, Land
<1>1. landed' \subseteq Browsers /\ failures' \in Nat
    BY <1>0 DEF ConversionsInv, ConversionsTypeOK
<1>2. ASSUME NEW o \in Orders, Report(w, o)
      PROVE  writer' \in [Writers -> WriterRow] /\ GoalsLoaded' /\ OrdersAttributed' /\ ClicksStored'
    <2> DEFINE fresh == [Idle EXCEPT !.at = "goals", !.order = o]
    <2>1. /\ fresh \in WriterRow /\ fresh.at = "goals" /\ fresh.order = o /\ fresh.owed = FALSE
          /\ w \in Reports /\ writer' = [writer EXCEPT ![w] = fresh]
        BY <1>2 DEF Report, Idle, WriterRow, Goal, People
    <2>2. PICK row \in WriterRow : row = fresh
        BY <2>1
    <2> QED BY <1>0, <2>1, <2>2, WriterMoves
<1>3. ASSUME NEW b \in Browsers, NEW overLink \in BOOLEAN, Land(w, b, overLink)
      PROVE  writer' \in [Writers -> WriterRow] /\ GoalsLoaded' /\ OrdersAttributed' /\ ClicksStored'
    <2> DEFINE fresh == [Idle EXCEPT !.at = IF overLink THEN "click" ELSE "goals", !.who = b]
    <2>1. /\ fresh \in WriterRow /\ fresh.at \in {"click", "goals"} /\ fresh.order = NoOrder
          /\ fresh.owed = FALSE /\ fresh.who = b /\ w \notin Reports /\ writer' = [writer EXCEPT ![w] = fresh]
        BY <1>3, ConversionsAssumption DEF Land, Idle, WriterRow, Goal, People
    <2>2. PICK row \in WriterRow : row = fresh
        BY <2>1
    <2> QED BY <1>0, <2>1, <2>2, WriterMoves, ConversionsAssumption
<1> QED BY <1>0, <1>1, <1>2, <1>3, WriterKeeps

\* The batch goes on to the goals, its click stored or not owed.
LEMMA ClickTracked ==
    ASSUME ConversionsInv, NEW w \in Writers, TrackClick(w)
    PROVE  ConversionsInv'
<1>0. /\ goal' = goal /\ campaign' = campaign /\ seenAs' = seenAs
      /\ conversions' = conversions /\ flips' = flips /\ writer[w].at = "click"
    BY DEF TrackClick
<1>1. /\ writer[w] \in WriterRow /\ w \notin Reports /\ writer[w].order \notin Orders
      /\ writer[w].owed => ~campaign
    BY <1>0 DEF ConversionsInv, ConversionsTypeOK, WriterRow, OrdersAttributed, ClicksStored
<1>2. CASE /\ landed' = IF campaign THEN landed \union {writer[w].who} ELSE landed
           /\ writer' = [writer EXCEPT ![w].at = "goals", ![w].owed = campaign]
           /\ failures' = failures
    <2> DEFINE fresh == [writer[w] EXCEPT !.at = "goals", !.owed = campaign]
    <2>1. /\ fresh \in WriterRow /\ fresh.at = "goals" /\ fresh.order = writer[w].order
          /\ fresh.owed = campaign /\ fresh.who = writer[w].who
        BY <1>1 DEF WriterRow, ConversionsInv, ConversionsTypeOK
    <2>2. writer' = [writer EXCEPT ![w] = fresh]
        BY <1>2
    <2>3. PICK row \in WriterRow : row = fresh
        BY <2>1
    <2>4. landed' \subseteq Browsers /\ failures' \in Nat
        <3>1. writer[w].who \in Browsers
            BY <1>0 DEF ConversionsInv, OrdersAttributed
        <3>2. landed \subseteq Browsers /\ failures \in Nat
            BY DEF ConversionsInv, ConversionsTypeOK
        <3> QED BY <1>2, <3>1, <3>2
    <2>5. landed \subseteq landed'
        BY <1>2
    <2>6. campaign => fresh.who \in landed'
        BY <1>2, <2>1
    <2> HIDE DEF fresh
    <2>7. writer' \in [Writers -> WriterRow] /\ GoalsLoaded' /\ OrdersAttributed' /\ ClicksStored'
        BY <1>0, <1>1, <2>1, <2>2, <2>3, <2>5, <2>6, WriterMoves
    <2> QED BY <1>0, <2>4, <2>7, WriterKeeps
<1>3. CASE landed' = landed /\ failures' = 1 /\ writer' = [writer EXCEPT ![w].at = "goals"]
    <2> DEFINE fresh == [writer[w] EXCEPT !.at = "goals"]
    <2>1. /\ fresh \in WriterRow /\ fresh.at = "goals" /\ fresh.order = writer[w].order
          /\ fresh.owed = writer[w].owed
        BY <1>1 DEF WriterRow
    <2>2. writer' = [writer EXCEPT ![w] = fresh]
        BY <1>3
    <2>3. PICK row \in WriterRow : row = fresh
        BY <2>1
    <2>4. landed' \subseteq Browsers /\ failures' \in Nat
        BY <1>3 DEF ConversionsInv, ConversionsTypeOK
    <2> HIDE DEF fresh
    <2>5. writer' \in [Writers -> WriterRow] /\ GoalsLoaded' /\ OrdersAttributed' /\ ClicksStored'
        BY <1>0, <1>1, <1>3, <2>1, <2>2, <2>3, WriterMoves
    <2> QED BY <1>0, <2>4, <2>5, WriterKeeps
<1> QED BY <1>2, <1>3 DEF TrackClick

\* The goal as it is now, or the end.
LEMMA GoalLoaded ==
    ASSUME ConversionsInv, NEW w \in Writers, LoadGoal(w)
    PROVE  ConversionsInv'
<1>0. /\ goal' = goal /\ campaign' = campaign /\ seenAs' = seenAs /\ landed' = landed
      /\ conversions' = conversions /\ flips' = flips /\ failures' = failures
      /\ writer[w].at = "goals"
    BY DEF LoadGoal
<1>1. /\ landed' \subseteq Browsers /\ failures' \in Nat /\ goal \in Goal /\ goal.id \in Nat
      /\ writer[w] \in WriterRow
    BY <1>0 DEF ConversionsInv, ConversionsTypeOK, WriterRow, Goal
<1>2. /\ writer[w].order \in Orders => w \in Reports
      /\ w \in Reports => ~writer[w].owed
      /\ writer[w].owed => ~campaign \/ writer[w].who \in landed
    BY <1>0 DEF ConversionsInv, OrdersAttributed, ClicksStored
<1>3. writer' \in [Writers -> WriterRow] /\ GoalsLoaded' /\ OrdersAttributed' /\ ClicksStored'
    <2>1. CASE goal.enabled
        <3> DEFINE fresh == [writer[w] EXCEPT !.at = IF w \in Reports THEN "visitor" ELSE "credit", !.goal = goal]
        <3>1. /\ fresh \in WriterRow /\ fresh.at = (IF w \in Reports THEN "visitor" ELSE "credit")
              /\ fresh.order = writer[w].order /\ fresh.owed = writer[w].owed
              /\ fresh.who = writer[w].who /\ fresh.goal = goal
            BY <1>1 DEF WriterRow
        <3>2. writer' = [writer EXCEPT ![w] = fresh]
            BY <2>1 DEF LoadGoal
        <3>3. PICK row \in WriterRow : row = fresh
            BY <3>1
        <3> HIDE DEF fresh
        <3>4. /\ fresh.goal.id <= goal.id /\ fresh.goal.repeatable = goal.repeatable
              /\ fresh.order \in Orders => w \in Reports
              /\ ~(fresh.order \in Orders /\ fresh.at \in {"credit", "insert"})
              /\ fresh.at # "click" /\ (w \in Reports => ~fresh.owed)
              /\ fresh.at = "visitor" => w \in Reports
              /\ fresh.owed => (~campaign \/ (fresh.at = "credit" /\ fresh.who \in landed'))
            <4>1. fresh.goal.id <= goal.id /\ fresh.goal.repeatable = goal.repeatable
                BY <1>1, <3>1
            <4>2. /\ fresh.order \in Orders => w \in Reports
                  /\ ~(fresh.order \in Orders /\ fresh.at \in {"credit", "insert"})
                  /\ fresh.at # "click" /\ (w \in Reports => ~fresh.owed)
                  /\ fresh.at = "visitor" => w \in Reports
                BY <1>2, <3>1
            <4>3. fresh.owed => (~campaign \/ (fresh.at = "credit" /\ fresh.who \in landed'))
                BY <1>0, <1>2, <3>1
            <4> QED BY <4>1, <4>2, <4>3
        <3> QED BY <1>0, <3>2, <3>3, <3>4, WriterMoves
    <2>2. CASE ~goal.enabled
        <3>1. /\ Over \in WriterRow /\ Over.at = "over" /\ Over.order = NoOrder /\ Over.owed = FALSE
            BY DEF Over, Idle, WriterRow, Goal, People
        <3>2. PICK row \in WriterRow : row = Over
            BY <3>1
        <3>3. writer' = [writer EXCEPT ![w] = Over]
            BY <2>2 DEF LoadGoal
        <3> QED BY <1>0, <3>1, <3>2, <3>3, WriterMoves, ConversionsAssumption
    <2> QED BY <2>1, <2>2
<1> QED BY <1>0, <1>1, <1>3, WriterKeeps

\* A delivery finds one of the customer's visitors.
LEMMA VisitorFound ==
    ASSUME ConversionsInv, NEW w \in Writers, FindVisitor(w)
    PROVE  ConversionsInv'
<1>0. /\ goal' = goal /\ campaign' = campaign /\ seenAs' = seenAs /\ landed' = landed
      /\ conversions' = conversions /\ flips' = flips /\ failures' = failures
      /\ writer[w].at = "visitor"
    BY DEF FindVisitor
<1>1. /\ landed' \subseteq Browsers /\ failures' \in Nat /\ seenAs \in Seq(People)
      /\ writer[w] \in WriterRow
    BY <1>0 DEF ConversionsInv, ConversionsTypeOK, WriterRow
<1>2. /\ w \in Reports /\ ~writer[w].owed
      /\ writer[w].goal.id <= goal.id
      /\ (writer[w].goal.id = goal.id /\ flips = 0) => writer[w].goal.repeatable = goal.repeatable
    BY <1>0 DEF ConversionsInv, OrdersAttributed, GoalsLoaded
<1> DEFINE who == IF seenAs = <<>> THEN Minted ELSE seenAs[Len(seenAs)]
<1>3. who \in Whos /\ who \in People
    <2>1. CASE seenAs = <<>>
        BY <2>1 DEF Whos, People
    <2>2. CASE seenAs # <<>>
        <3>1. Len(seenAs) \in 1..Len(seenAs)
            BY <1>1, <2>2
        <3> QED BY <1>1, <2>2, <3>1 DEF Whos
    <2> QED BY <2>1, <2>2
<1> DEFINE fresh == [writer[w] EXCEPT !.at = "credit", !.who = who]
<1>4. writer' = [writer EXCEPT ![w] = fresh]
    BY DEF FindVisitor
<1> HIDE DEF who
<1>5. /\ fresh \in WriterRow /\ fresh.at = "credit" /\ fresh.who = who
      /\ fresh.goal = writer[w].goal /\ fresh.owed = writer[w].owed
    BY <1>1, <1>3 DEF WriterRow
<1>6. PICK row \in WriterRow : row = fresh
    BY <1>5
<1> HIDE DEF fresh
<1>7. writer' \in [Writers -> WriterRow] /\ GoalsLoaded' /\ OrdersAttributed' /\ ClicksStored'
    BY <1>0, <1>2, <1>3, <1>4, <1>5, <1>6, WriterMoves
<1> QED BY <1>0, <1>1, <1>7, WriterKeeps

\* Who is owed a credit is given one: the click is still there, unless its campaign is gone.
LEMMA VisitorAttributed ==
    ASSUME ConversionsInv, NEW w \in Writers, AttributeVisitor(w)
    PROVE  ConversionsInv'
<1>0. /\ goal' = goal /\ campaign' = campaign /\ seenAs' = seenAs /\ landed' = landed
      /\ conversions' = conversions /\ flips' = flips /\ failures' = failures
      /\ writer[w].at = "credit"
    BY DEF AttributeVisitor
<1>1. landed' \subseteq Browsers /\ failures' \in Nat /\ writer[w] \in WriterRow
    BY <1>0 DEF ConversionsInv, ConversionsTypeOK, WriterRow
<1>2. /\ writer[w].order \in Orders => w \in Reports /\ writer[w].who \in Whos
      /\ w \in Reports => ~writer[w].owed
      /\ writer[w].goal.id <= goal.id
      /\ (writer[w].goal.id = goal.id /\ flips = 0) => writer[w].goal.repeatable = goal.repeatable
      /\ writer[w].owed => ~campaign \/ writer[w].who \in landed
    BY <1>0 DEF ConversionsInv, OrdersAttributed, GoalsLoaded, ClicksStored
<1>3. PICK timely \in BOOLEAN :
         writer' = [writer EXCEPT
            ![w].at = "insert",
            ![w].owed = writer[w].owed /\ timely,
            ![w].credited = timely /\ (writer[w].who \in landed
                                         \/ (writer[w].who = Recipient /\ landed # {}))]
    BY DEF AttributeVisitor
<1> DEFINE owed == writer[w].owed /\ timely
           credited == timely /\ (writer[w].who \in landed \/ (writer[w].who = Recipient /\ landed # {}))
           fresh == [writer[w] EXCEPT !.at = "insert", !.owed = owed, !.credited = credited]
<1>4. writer' = [writer EXCEPT ![w] = fresh]
    BY <1>3
<1>5. owed \in BOOLEAN /\ credited \in BOOLEAN
    BY <1>1 DEF WriterRow
<1>6. owed => credited \/ ~campaign
    BY <1>2
<1>7. owed => writer[w].owed
    OBVIOUS
<1> HIDE DEF owed, credited
<1>8. /\ fresh \in WriterRow /\ fresh.at = "insert" /\ fresh.who = writer[w].who
      /\ fresh.order = writer[w].order /\ fresh.goal = writer[w].goal
      /\ fresh.owed = owed /\ fresh.credited = credited
    BY <1>1, <1>5 DEF WriterRow
<1>9. PICK row \in WriterRow : row = fresh
    BY <1>8
<1> HIDE DEF fresh
<1>10. writer' \in [Writers -> WriterRow] /\ GoalsLoaded' /\ OrdersAttributed' /\ ClicksStored'
    BY <1>0, <1>2, <1>4, <1>6, <1>7, <1>8, <1>9, WriterMoves
<1> QED BY <1>0, <1>1, <1>10, WriterKeeps

\* One more visitor for the customer's orders.
LEMMA CustomerSeen ==
    ASSUME ConversionsInv, NEW p \in People, SeeCustomer(p)
    PROVE  ConversionsInv'
<1>0. /\ goal' = goal /\ campaign' = campaign /\ landed' = landed /\ writer' = writer
      /\ conversions' = conversions /\ flips' = flips /\ failures' = failures
      /\ seenAs' = Append(seenAs, p) /\ seenAs \in Seq(People)
    BY DEF SeeCustomer, ConversionsInv, ConversionsTypeOK
<1>1. Whos \subseteq Whos'
    <2>1. /\ Len(seenAs) \in Nat /\ Len(seenAs') = Len(seenAs) + 1
          /\ \A i \in 1..Len(seenAs) : seenAs'[i] = seenAs[i]
        BY <1>0
    <2> QED BY <2>1 DEF Whos
<1>2. ConversionsTypeOK'
    <2>1. seenAs' \in Seq(People)
        BY <1>0
    <2> QED BY <1>0, <2>1 DEF ConversionsInv, ConversionsTypeOK
<1>3. OneForAKey' /\ GoalsLoaded' /\ ClicksStored' /\ CreditsGiven'
    BY <1>0 DEF ConversionsInv, OneForAKey, GoalsLoaded, ClicksStored, CreditsGiven
<1>4. OrdersKeyed'
    BY <1>0, <1>1 DEF ConversionsInv, OrdersKeyed
<1>5. OrdersAttributed'
    BY <1>0, <1>1 DEF ConversionsInv, OrdersAttributed
<1> QED BY <1>2, <1>3, <1>4, <1>5 DEF ConversionsInv

\* Another kind is an edit that counts, the same kind changes no key.
LEMMA GoalEdited ==
    ASSUME ConversionsInv, NEW repeatable \in BOOLEAN, NEW enabled \in BOOLEAN,
           EditGoal(repeatable, enabled)
    PROVE  ConversionsInv'
<1>0. /\ campaign' = campaign /\ landed' = landed /\ writer' = writer /\ seenAs' = seenAs
      /\ conversions' = conversions /\ failures' = failures
      /\ goal \in Goal /\ flips \in Nat /\ flips \in 0..MaxEdits /\ MaxEdits \in Nat
    BY ConversionsAssumption DEF EditGoal, ConversionsInv, ConversionsTypeOK
<1>1. /\ goal' \in Goal /\ goal'.id = goal.id /\ goal'.repeatable = repeatable
    BY <1>0 DEF EditGoal, Goal
<1>2. /\ flips' \in 0..MaxEdits
      /\ flips' = 0 => flips = 0 /\ goal'.repeatable = goal.repeatable
    <2>1. CASE repeatable = goal.repeatable /\ flips' = flips
        BY <1>0, <1>1, <2>1
    <2>2. CASE goal.id + flips < MaxEdits /\ flips' = flips + 1
        <3>1. goal.id \in Nat
            BY <1>0 DEF Goal
        <3> QED BY <1>0, <2>2, <3>1
    <2> QED BY <2>1, <2>2 DEF EditGoal
<1>3. Whos' = Whos
    BY <1>0 DEF Whos
<1>4. ConversionsTypeOK'
    BY <1>0, <1>1, <1>2 DEF ConversionsInv, ConversionsTypeOK
<1>5. OneForAKey' /\ OrdersAttributed' /\ ClicksStored' /\ CreditsGiven'
    BY <1>0, <1>3 DEF ConversionsInv, OneForAKey, OrdersAttributed, ClicksStored, CreditsGiven
<1>6. OrdersKeyed'
    BY <1>0, <1>1, <1>2, <1>3 DEF ConversionsInv, OrdersKeyed
<1>7. GoalsLoaded'
    BY <1>0, <1>1, <1>2 DEF ConversionsInv, GoalsLoaded
<1> QED BY <1>4, <1>5, <1>6, <1>7 DEF ConversionsInv

\* A new goal has no rows yet, and an id no writer has loaded.
LEMMA GoalReplaced ==
    ASSUME ConversionsInv, ReplaceGoal
    PROVE  ConversionsInv'
<1>0. /\ campaign' = campaign /\ landed' = landed /\ writer' = writer /\ seenAs' = seenAs
      /\ conversions' = {} /\ failures' = failures /\ flips' = flips /\ goal.id \in Nat
    BY DEF ReplaceGoal, ConversionsInv, ConversionsTypeOK, Goal
<1>1. goal' \in Goal /\ goal'.id = goal.id + 1
    BY <1>0 DEF ReplaceGoal, Goal
<1>2. Whos' = Whos
    BY <1>0 DEF Whos
<1>3. ConversionsTypeOK'
    BY <1>0, <1>1 DEF ConversionsInv, ConversionsTypeOK
<1>4. OneForAKey' /\ OrdersKeyed' /\ CreditsGiven'
    BY <1>0 DEF OneForAKey, OrdersKeyed, CreditsGiven
<1>5. OrdersAttributed' /\ ClicksStored'
    BY <1>0, <1>2 DEF ConversionsInv, OrdersAttributed, ClicksStored
<1>6. GoalsLoaded'
    <2>1. \A w \in Writers : writer[w].goal.id \in Nat
        BY DEF ConversionsInv, ConversionsTypeOK, Goal
    <2> QED BY <1>0, <1>1, <2>1 DEF ConversionsInv, GoalsLoaded
<1> QED BY <1>3, <1>4, <1>5, <1>6 DEF ConversionsInv

\* Without the campaign nothing is owed.
LEMMA CampaignDropped ==
    ASSUME ConversionsInv, DropCampaign
    PROVE  ConversionsInv'
<1>0. /\ campaign' = FALSE /\ landed' = {} /\ writer' = writer /\ seenAs' = seenAs
      /\ conversions' = conversions /\ failures' = failures /\ flips' = flips /\ goal' = goal
    BY DEF DropCampaign
<1>1. Whos' = Whos
    BY <1>0 DEF Whos
<1>2. ConversionsTypeOK'
    BY <1>0 DEF ConversionsInv, ConversionsTypeOK
<1>3. OneForAKey' /\ OrdersKeyed' /\ GoalsLoaded' /\ OrdersAttributed'
    BY <1>0, <1>1 DEF ConversionsInv, OneForAKey, OrdersKeyed, GoalsLoaded, OrdersAttributed
<1>4. ClicksStored' /\ CreditsGiven'
    BY <1>0 DEF ClicksStored, CreditsGiven
<1> QED BY <1>2, <1>3, <1>4 DEF ConversionsInv

\* Nothing is counted at first.
LEMMA ConversionsStart ==
    ASSUME ConversionsInit
    PROVE  ConversionsInv
<1>1. ConversionsTypeOK
    <2>1. Idle \in WriterRow
        BY DEF Idle, WriterRow, Goal, People
    <2>2. writer \in [Writers -> WriterRow]
        BY <2>1 DEF ConversionsInit
    <2>3. goal \in Goal
        <3>1. goal \in [id : {0}, repeatable : BOOLEAN, enabled : {TRUE}]
            BY DEF ConversionsInit
        <3>2. /\ goal = [id |-> goal.id, repeatable |-> goal.repeatable, enabled |-> goal.enabled]
              /\ goal.id \in {0} /\ goal.repeatable \in BOOLEAN /\ goal.enabled \in {TRUE}
            BY <3>1
        <3>3. goal.id \in Nat
            <4>1. goal.id = 0
                BY <3>2
            <4> QED BY <4>1
        <3>4. goal.enabled \in BOOLEAN
            <4>1. goal.enabled = TRUE
                BY <3>2
            <4> QED BY <4>1
        <3> QED BY <3>2, <3>3, <3>4 DEF Goal
    <2> QED BY <2>2, <2>3, ConversionsAssumption DEF ConversionsInit, ConversionsTypeOK, WriterRow
<1>2. OneForAKey /\ OrdersKeyed /\ CreditsGiven
    BY DEF ConversionsInit, OneForAKey, OrdersKeyed, CreditsGiven
<1>3. \A w \in Writers : /\ writer[w].at = "off" /\ writer[w].order \notin Orders /\ writer[w].owed = FALSE
    BY ConversionsAssumption DEF ConversionsInit, Idle
<1>4. GoalsLoaded /\ OrdersAttributed /\ ClicksStored
    BY <1>3 DEF GoalsLoaded, OrdersAttributed, ClicksStored
<1> QED BY <1>1, <1>2, <1>4 DEF ConversionsInv

\* Whatever deliveries, batches, captures and edits do, an order's rows have the
\* keys of its customer's visitors, and a landing's click is there for its
\* credit (conversion_tracker.py, routers/outcomes.py, routers/events.py).
THEOREM ConversionsInvariance == ConversionsSpec => []ConversionsInv
<1>1. ConversionsInit => ConversionsInv
    BY ConversionsStart
<1>2. ConversionsInv /\ [ConversionsNext]_conversionVars => ConversionsInv'
    <2> SUFFICES ASSUME ConversionsInv, [ConversionsNext]_conversionVars
                 PROVE  ConversionsInv'
        OBVIOUS
    <2>1. CASE ReplaceGoal
        BY <2>1, GoalReplaced
    <2>2. CASE DropCampaign
        BY <2>2, CampaignDropped
    <2>3. ASSUME NEW p \in People, SeeCustomer(p)
          PROVE  ConversionsInv'
        BY <2>3, CustomerSeen
    <2>4. ASSUME NEW repeatable \in BOOLEAN, NEW enabled \in BOOLEAN, EditGoal(repeatable, enabled)
          PROVE  ConversionsInv'
        BY <2>4, GoalEdited
    <2>5. ASSUME NEW w \in Reports, NEW o \in Orders, Report(w, o)
          PROVE  ConversionsInv'
        BY <2>5, Arrives DEF Writers
    <2>6. ASSUME NEW w \in Landings, NEW b \in Browsers, NEW overLink \in BOOLEAN, Land(w, b, overLink)
          PROVE  ConversionsInv'
        BY <2>6, Arrives DEF Writers
    <2>7. ASSUME NEW w \in Writers,
                 \/ TrackClick(w) \/ LoadGoal(w) \/ FindVisitor(w)
                 \/ AttributeVisitor(w) \/ InsertConversion(w)
          PROVE  ConversionsInv'
        BY <2>7, ClickTracked, GoalLoaded, VisitorFound, VisitorAttributed, RowInserted
    <2>8. CASE UNCHANGED conversionVars
        <3>1. Whos' = Whos
            BY <2>8 DEF conversionVars, Whos
        <3> QED BY <2>8, <3>1 DEF conversionVars, ConversionsInv, ConversionsTypeOK, OneForAKey, OrdersKeyed,
                GoalsLoaded, OrdersAttributed, ClicksStored, CreditsGiven
    <2> QED BY <2>1, <2>2, <2>3, <2>4, <2>5, <2>6, <2>7, <2>8 DEF ConversionsNext
<1> QED BY <1>1, <1>2, PTL DEF ConversionsSpec

\* For any number of deliveries of an order, in any interleaving, it is counted no
\* more often than its customer was captured as another visitor and the goal
\* changed its kind; and a landing's conversion is credited while there is a
\* campaign to credit (build_dedupe_key and attribute_visitor).
THEOREM OrdersCountedOnce == ConversionsSpec => []CountedOnceAndCredited
<1>1. ConversionsInv => CountedOnceAndCredited
    <2> SUFFICES ASSUME ConversionsInv PROVE CountedOnceAndCredited
        OBVIOUS
    <2>1. \A o \in Orders :
             Cardinality({c \in conversions : c.order = o}) <= (1 + Len(seenAs)) * (1 + flips)
        BY OrderCounted
    <2> QED BY <2>1 DEF ConversionsInv, CreditsGiven, CountedOnceAndCredited
<1> QED BY <1>1, ConversionsInvariance, PTL
=============================================================================
